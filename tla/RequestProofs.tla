--------------------------- MODULE RequestProofs ---------------------------
(***************************************************************************)
(* What whoever asks for a scan can count on: ScanCommand for any number   *)
(* of commands and connections, RateLimiter for any threads and keys.      *)
(*                                                                         *)
(* ScanCommand.  The events a client reads are those of the job of the     *)
(* session of its connection (Truthful).  That session is the client's     *)
(* from the handshake on (Link), because every client creates one and each *)
(* HELLO on its way belongs to a client that has none (HelloFrom); it has  *)
(* one job, because at most one SCAN is ever on its way to it (Claims).    *)
(* After a restart the numbers of the sessions begin anew, so with other   *)
(* clients about a session may be another one's: Alone is when it cannot.  *)
(*                                                                         *)
(* RateLimiter.  tokens[k] - updated[k] is the potential of a bucket.  An  *)
(* early or late reading does not change it, the cap only lowers it, and   *)
(* an admission lowers it by Cost; so what is spent since an observer      *)
(* began is bounded by the potential that is gone (Spending).  Erasing a   *)
(* bucket gives its client a full one, which is no more than what came     *)
(* back during the idle time.                                              *)
(***************************************************************************)
EXTENDS ScanCommand, RateLimiter, FiniteSetTheorems, SequenceTheorems, TLAPS

\* A session is attached to connection c.
Attached(c) == step[c] \notin {"free", "handshake"}
\* The number s has been given to a session of this process.
Used(s) == sessions[s] # NoSession

\* A SCAN on connection c has still to be handled.
Pending(c) == Attached(c) /\ (toServer[c] # <<>> \/ step[c] = "scan")

\* Client k is connected for the first time and has not written SCAN.
First(k) == cstep[k] \in {"welcome", "write"}
Connected(k) == pipe[k] # None

-----------------------------------------------------------------------------
\* What a client knows at each step.
ClientOK(k) ==
  /\ Connected(k) <=> cstep[k] \in {"welcome", "write", "read", "resuming"}
  /\ cstep[k] \in {"start", "welcome"} => sessionId[k] = NoId
  /\ cstep[k] \in {"write", "read", "resume", "resuming", "retry"} => sessionId[k] \in Ids
  /\ cstep[k] \in {"start", "welcome", "write"} => jobId[k] = NoId
  /\ cstep[k] # "done" => exitCode[k] # 0

\* No two clients hold the same connection.
OnePipe == \A j, k \in Clients : Connected(k) /\ pipe[j] = pipe[k] => j = k

\* What message m says of session s is so.
Truthful(m, s) ==
  LET r == sessions[s] IN
  /\ m.type = "WELCOME" => m.id = s
  /\ m.type \in {"ACK", "EVENT"} => m.id # NoId /\ m.id = r.job
  /\ m.type = "EVENT" =>
       /\ m.seq <= r.published
       /\ m.state # "running" => m.state = r.result /\ r.result # None

\* What a connection has at each step; every message it has written is true.
ConnOK(c) ==
  /\ step[c] = "free" => session[c] = NoId /\ toServer[c] = <<>> /\ ~running[c]
  /\ step[c] = "handshake" =>
       /\ session[c] = NoId /\ Len(toServer[c]) = 1
       /\ \/ Head(toServer[c]).type = "HELLO"
          \/ Head(toServer[c]).type = "RESUME" /\ Head(toServer[c]).id \in Ids
             /\ Head(toServer[c]).seq <= MaxProgress + 1
  /\ step[c] \in {"free", "handshake", "welcome"} => toClient[c] = <<>>
  /\ Attached(c) =>
       /\ session[c] \in Ids /\ Used(session[c])
       /\ Len(toServer[c]) <= 1 /\ (step[c] = "scan" => toServer[c] = <<>>)
       /\ step[c] = "ack" => sessions[session[c]].job # NoId
       /\ step[c] \in {"serving", "scan", "ack", "mark"} => sessions[session[c]].client # None
       /\ step[c] = "welcome" /\ ClientThere(c) => sessions[session[c]].client # None
  /\ \A i \in DOMAIN toClient[c] : Truthful(toClient[c][i], session[c])

\* Whoever said HELLO has no other session and will have none.
HelloFrom(c) ==
  step[c] = "handshake" /\ Head(toServer[c]).type = "HELLO" =>
    \E k \in Clients : sessionId[k] = NoId /\
                       (cstep[k] = "done" \/ (cstep[k] = "welcome" /\ pipe[k] = c))

\* The client has still to learn from connection c what its job is.
Answering(c) ==
  Pending(c) \/ step[c] = "ack" \/ \E i \in DOMAIN toClient[c] : toClient[c][i].type = "ACK"

\* A client and the connection it holds agree on the session, and on the job the ACK names.
Link(k) ==
  LET c == pipe[k] IN
  /\ step[c] = "handshake" =>
       \/ cstep[k] = "welcome" /\ Head(toServer[c]).type = "HELLO"
       \/ cstep[k] = "resuming" /\ Head(toServer[c]).type = "RESUME"
          /\ Head(toServer[c]).id = sessionId[k]
  /\ Attached(c) =>
       /\ First(k) => sessions[session[c]].client = k
       /\ First(k) \/ cstep[k] = "resuming" => ~Answering(c)
       /\ cstep[k] # "welcome" => session[c] = sessionId[k]
       /\ cstep[k] = "read" /\ Answering(c) => jobId[k] \in {NoId, sessions[session[c]].job}
       /\ cstep[k] \in {"welcome", "resuming"} =>
            /\ toClient[c] # <<>> => Head(toClient[c]).type = "WELCOME"
            /\ step[c] \in {"serving", "scan", "ack"} /\ running[c] => toClient[c] # <<>>

\* A session without a job has no events; a session without a client cannot be resumed.
SessionOK(s) ==
  LET r == sessions[s] IN
  /\ r.job = NoId => r.published = 0 /\ r.result = None
  /\ r.result = None => r.published <= MaxProgress
  /\ Used(s) => r.client # None \/ (r.inTable /\ r.connected)
  /\ r.client # None /\ r.result # None => outcome[r.client] = r.result

\* The numbers of the sessions are given in order.
InUse == {s \in Ids : Used(s)}
Prefix == \E n \in 0..Cardinality(Clients) : InUse = 1..n

\* No client has two sessions, and one whose HELLO has not been handled has none.
OneSession ==
  \A s, t \in Ids : sessions[s].client # None /\ sessions[s].client = sessions[t].client => s = t
NotYet(k) ==
  cstep[k] = "start" \/ (cstep[k] = "welcome" /\ step[pipe[k]] = "handshake")
    => \A s \in Ids : sessions[s].client # k

\* The jobs are numbered in order, and each belongs to a session.
WithJob == {s \in Ids : sessions[s].job # NoId}
JobCount == nextJobId = Cardinality(WithJob) + 1

\* Connection c carries a SCAN or will: its session has no job, and no other such connection.
Claim(c) == Pending(c) \/ (Attached(c) /\ \E k \in Clients : pipe[k] = c /\ First(k))
Claims ==
  /\ \A c \in Conns : Claim(c) => sessions[session[c]].job = NoId
  /\ \A c, d \in Conns : Claim(c) /\ Claim(d) /\ session[c] = session[d] => c = d

\* No session can be another one's that has got the same number after a restart.
Alone == restarts = 0 \/ \A j, k \in Clients : j = k
\* Then the session a client resumes is its own, and whoever ends with 0 has seen its end.
Own == Alone =>
  \A k \in Clients :
    /\ sessionId[k] \in Ids => \/ sessions[sessionId[k]].client = k
                               \/ restarts # 0 /\ ~Used(sessionId[k])
    /\ exitCode[k] = 0 =>
         outcome[k] = "completed" /\ \A s \in Ids : sessions[s].client = k => sessions[s].result # None

\* The inductive invariant.
IInv ==
  /\ TypeOK
  /\ \A k \in Clients : ClientOK(k)
  /\ OnePipe
  /\ \A c \in Conns : ConnOK(c)
  /\ \A c \in Conns : HelloFrom(c)
  /\ \A k \in Clients : Connected(k) => Link(k)
  /\ \A s \in Ids : SessionOK(s)
  /\ Prefix /\ OneSession
  /\ \A k \in Clients : NotYet(k)
  /\ JobCount /\ Claims /\ Own

\* The values of sessions, cstep and step, as TypeOK lists them.
SessionRecords == [inTable : BOOLEAN, connected : BOOLEAN,
       sent : 0..(MaxProgress + 1), published : 0..(MaxProgress + 1),
       job : Ids \cup {NoId}, result : {None, "completed", "failed"},
       client : Clients \cup {None}]
CSteps == {"start", "welcome", "write", "read", "resume", "resuming", "retry", "done"}
Steps == {"free", "handshake", "welcome", "serving", "scan", "ack", "mark", "over"}

\* A client gives its pipe up, or fails to get one.
LEMMA GivesUp ==
  ASSUME IInv, NEW k \in Clients,
         UNCHANGED <<sessionId, jobId, lastEventSeq, exitCode, pipeVars, connVars, sessions,
                     nextJobId, restarts, outcome>>,
         pipe' = [pipe EXCEPT ![k] = None], cstep' = [cstep EXCEPT ![k] = cstep'[k]],
         cstep'[k] \in {"done", "retry", "resume"},
         cstep'[k] # "done" => cstep[k] \notin {"start", "welcome", "write", "done"}
  PROVE  IInv'
<1> USE ScanCommandAssumption DEF IInv
<1>0. /\ UNCHANGED <<sessionId, jobId, lastEventSeq, exitCode, pipeVars, connVars, sessions, nextJobId, restarts, outcome>>
      /\ pipe' = [pipe EXCEPT ![k] = None]
      /\ cstep' = [cstep EXCEPT ![k] = cstep'[k]]
      /\ cstep'[k] \in {"done", "retry", "resume"}
      /\ cstep'[k] # "done" => cstep[k] \notin {"start", "welcome", "write", "done"}
  OBVIOUS
<1>1. TypeOK'
  <2>1. cstep' \in [Clients -> {"start", "welcome", "write", "read", "resume", "resuming",
                                "retry", "done"}]
    BY <1>0 DEF TypeOK
  <2>2. pipe' \in [Clients -> Conns \cup {None}]
    BY <1>0 DEF TypeOK
  <2> QED BY <1>0, <2>1, <2>2 DEF TypeOK, pipeVars, connVars
<1>2. (\A j \in Clients : ClientOK(j))'
  BY <1>0 DEF TypeOK, ClientOK, Connected
<1>3. OnePipe'
  BY <1>0 DEF TypeOK, OnePipe, Connected
<1>4. (\A c \in Conns : ConnOK(c))'
  <2>1. \A c \in Conns : ClientThere(c)' => ClientThere(c)
    BY <1>0 DEF ClientThere, TypeOK
  <2> QED BY <1>0, <2>1 DEF ConnOK, Attached, Used, Truthful, pipeVars, connVars
<1>5. (\A c \in Conns : HelloFrom(c))'
  <2> SUFFICES ASSUME NEW c \in Conns, step[c] = "handshake", Head(toServer[c]).type = "HELLO"
               PROVE  \E j \in Clients : sessionId'[j] = NoId /\
                        (cstep'[j] = "done" \/ (cstep'[j] = "welcome" /\ pipe'[j] = c))
    BY <1>0 DEF HelloFrom, pipeVars, connVars
  <2>2. PICK j \in Clients : sessionId[j] = NoId /\
               (cstep[j] = "done" \/ (cstep[j] = "welcome" /\ pipe[j] = c))
    BY DEF HelloFrom
  <2>3. CASE j = k
    BY <1>0, <2>2, <2>3 DEF TypeOK
  <2>4. CASE j # k
    BY <1>0, <2>2, <2>4 DEF TypeOK
  <2> QED BY <2>3, <2>4
<1>6. (\A j \in Clients : Connected(j) => Link(j))'
  BY <1>0 DEF TypeOK, Connected, Link, Attached, First, Answering, Pending, pipeVars, connVars
<1>7. (\A s \in Ids : SessionOK(s))'
  BY <1>0 DEF SessionOK, Used
<1>8. Prefix' /\ OneSession' /\ JobCount'
  BY <1>0 DEF Prefix, OneSession, JobCount, InUse, Used, WithJob
<1>9. (\A j \in Clients : NotYet(j))'
  BY <1>0 DEF TypeOK, NotYet, connVars
<1>10. Claims'
  BY <1>0 DEF TypeOK, Claims, Claim, Pending, Attached, First, pipeVars, connVars
<1>11. Own'
  BY <1>0 DEF Own, Alone, Used
<1> QED BY <1>1, <1>2, <1>3, <1>4, <1>5, <1>6, <1>7, <1>8, <1>9, <1>10, <1>11

\* A client connects and writes HELLO or RESUME.
LEMMA ConnectStep ==
  ASSUME IInv, NEW k \in Clients, Connect(k)
  PROVE  IInv'
<1> USE ScanCommandAssumption DEF IInv
<1> DEFINE m == Msg(IF FirstTime(k) THEN "HELLO" ELSE "RESUME", sessionId[k], lastEventSeq[k], None)
<1>1. PICK c \in Conns :
       /\ step[c] \in {"free", "over"} /\ ~ClientThere(c)
       /\ pipe' = [pipe EXCEPT ![k] = c]
       /\ toServer' = [toServer EXCEPT ![c] = <<m>>]
       /\ toClient' = [toClient EXCEPT ![c] = <<>>]
       /\ step' = [step EXCEPT ![c] = "handshake"]
       /\ running' = [running EXCEPT ![c] = TRUE]
       /\ session' = [session EXCEPT ![c] = NoId]
  BY DEF Connect, Goto
<1>2. /\ cstep[k] \in {"start", "resume", "retry"}
      /\ cstep' = [cstep EXCEPT ![k] = IF cstep[k] = "start" THEN "welcome" ELSE "resuming"]
      /\ UNCHANGED <<sessionId, jobId, lastEventSeq, exitCode, sessions, nextJobId, restarts, outcome>>
  BY DEF Connect, FirstTime, ClientGoto
<1>3. /\ m \in Messages /\ m.id = sessionId[k] /\ m.seq = lastEventSeq[k]
      /\ m.seq <= MaxProgress + 1
      /\ m.type = IF cstep[k] = "start" THEN "HELLO" ELSE "RESUME"
      /\ cstep[k] # "start" => sessionId[k] \in Ids
  <2>1. sessionId[k] \in Nat /\ lastEventSeq[k] \in 0..(MaxProgress + 1) /\ lastEventSeq[k] \in Nat
    BY FS_CardinalityType DEF TypeOK, Ids, NoId
  <2>2. cstep[k] # "start" => sessionId[k] \in Ids
    BY <1>2 DEF ClientOK
  <2> QED BY <1>2, <2>1, <2>2 DEF Msg, Messages, FirstTime
<1> HIDE DEF m
<1>4. <<m>> \in Seq(Messages) /\ <<>> \in Seq(Messages) /\ Len(<<m>>) = 1 /\ Head(<<m>>) = m /\ <<m>> # <<>>
  BY <1>3
<1>5. \A j \in Clients : pipe[j] # c
  BY <1>1 DEF ClientThere
<1>6. TypeOK'
  <2>1. cstep' \in [Clients -> CSteps] /\ pipe' \in [Clients -> Conns \cup {None}]
    BY <1>1, <1>2 DEF TypeOK, CSteps
  <2>2. step' \in [Conns -> Steps] /\ running' \in [Conns -> BOOLEAN] /\ session' \in [Conns -> Ids \cup {NoId}]
    BY <1>1 DEF TypeOK, Steps
  <2>3. toServer' \in [Conns -> Seq(Messages)] /\ toClient' \in [Conns -> Seq(Messages)]
    BY <1>1, <1>4 DEF TypeOK
  <2> QED BY <1>2, <2>1, <2>2, <2>3 DEF TypeOK, CSteps, Steps
<1>7. /\ \A j \in Clients \ {k} : cstep'[j] = cstep[j] /\ pipe'[j] = pipe[j]
      /\ cstep'[k] = (IF cstep[k] = "start" THEN "welcome" ELSE "resuming") /\ pipe'[k] = c
      /\ \A d \in Conns \ {c} : /\ step'[d] = step[d] /\ running'[d] = running[d] /\ session'[d] = session[d]
                               /\ toServer'[d] = toServer[d] /\ toClient'[d] = toClient[d]
      /\ step'[c] = "handshake" /\ session'[c] = NoId /\ toServer'[c] = <<m>> /\ toClient'[c] = <<>>
      /\ c # None
  BY <1>1, <1>2 DEF TypeOK
<1>8. (\A j \in Clients : ClientOK(j))'
  BY <1>2, <1>3, <1>7 DEF ClientOK, Connected
<1>9. OnePipe'
  BY <1>5, <1>7 DEF OnePipe, Connected
<1>10. (\A d \in Conns : ConnOK(d))'
  <2> SUFFICES ASSUME NEW d \in Conns PROVE ConnOK(d)'
    OBVIOUS
  <2>1. CASE d = c
    <3>1. ~Attached(c)' /\ DOMAIN toClient'[c] = {}
      BY <1>7 DEF Attached
    <3> QED BY <2>1, <3>1, <1>2, <1>3, <1>4, <1>7 DEF ConnOK
  <2>2. CASE d # c
    <3>1. ClientThere(d)' => ClientThere(d)
      BY <1>7, <2>2 DEF ClientThere
    <3> QED BY <2>2, <3>1, <1>2, <1>7 DEF ConnOK, Attached, Used, Truthful
  <2> QED BY <2>1, <2>2
<1>11. (\A d \in Conns : HelloFrom(d))'
  <2> SUFFICES ASSUME NEW d \in Conns, step'[d] = "handshake", Head(toServer'[d]).type = "HELLO"
               PROVE  \E j \in Clients : sessionId'[j] = NoId /\
                        (cstep'[j] = "done" \/ (cstep'[j] = "welcome" /\ pipe'[j] = d))
    BY DEF HelloFrom
  <2>1. CASE d = c
    BY <2>1, <1>2, <1>3, <1>4, <1>7 DEF ClientOK
  <2>2. CASE d # c
    <3>1. PICK j \in Clients : sessionId[j] = NoId /\
               (cstep[j] = "done" \/ (cstep[j] = "welcome" /\ pipe[j] = d))
      BY <2>2, <1>7 DEF HelloFrom
    <3>2. j # k
      BY <3>1, <1>2
    <3> QED BY <3>1, <3>2, <1>2, <1>7
  <2> QED BY <2>1, <2>2
<1>12. (\A j \in Clients : Connected(j) => Link(j))'
  <2> SUFFICES ASSUME NEW j \in Clients, Connected(j)' PROVE Link(j)'
    OBVIOUS
  <2>1. CASE j = k
    BY <2>1, <1>2, <1>3, <1>4, <1>7 DEF Link, Attached
  <2>2. CASE j # k
    <3>1. pipe[j] # c /\ pipe'[j] = pipe[j] /\ pipe[j] \in Conns /\ Connected(j)
      BY <2>2, <1>5, <1>7 DEF TypeOK, Connected
    <3>2. /\ step'[pipe[j]] = step[pipe[j]] /\ running'[pipe[j]] = running[pipe[j]]
          /\ session'[pipe[j]] = session[pipe[j]] /\ toServer'[pipe[j]] = toServer[pipe[j]]
          /\ toClient'[pipe[j]] = toClient[pipe[j]]
          /\ cstep'[j] = cstep[j]
      BY <2>2, <3>1, <1>7
    <3>3. Answering(pipe[j])' = Answering(pipe[j]) /\ Attached(pipe[j])' = Attached(pipe[j])
      BY <3>1, <3>2 DEF Answering, Pending, Attached
    <3>4. Link(j)
      BY <3>1
    <3> HIDE DEF IInv
    <3> QED BY <3>1, <3>2, <3>3, <3>4, <1>2 DEF Link, First
  <2> QED BY <2>1, <2>2
<1>13. (\A s \in Ids : SessionOK(s))'
  BY <1>2 DEF SessionOK, Used
<1>14. Prefix' /\ OneSession' /\ JobCount'
  BY <1>2 DEF Prefix, OneSession, JobCount, InUse, Used, WithJob
<1>15. (\A j \in Clients : NotYet(j))'
  <2> SUFFICES ASSUME NEW j \in Clients PROVE NotYet(j)'
    OBVIOUS
  <2>1. CASE j = k
    BY <2>1, <1>2, <1>7 DEF NotYet
  <2>2. CASE j # k
    <3>1. cstep[j] = "welcome" => pipe[j] \in Conns \ {c}
      BY <1>5 DEF TypeOK, ClientOK, Connected
    <3> QED BY <2>2, <3>1, <1>2, <1>7 DEF NotYet
  <2> QED BY <2>1, <2>2
<1>16. Claims'
  <2>1. ~Claim(c)'
    BY <1>7 DEF Claim, Pending, Attached
  <2>2. \A d \in Conns \ {c} : Claim(d)' => Claim(d)
    BY <1>7 DEF Claim, Pending, Attached, First
  <2> QED BY <2>1, <2>2, <1>2, <1>7 DEF Claims
<1>17. Own'
  BY <1>2 DEF Own, Alone, Used
<1> QED BY <1>6, <1>8, <1>9, <1>10, <1>11, <1>12, <1>13, <1>14, <1>15, <1>16, <1>17

\* A client that reads a message: what it does with it is left to the lemmas below.
LEMMA Reads ==
  ASSUME IInv, NEW k \in Clients, NEW c \in Conns,
         pipe[k] = c, toClient[c] # <<>>,
         toClient' = [toClient EXCEPT ![c] = Tail(@)],
         cstep' = [cstep EXCEPT ![k] = cstep'[k]],
         pipe' = [pipe EXCEPT ![k] = pipe'[k]],
         sessionId' = [sessionId EXCEPT ![k] = sessionId'[k]],
         jobId' = [jobId EXCEPT ![k] = jobId'[k]],
         lastEventSeq' = [lastEventSeq EXCEPT ![k] = lastEventSeq'[k]],
         exitCode' = [exitCode EXCEPT ![k] = exitCode'[k]],
         UNCHANGED <<toServer, connVars, sessions, nextJobId, restarts, outcome>>,
         cstep[k] \in {"welcome", "resuming", "read"},
         \/ pipe'[k] = c /\ cstep'[k] = (IF cstep[k] = "welcome" THEN "write" ELSE "read")
         \/ pipe'[k] = None /\ cstep'[k] = "done" /\ cstep[k] = "read",
         sessionId'[k] = session[c],
         jobId'[k] \in Nat,
         cstep[k] # "read" => jobId'[k] = jobId[k],
         jobId'[k] \in {jobId[k], sessions[session[c]].job},
         jobId'[k] # jobId[k] => jobId[k] = NoId \/ Head(toClient[c]).type = "ACK",
         lastEventSeq'[k] \in 0..(MaxProgress + 1),
         exitCode'[k] \in 0..2,
         cstep'[k] # "done" => exitCode'[k] # 0,
         exitCode'[k] = 0 => sessions[session[c]].result = "completed"
  PROVE  IInv'
<1> USE ScanCommandAssumption DEF IInv
<1>1. /\ \A j \in Clients \ {k} : cstep'[j] = cstep[j] /\ pipe'[j] = pipe[j] /\ sessionId'[j] = sessionId[j]
                                  /\ jobId'[j] = jobId[j] /\ exitCode'[j] = exitCode[j]
      /\ \A d \in Conns \ {c} : toClient'[d] = toClient[d]
      /\ toClient'[c] = Tail(toClient[c])
      /\ c # None
  BY DEF TypeOK
<1>2. Attached(c) /\ session[c] \in Ids /\ Used(session[c])
  BY DEF ConnOK, Attached, TypeOK
<1>3. cstep[k] # "welcome" => session[c] = sessionId[k]
  BY <1>2, <1>1 DEF Link, Connected
<1>4. \A i \in DOMAIN toClient'[c] : \E h \in DOMAIN toClient[c] : toClient'[c][i] = toClient[c][h]
  BY <1>1 DEF TypeOK
<1>6. TypeOK'
  <2>1. cstep' \in [Clients -> CSteps] /\ pipe' \in [Clients -> Conns \cup {None}]
    <3>1. cstep'[k] \in CSteps /\ pipe'[k] \in Conns \cup {None}
      BY DEF CSteps
    <3>2. cstep' \in [Clients -> CSteps]
      <4>1. cstep \in [Clients -> CSteps]
        BY DEF TypeOK, CSteps
      <4> QED BY <3>1, <4>1
    <3>3. pipe' \in [Clients -> Conns \cup {None}]
      BY <3>1 DEF TypeOK
    <3> QED BY <3>2, <3>3
  <2>2. sessionId' \in [Clients -> Ids \cup {NoId}] /\ jobId' \in [Clients -> Nat]
    <3>1. sessionId' \in [Clients -> Ids \cup {NoId}]
      BY <1>2 DEF TypeOK
    <3>2. jobId' \in [Clients -> Nat]
      BY DEF TypeOK
    <3> QED BY <3>1, <3>2
  <2>3. lastEventSeq' \in [Clients -> 0..(MaxProgress + 1)] /\ exitCode' \in [Clients -> 0..2]
    BY DEF TypeOK
  <2>4. toClient' \in [Conns -> Seq(Messages)]
    <3>1. Tail(toClient[c]) \in Seq(Messages)
      BY DEF TypeOK
    <3> QED BY <3>1 DEF TypeOK
  <2> QED BY <2>1, <2>2, <2>3, <2>4 DEF TypeOK, CSteps, connVars
<1>8. (\A j \in Clients : ClientOK(j))'
  BY <1>1, <1>2 DEF ClientOK, Connected, Ids, NoId
<1>9. OnePipe'
  BY <1>1 DEF OnePipe, Connected
<1>10. (\A d \in Conns : ConnOK(d))'
  <2> SUFFICES ASSUME NEW d \in Conns PROVE ConnOK(d)'
    OBVIOUS
  <2>0. ClientThere(d)' => ClientThere(d)
    BY <1>1 DEF ClientThere
  <2>1. CASE d = c
    <3>1. step[c] \notin {"free", "handshake", "welcome"}
      BY DEF ConnOK
    <3>2. (\A i \in DOMAIN toClient[c] : Truthful(toClient[c][i], session[c]))'
      <4> SUFFICES ASSUME NEW i \in DOMAIN toClient'[c] PROVE Truthful(toClient[c][i], session[c])'
        OBVIOUS
      <4>1. PICK h \in DOMAIN toClient[c] : toClient'[c][i] = toClient[c][h]
        BY <1>4
      <4>2. Truthful(toClient[c][h], session[c])
        BY DEF ConnOK
      <4>3. UNCHANGED <<session, sessions>>
        BY DEF connVars
      <4> QED BY <4>1, <4>2, <4>3 DEF Truthful
    <3>3. toServer'[c] = toServer[c] /\ UNCHANGED <<step, session, running, sessions>>
      BY DEF connVars
    <3>4. ConnOK(c)
      OBVIOUS
    <3> QED BY <2>0, <2>1, <3>1, <3>2, <3>3, <3>4, <1>2 DEF ConnOK, Attached, Used
  <2>2. CASE d # c
    BY <2>2, <2>0, <1>1 DEF ConnOK, Attached, Used, Truthful, connVars
  <2> QED BY <2>1, <2>2
<1>11. (\A d \in Conns : HelloFrom(d))'
  <2> SUFFICES ASSUME NEW d \in Conns, step[d] = "handshake", Head(toServer[d]).type = "HELLO"
               PROVE  \E j \in Clients : sessionId'[j] = NoId /\
                        (cstep'[j] = "done" \/ (cstep'[j] = "welcome" /\ pipe'[j] = d))
    BY DEF HelloFrom, connVars
  <2>1. PICK j \in Clients : sessionId[j] = NoId /\
               (cstep[j] = "done" \/ (cstep[j] = "welcome" /\ pipe[j] = d))
    BY DEF HelloFrom
  <2>2. j # k
    BY <2>1, <1>2 DEF Attached
  <2> QED BY <2>1, <2>2, <1>1
<1>12. (\A j \in Clients : Connected(j) => Link(j))'
  <2> SUFFICES ASSUME NEW j \in Clients, Connected(j)' PROVE Link(j)'
    OBVIOUS
  <2>1. CASE j = k
    <3>1. pipe'[k] = c /\ pipe[k] = c /\ Link(k)
      BY <2>1, <1>1 DEF Connected
    <3>2. Answering(c)' => Answering(c)
      BY <1>4 DEF Answering, Pending, Attached, connVars
    <3>3. First(k)' => First(k)
      BY <3>1, <1>1 DEF First
    <3>4. cstep'[k] \in {"write", "read"}
      BY <2>1, <1>1 DEF Connected
    <3>5. cstep'[k] = "read" /\ Answering(c)' => jobId'[k] \in {NoId, sessions[session[c]].job}
      BY <3>1, <3>2, <1>2 DEF Link, ClientOK
    <3> QED BY <2>1, <1>2, <3>1, <3>2, <3>3, <3>4, <3>5 DEF Link, Attached, First, connVars
  <2>2. CASE j # k
    <3>1. pipe[j] # c /\ pipe'[j] = pipe[j] /\ pipe[j] \in Conns /\ Connected(j)
      BY <2>2, <1>1 DEF TypeOK, Connected, OnePipe
    <3>2. Link(j) /\ cstep'[j] = cstep[j] /\ jobId'[j] = jobId[j] /\ sessionId'[j] = sessionId[j]
          /\ toClient'[pipe[j]] = toClient[pipe[j]]
      BY <2>2, <3>1, <1>1
    <3> QED BY <3>1, <3>2 DEF Link, Attached, First, Answering, Pending, connVars
  <2> QED BY <2>1, <2>2
<1>13. (\A s \in Ids : SessionOK(s))'
  BY DEF SessionOK, Used
<1>14. Prefix' /\ OneSession' /\ JobCount'
  BY DEF Prefix, OneSession, JobCount, InUse, Used, WithJob
<1>15. (\A j \in Clients : NotYet(j))'
  BY <1>1 DEF NotYet, connVars
<1>16. Claims'
  <2>1. \A d \in Conns : Claim(d)' => Claim(d)
    BY <1>1 DEF Claim, Pending, Attached, First, connVars
  <2> QED BY <2>1 DEF Claims, connVars
<1>17. Own'
  <2> SUFFICES ASSUME Alone, NEW j \in Clients
               PROVE  /\ sessionId'[j] \in Ids => \/ sessions[sessionId'[j]].client = j
                                                  \/ restarts # 0 /\ ~Used(sessionId'[j])
                      /\ exitCode'[j] = 0 => outcome[j] = "completed"
                           /\ \A s \in Ids : sessions[s].client = j => sessions[s].result # None
    BY DEF Own, Alone, Used
  <2>1. CASE j # k
    <3>1. /\ sessionId[j] \in Ids => sessions[sessionId[j]].client = j \/ (restarts # 0 /\ ~Used(sessionId[j]))
          /\ exitCode[j] = 0 => outcome[j] = "completed"
                           /\ \A s \in Ids : sessions[s].client = j => sessions[s].result # None
      BY DEF Own
    <3>2. sessionId'[j] = sessionId[j] /\ exitCode'[j] = exitCode[j]
      BY <2>1, <1>1
    <3> QED BY <3>1, <3>2 DEF Used
  <2>2. CASE j = k
    <3>1. sessions[session[c]].client = k
      <4>1. CASE cstep[k] = "welcome"
        BY <4>1, <1>1, <1>2 DEF Link, Connected, First
      <4>2. CASE cstep[k] # "welcome"
        BY <4>2, <1>2, <1>3 DEF Own
      <4> QED BY <4>1, <4>2
    <3>2. exitCode'[k] = 0 => outcome[k] = "completed"
      BY <3>1, <1>2 DEF SessionOK
    <3>3. exitCode'[k] = 0 => \A s \in Ids : sessions[s].client = k => s = session[c]
      <4>1. k # None /\ OneSession
        OBVIOUS
      <4> HIDE DEF IInv
      <4> QED BY <3>1, <4>1, <1>2 DEF OneSession
    <3>4. exitCode'[k] = 0 => \A s \in Ids : sessions[s].client = k => sessions[s].result # None
      BY <3>3
    <3>5. sessions[sessionId'[k]].client = k
      BY <3>1
    <3> QED BY <2>2, <3>2, <3>4, <3>5
  <2> QED BY <2>1, <2>2
<1> QED BY <1>6, <1>8, <1>9, <1>10, <1>11, <1>12, <1>13, <1>14, <1>15, <1>16, <1>17

\* WELCOME tells the client its session.
LEMMA ReadWelcomeStep ==
  ASSUME IInv, NEW k \in Clients, ReadWelcome(k)
  PROVE  IInv'
<1> USE ScanCommandAssumption DEF IInv
<1> DEFINE c == pipe[k]
<1>1. c \in Conns /\ Connected(k) /\ Link(k) /\ ClientOK(k)
  BY DEF ReadWelcome, TypeOK, ClientOK, Connected
<1>2. Attached(c) /\ session[c] \in Ids
  BY <1>1 DEF ReadWelcome, ConnOK, Attached
<1>3. Head(toClient[c]).id = session[c]
  <2>1. Head(toClient[c]).type = "WELCOME"
    BY <1>1, <1>2 DEF ReadWelcome, Link
  <2>2. 1 \in DOMAIN toClient[c] /\ Head(toClient[c]) = toClient[c][1]
    BY <1>1 DEF ReadWelcome, TypeOK
  <2> QED BY <1>1, <2>1, <2>2 DEF ConnOK, Truthful
<1>4. /\ cstep' = [cstep EXCEPT ![k] = IF cstep[k] = "welcome" THEN "write" ELSE "read"]
      /\ sessionId' = [sessionId EXCEPT ![k] = session[c]]
      /\ toClient' = [toClient EXCEPT ![c] = Tail(@)] /\ toClient[c] # <<>>
      /\ cstep[k] \in {"welcome", "resuming"}
      /\ UNCHANGED <<pipe, jobId, lastEventSeq, exitCode, toServer, connVars, sessions,
                 nextJobId, restarts, outcome>>
  BY <1>3 DEF ReadWelcome, FirstTime, ClientGoto
<1>5. /\ cstep'[k] = (IF cstep[k] = "welcome" THEN "write" ELSE "read")
      /\ sessionId'[k] = session[c]
      /\ cstep' = [cstep EXCEPT ![k] = cstep'[k]]
      /\ sessionId' = [sessionId EXCEPT ![k] = sessionId'[k]]
      /\ pipe' = [pipe EXCEPT ![k] = pipe'[k]] /\ pipe'[k] = c
      /\ jobId' = [jobId EXCEPT ![k] = jobId'[k]] /\ jobId'[k] = jobId[k]
      /\ lastEventSeq' = [lastEventSeq EXCEPT ![k] = lastEventSeq'[k]] /\ lastEventSeq'[k] = lastEventSeq[k]
      /\ exitCode' = [exitCode EXCEPT ![k] = exitCode'[k]] /\ exitCode'[k] = exitCode[k]
      /\ jobId[k] \in Nat /\ lastEventSeq[k] \in 0..(MaxProgress + 1) /\ exitCode[k] \in 0..2
  BY <1>4 DEF TypeOK
<1>6. exitCode[k] # 0
  BY <1>1, <1>4 DEF ClientOK
<1> HIDE DEF IInv
<1> QED BY <1>1, <1>4, <1>5, <1>6, Reads

\* The read loop of ScanCommand: an error, the ACK, or an event.
LEMMA ReadStep ==
  ASSUME IInv, NEW k \in Clients, ReadError(k) \/ ReadAck(k) \/ ReadEvent(k)
  PROVE  IInv'
<1> USE ScanCommandAssumption DEF IInv
<1> DEFINE c == pipe[k]
           m == Head(toClient[c])
<1>0. cstep[k] = "read" /\ toClient[c] # <<>>
  BY DEF ReadError, ReadAck, ReadEvent, Read
<1>1. c \in Conns /\ Connected(k) /\ Link(k) /\ ClientOK(k) /\ ConnOK(c) /\ c # None
  BY <1>0 DEF TypeOK, ClientOK, Connected
<1>2. Attached(c) /\ session[c] \in Ids /\ session[c] = sessionId[k]
  BY <1>0, <1>1 DEF ConnOK, Attached, Link
<1>3. m \in Messages /\ Truthful(m, session[c])
  <2>2. 1 \in DOMAIN toClient[c] /\ m = toClient[c][1]
    BY <1>0, <1>1 DEF TypeOK
  <2> QED BY <1>1, <2>2 DEF ConnOK, TypeOK
<1>4. /\ sessions[session[c]].published \in Nat /\ sessions[session[c]].published <= MaxProgress + 1
      /\ jobId[k] \in Nat /\ exitCode[k] \in 0..2 /\ lastEventSeq[k] \in 0..(MaxProgress + 1)
      /\ m.id \in Nat /\ m.seq \in Nat
  BY <1>2, <1>3 DEF TypeOK, Messages
<1>5. \E stop \in BOOLEAN :
      /\ toClient' = [toClient EXCEPT ![c] = Tail(@)]
      /\ cstep' = [cstep EXCEPT ![k] = IF stop THEN "done" ELSE "read"]
      /\ pipe' = [pipe EXCEPT ![k] = IF stop THEN None ELSE c]
      /\ UNCHANGED <<sessionId, toServer, connVars, sessions, nextJobId, restarts, outcome>>
      /\ ~stop => exitCode'[k] # 0
      /\ jobId' = [jobId EXCEPT ![k] = jobId'[k]]
      /\ lastEventSeq' = [lastEventSeq EXCEPT ![k] = lastEventSeq'[k]]
      /\ exitCode' = [exitCode EXCEPT ![k] = exitCode'[k]]
      /\ jobId'[k] \in {jobId[k], sessions[session[c]].job} /\ jobId'[k] \in Nat
      /\ jobId'[k] # jobId[k] => jobId[k] = NoId \/ Head(toClient[c]).type = "ACK"
      /\ lastEventSeq'[k] \in 0..(MaxProgress + 1)
      /\ exitCode'[k] \in 0..2
      /\ exitCode'[k] = 0 => sessions[session[c]].result = "completed"
  <2>0. exitCode[k] # 0
    BY <1>0, <1>1 DEF ClientOK
  <2>1. CASE ReadError(k)
    <3>1. /\ cstep' = [cstep EXCEPT ![k] = "done"] /\ pipe' = [pipe EXCEPT ![k] = None]
          /\ toClient' = [toClient EXCEPT ![c] = Tail(@)]
          /\ UNCHANGED <<sessionId, toServer, connVars, sessions, nextJobId, restarts, outcome>>
          /\ UNCHANGED <<jobId, lastEventSeq, exitCode>>
      BY <2>1 DEF ReadError, Read, ClientGoto
    <3>2. /\ jobId' = [jobId EXCEPT ![k] = jobId'[k]]
          /\ lastEventSeq' = [lastEventSeq EXCEPT ![k] = lastEventSeq'[k]]
          /\ exitCode' = [exitCode EXCEPT ![k] = exitCode'[k]]
      BY <3>1 DEF TypeOK
    <3> QED BY <3>1, <3>2, <1>4, <2>0
  <2>2. CASE ReadAck(k)
    <3>1. /\ m.type = "ACK"
          /\ UNCHANGED <<cstep, pipe>>
          /\ toClient' = [toClient EXCEPT ![c] = Tail(@)]
          /\ UNCHANGED <<sessionId, toServer, connVars, sessions, nextJobId, restarts, outcome>>
          /\ jobId' = [jobId EXCEPT ![k] = m.id]
          /\ UNCHANGED <<lastEventSeq, exitCode>>
      BY <2>2 DEF ReadAck, Read
    <3>2. /\ cstep' = [cstep EXCEPT ![k] = "read"] /\ pipe' = [pipe EXCEPT ![k] = c]
          /\ lastEventSeq' = [lastEventSeq EXCEPT ![k] = lastEventSeq'[k]]
          /\ exitCode' = [exitCode EXCEPT ![k] = exitCode'[k]]
          /\ jobId'[k] = m.id
      BY <1>0, <3>1 DEF TypeOK
    <3>3. m.id = sessions[session[c]].job
      BY <1>3, <3>1 DEF Truthful
    <3> QED BY <3>1, <3>2, <3>3, <1>4, <2>0
  <2>3. CASE ReadEvent(k)
    <3> DEFINE own == jobId[k] \in {NoId, m.id}
               stop == own /\ m.state # "running"
    <3>1. /\ m.type = "EVENT"
          /\ IF stop THEN cstep' = [cstep EXCEPT ![k] = "done"] /\ pipe' = [pipe EXCEPT ![k] = None]
                     ELSE UNCHANGED <<cstep, pipe>>
          /\ toClient' = [toClient EXCEPT ![c] = Tail(@)]
          /\ UNCHANGED <<sessionId, toServer, connVars, sessions, nextJobId, restarts, outcome>>
          /\ lastEventSeq' = [lastEventSeq EXCEPT ![k] = IF m.seq > @ THEN m.seq ELSE @]
          /\ jobId' = [jobId EXCEPT ![k] = IF @ = NoId THEN m.id ELSE @]
          /\ exitCode' = [exitCode EXCEPT ![k] = IF ~own THEN @ ELSE IF m.state = "completed" THEN 0 ELSE 2]
      BY <2>3 DEF ReadEvent, Read, ClientGoto
    <3>2. /\ cstep' = [cstep EXCEPT ![k] = IF stop THEN "done" ELSE "read"]
          /\ pipe' = [pipe EXCEPT ![k] = IF stop THEN None ELSE c]
      BY <1>0, <3>1 DEF TypeOK
    <3>3. /\ lastEventSeq'[k] = (IF m.seq > lastEventSeq[k] THEN m.seq ELSE lastEventSeq[k])
          /\ jobId'[k] = (IF jobId[k] = NoId THEN m.id ELSE jobId[k])
          /\ exitCode'[k] = (IF ~own THEN exitCode[k] ELSE IF m.state = "completed" THEN 0 ELSE 2)
          /\ lastEventSeq' = [lastEventSeq EXCEPT ![k] = lastEventSeq'[k]]
          /\ exitCode' = [exitCode EXCEPT ![k] = exitCode'[k]]
          /\ jobId' = [jobId EXCEPT ![k] = jobId'[k]]
      BY <3>1 DEF TypeOK
    <3>4. /\ m.id = sessions[session[c]].job /\ m.seq <= sessions[session[c]].published
          /\ m.state # "running" => m.state = sessions[session[c]].result
      BY <1>3, <3>1 DEF Truthful
    <3>5. lastEventSeq'[k] \in 0..(MaxProgress + 1)
      BY <3>3, <3>4, <1>4
    <3> HIDE DEF c, m
    <3>6. stop \in BOOLEAN
      OBVIOUS
    <3>7. jobId'[k] \in {jobId[k], sessions[session[c]].job} /\ jobId'[k] \in Nat
          /\ (jobId'[k] # jobId[k] => jobId[k] = NoId)
      BY <3>3, <3>4, <1>4
    <3>8. /\ exitCode'[k] \in 0..2 /\ (~stop => exitCode'[k] # 0)
          /\ exitCode'[k] = 0 => sessions[session[c]].result = "completed"
      BY <3>3, <3>4, <1>4, <2>0
    <3> HIDE DEF stop
    <3> QED BY <3>1, <3>2, <3>3, <3>5, <3>6, <3>7, <3>8
  <2> QED BY <2>1, <2>2, <2>3
<1>6. PICK stop \in BOOLEAN : <1>5!(stop)
  BY <1>5
<1>7. /\ cstep'[k] = (IF stop THEN "done" ELSE "read") /\ pipe'[k] = (IF stop THEN None ELSE c)
      /\ cstep' = [cstep EXCEPT ![k] = cstep'[k]]
      /\ pipe' = [pipe EXCEPT ![k] = pipe'[k]]
      /\ sessionId' = [sessionId EXCEPT ![k] = sessionId'[k]] /\ sessionId'[k] = session[c]
  BY <1>2, <1>6 DEF TypeOK
<1> HIDE DEF IInv
<1>8. \/ pipe'[k] = c /\ cstep'[k] = (IF cstep[k] = "welcome" THEN "write" ELSE "read")
      \/ pipe'[k] = None /\ cstep'[k] = "done" /\ cstep[k] = "read"
  BY <1>0, <1>7
<1>9. /\ cstep[k] \in {"welcome", "resuming", "read"} /\ pipe[k] = c /\ c \in Conns
      /\ cstep[k] # "read" => jobId'[k] = jobId[k]
      /\ cstep'[k] # "done" => exitCode'[k] # 0
  BY <1>0, <1>1, <1>6, <1>7
<1> HIDE DEF c, m
<1> QED BY <1>0, <1>6, <1>7, <1>8, <1>9, Reads

\* SCAN is written, or the pipe is found broken.
LEMMA WriteScanStep ==
  ASSUME IInv, NEW k \in Clients, WriteScan(k)
  PROVE  IInv'
<1> USE ScanCommandAssumption DEF IInv
<1> DEFINE c == pipe[k]
           m == Msg("SCAN", NoId, 0, None)
<1>0. cstep[k] = "write" /\ UNCHANGED <<sessionId, jobId, lastEventSeq, exitCode, toClient, connVars, sessions,
                 nextJobId, restarts, outcome>>
  BY DEF WriteScan
<1>1. c \in Conns /\ Connected(k) /\ Link(k) /\ ClientOK(k) /\ ConnOK(c) /\ c # None
  BY <1>0 DEF TypeOK, ClientOK, Connected
<1>2. CASE step[c] = "free"
  <2>1. /\ cstep' = [cstep EXCEPT ![k] = "done"] /\ pipe' = [pipe EXCEPT ![k] = None]
        /\ UNCHANGED toServer
    BY <1>2 DEF WriteScan, Open, ClientGoto
  <2>2. cstep'[k] = "done" /\ cstep' = [cstep EXCEPT ![k] = cstep'[k]]
    BY <2>1 DEF TypeOK
  <2> HIDE DEF IInv
  <2> QED BY <1>0, <2>1, <2>2, GivesUp DEF pipeVars
<1>3. CASE step[c] # "free"
  <2>1. /\ cstep' = [cstep EXCEPT ![k] = "read"] /\ UNCHANGED pipe
        /\ toServer' = [toServer EXCEPT ![c] = Append(@, m)]
    BY <1>3 DEF WriteScan, Open, ClientGoto
  <2>2. m \in Messages
    BY DEF Msg, Messages, NoId
  <2> HIDE DEF m
  <2>3. Attached(c) /\ ~Answering(c) /\ session[c] = sessionId[k] /\ jobId[k] = NoId /\ sessionId[k] \in Ids
    BY <1>0, <1>1, <1>3 DEF Attached, Link, First, ClientOK
  <2>4. toServer[c] = <<>> /\ step[c] # "scan"
    BY <2>3 DEF Answering, Pending
  <2>5. /\ cstep'[k] = "read"
        /\ \A j \in Clients \ {k} : cstep'[j] = cstep[j]
        /\ toServer'[c] = <<m>>
        /\ \A d \in Conns \ {c} : toServer'[d] = toServer[d]
    BY <2>1, <2>4, <1>1 DEF TypeOK
  <2>6. TypeOK'
    <3>1. cstep' \in [Clients -> CSteps]
      <4>1. cstep \in [Clients -> CSteps] /\ "read" \in CSteps
        BY DEF TypeOK, CSteps
      <4> QED BY <2>1, <4>1
    <3>2. toServer' \in [Conns -> Seq(Messages)]
      <4>1. toServer \in [Conns -> Seq(Messages)]
        BY DEF TypeOK
      <4>2. Append(toServer[c], m) \in Seq(Messages)
        BY <4>1, <1>1, <2>2
      <4> QED BY <2>1, <4>1, <4>2
    <3> QED BY <1>0, <2>1, <3>1, <3>2 DEF TypeOK, connVars, CSteps
  <2>7. (\A j \in Clients : ClientOK(j))'
    BY <1>0, <2>1, <2>5, <2>3 DEF ClientOK, Connected
  <2>8. OnePipe'
    BY <2>1 DEF OnePipe, Connected
  <2>9. (\A d \in Conns : ConnOK(d))'
    <3> SUFFICES ASSUME NEW d \in Conns PROVE ConnOK(d)'
      OBVIOUS
    <3>0. ClientThere(d)' = ClientThere(d)
      BY <2>1 DEF ClientThere
    <3>1. CASE d = c
      <4>1. Len(toServer'[c]) = 1
        BY <2>5
      <4> QED BY <3>0, <3>1, <4>1, <2>3, <2>4, <1>0, <1>1 DEF ConnOK, Attached, Used, Truthful, connVars
    <3>2. CASE d # c
      BY <3>0, <3>2, <1>0, <2>5 DEF ConnOK, Attached, Used, Truthful, connVars
    <3> QED BY <3>1, <3>2
  <2>10. (\A d \in Conns : HelloFrom(d))'
    <3> SUFFICES ASSUME NEW d \in Conns, step[d] = "handshake", Head(toServer'[d]).type = "HELLO"
                 PROVE  \E j \in Clients : sessionId[j] = NoId /\
                        (cstep'[j] = "done" \/ (cstep'[j] = "welcome" /\ pipe[j] = d))
      BY <1>0, <2>1 DEF HelloFrom, connVars
    <3>1. d # c
      BY <2>3 DEF Attached
    <3>2. PICK j \in Clients : sessionId[j] = NoId /\
               (cstep[j] = "done" \/ (cstep[j] = "welcome" /\ pipe[j] = d))
      BY <3>1, <2>5 DEF HelloFrom
    <3>3. j # k
      BY <3>2, <1>0
    <3> QED BY <3>2, <3>3, <2>5
  <2>11. (\A j \in Clients : Connected(j) => Link(j))'
    <3> SUFFICES ASSUME NEW j \in Clients, Connected(j)' PROVE Link(j)'
      OBVIOUS
    <3>1. CASE j = k
      BY <3>1, <1>0, <1>1, <2>1, <2>3, <2>5 DEF Link, Attached, First, connVars
    <3>2. CASE j # k
      <4>1. pipe[j] # c /\ pipe[j] \in Conns /\ Connected(j) /\ Link(j)
        BY <3>2, <2>1, <1>1 DEF TypeOK, Connected, OnePipe
      <4> QED BY <3>2, <4>1, <1>0, <2>1, <2>5 DEF Link, Attached, First, Answering, Pending, connVars
    <3> QED BY <3>1, <3>2
  <2>12. (\A s \in Ids : SessionOK(s))' /\ Prefix' /\ OneSession' /\ JobCount' /\ Own'
    BY <1>0 DEF SessionOK, Prefix, OneSession, JobCount, InUse, Used, WithJob, Own, Alone
  <2>13. (\A j \in Clients : NotYet(j))'
    BY <1>0, <2>1, <2>5 DEF NotYet, connVars
  <2>14. Claims'
    <3>1. Claim(c)
      BY <1>0, <2>3 DEF Claim, First
    <3>2. \A d \in Conns : Claim(d)' => Claim(d)
      BY <3>1, <1>0, <2>1, <2>5 DEF Claim, Pending, Attached, First, connVars
    <3> QED BY <3>2, <1>0 DEF Claims, connVars
  <2> QED BY <2>6, <2>7, <2>8, <2>9, <2>10, <2>11, <2>12, <2>13, <2>14
<1> QED BY <1>2, <1>3

\* A connection ends without a session, or its end is closed.
LEMMA Closes ==
  ASSUME IInv, NEW c \in Conns, Closed(c),
         UNCHANGED <<clientVars, sessions, nextJobId, restarts, outcome>>
  PROVE  IInv'
<1> USE ScanCommandAssumption DEF IInv, clientVars
<1>1. /\ step'[c] = "free" /\ running'[c] = FALSE /\ session'[c] = NoId
      /\ toServer'[c] = <<>> /\ toClient'[c] = <<>>
      /\ \A d \in Conns \ {c} : /\ step'[d] = step[d] /\ running'[d] = running[d] /\ session'[d] = session[d]
                                /\ toServer'[d] = toServer[d] /\ toClient'[d] = toClient[d]
  BY DEF Closed, Goto, TypeOK
<1>2. TypeOK'
  <2>1. step' \in [Conns -> Steps] /\ running' \in [Conns -> BOOLEAN] /\ session' \in [Conns -> Ids \cup {NoId}]
    BY DEF Closed, Goto, TypeOK, Steps
  <2>2. <<>> \in Seq(Messages)
    OBVIOUS
  <2>3. toServer' \in [Conns -> Seq(Messages)] /\ toClient' \in [Conns -> Seq(Messages)]
    BY <2>2 DEF Closed, TypeOK
  <2> QED BY <2>1, <2>3 DEF TypeOK, Steps
<1>3. (\A k \in Clients : ClientOK(k))' /\ OnePipe'
  BY DEF ClientOK, OnePipe, Connected
<1>4. (\A d \in Conns : ConnOK(d))'
  <2> SUFFICES ASSUME NEW d \in Conns PROVE ConnOK(d)'
    OBVIOUS
  <2>1. CASE d = c
    <3>1. ~Attached(c)' /\ DOMAIN toClient'[c] = {}
      BY <1>1 DEF Attached
    <3> QED BY <2>1, <3>1, <1>1 DEF ConnOK
  <2>2. CASE d # c
    <3>1. ClientThere(d)' = ClientThere(d)
      BY DEF ClientThere
    <3> QED BY <2>2, <3>1, <1>1 DEF ConnOK, Attached, Used, Truthful
  <2> QED BY <2>1, <2>2
<1>5. (\A d \in Conns : HelloFrom(d))'
  BY <1>1 DEF HelloFrom
<1>6. (\A k \in Clients : Connected(k) => Link(k))'
  <2> SUFFICES ASSUME NEW k \in Clients, Connected(k) PROVE Link(k)'
    BY DEF Connected
  <2>1. CASE pipe[k] = c
    BY <2>1, <1>1 DEF Link, Attached
  <2>2. CASE pipe[k] # c
    <3>1. pipe[k] \in Conns /\ Link(k)
      BY DEF TypeOK, Connected
    <3> QED BY <2>2, <3>1, <1>1 DEF Link, Attached, First, Answering, Pending
  <2> QED BY <2>1, <2>2
<1>7. (\A s \in Ids : SessionOK(s))' /\ Prefix' /\ OneSession' /\ JobCount' /\ Own'
  BY DEF SessionOK, Prefix, OneSession, JobCount, InUse, Used, WithJob, Own, Alone
<1>8. (\A k \in Clients : NotYet(k))'
  <2> SUFFICES ASSUME NEW k \in Clients PROVE NotYet(k)'
    OBVIOUS
  <2>1. cstep[k] = "welcome" => pipe[k] \in Conns
    BY DEF TypeOK, ClientOK, Connected
  <2> QED BY <2>1, <1>1 DEF NotYet
<1>9. Claims'
  <2>1. ~Claim(c)'
    BY <1>1 DEF Claim, Pending, Attached
  <2>2. \A d \in Conns \ {c} : Claim(d)' => Claim(d)
    BY <1>1 DEF Claim, Pending, Attached, First
  <2> QED BY <2>1, <2>2, <1>1 DEF Claims
<1> QED BY <1>2, <1>3, <1>4, <1>5, <1>6, <1>7, <1>8, <1>9

\* The connection that attaches a session, and those that do not.
LEMMA AttachFacts ==
  ASSUME IInv, NEW c \in Conns, NEW s \in Ids, step[c] = "handshake", Attach(c, s)
  PROVE  /\ step'[c] = "welcome" /\ session'[c] = s /\ running'[c] = running[c]
         /\ toServer'[c] = <<>> /\ toClient'[c] = <<>>
         /\ \A d \in Conns \ {c} : /\ step'[d] = step[d] /\ session'[d] = session[d]
                                   /\ toServer'[d] = toServer[d]
         /\ UNCHANGED <<running, toClient, clientVars, nextJobId, restarts, outcome>>
         /\ step' \in [Conns -> Steps] /\ session' \in [Conns -> Ids \cup {NoId}]
         /\ toServer' \in [Conns -> Seq(Messages)]
         /\ c # None
<1> USE ScanCommandAssumption DEF IInv
<1>1. toServer[c] \in Seq(Messages) /\ Len(toServer[c]) = 1 /\ toClient[c] = <<>>
  BY DEF ConnOK, TypeOK
<1>2. Tail(toServer[c]) = <<>> /\ Tail(toServer[c]) \in Seq(Messages)
  <2>1. Tail(toServer[c]) \in Seq(Messages) /\ Len(Tail(toServer[c])) = 0
    BY <1>1
  <2> QED BY <2>1, EmptySeq
<1>3. step' \in [Conns -> Steps] /\ session' \in [Conns -> Ids \cup {NoId}]
  BY DEF Attach, Goto, TypeOK, Steps
<1>4. toServer' \in [Conns -> Seq(Messages)]
  BY <1>2 DEF Attach, TypeOK
<1> QED BY <1>1, <1>2, <1>3, <1>4 DEF Attach, Goto, TypeOK

\* HELLO: the client gets a session of its own.
LEMMA HelloStep ==
  ASSUME IInv, NEW c \in Conns, Hello(c)
  PROVE  IInv'
<1> USE ScanCommandAssumption DEF IInv, clientVars
<1> DEFINE o == Owner(c)
           r == [NoSession EXCEPT !.inTable = TRUE, !.connected = TRUE, !.client = o]
<1>0. PICK n \in 0..Cardinality(Clients) : InUse = 1..n
  BY DEF Prefix
<1>1. PICK s \in Ids : /\ s = NextSessionId /\ s = n + 1 /\ n \in Nat
                        /\ s \notin InUse /\ sessions[s] = NoSession
  <2>1. n \in Nat /\ Cardinality(Clients) \in Nat
    BY FS_CardinalityType
  <2>2. Cardinality(InUse) = n
    BY <1>0, <2>1, FS_Interval
  <2>3. NextSessionId = n + 1
    BY <2>2 DEF NextSessionId, InUse, Used
  <2>4. n + 1 \in Ids
    BY <2>3 DEF Hello
  <2>5. n + 1 \notin InUse
    BY <1>0, <2>1
  <2> QED BY <2>1, <2>3, <2>4, <2>5 DEF InUse, Used
<1>2. /\ step[c] = "handshake" /\ Head(toServer[c]).type = "HELLO"
      /\ Attach(c, s) /\ sessions' = [sessions EXCEPT ![s] = r]
  BY <1>1 DEF Hello, SessionUpdate
<1>3. /\ step'[c] = "welcome" /\ session'[c] = s /\ running'[c] = running[c]
      /\ toServer'[c] = <<>> /\ toClient'[c] = <<>>
      /\ \A d \in Conns \ {c} : step'[d] = step[d] /\ session'[d] = session[d] /\ toServer'[d] = toServer[d]
      /\ UNCHANGED <<running, toClient, clientVars, nextJobId, restarts, outcome>>
      /\ step' \in [Conns -> Steps] /\ session' \in [Conns -> Ids \cup {NoId}]
      /\ toServer' \in [Conns -> Seq(Messages)]
      /\ c # None
  BY <1>1, <1>2, AttachFacts
<1>4. o \in Clients \cup {None} /\ (o # None <=> ClientThere(c))
      /\ \A k \in Clients : pipe[k] = c <=> o = k
  <2>1. CASE ClientThere(c)
    <3>1. o \in Clients /\ pipe[o] = c
      BY <2>1 DEF Owner, ClientThere
    <3> QED BY <2>1, <3>1, <1>3 DEF OnePipe, Connected
  <2>2. CASE ~ClientThere(c)
    BY <2>2 DEF Owner, ClientThere
  <2> QED BY <2>1, <2>2
<1>5. /\ NoSession.inTable = FALSE /\ NoSession.client = None /\ NoSession.job = NoId
      /\ NoSession.result = None /\ NoSession.published = 0
      /\ r.inTable = TRUE /\ r.connected = TRUE /\ r.client = o /\ r.job = NoId
      /\ r.result = None /\ r.published = 0 /\ r # NoSession
  BY DEF NoSession
<1>6. r \in SessionRecords
  <2>1. 0 \in 0..(MaxProgress + 1)
    OBVIOUS
  <2> QED BY <2>1, <1>4 DEF NoSession, SessionRecords
<1> HIDE DEF r, o
<1>7. /\ sessions'[s] = r /\ \A t \in Ids \ {s} : sessions'[t] = sessions[t]
      /\ sessions' \in [Ids -> SessionRecords]
  BY <1>1, <1>2, <1>6 DEF TypeOK, SessionRecords
<1>8. /\ \A d \in Conns : Attached(d) => session[d] \in Ids \ {s}
      /\ \A d \in Conns : ~Attached(d) => toClient[d] = <<>>
  BY <1>1 DEF ConnOK, Attached, Used
<1>9. \A k \in Clients : o = k => cstep[k] = "welcome" /\ Connected(k)
  <2> SUFFICES ASSUME NEW k \in Clients, o = k PROVE cstep[k] = "welcome" /\ Connected(k)
    OBVIOUS
  <2>1. pipe[k] = c /\ Connected(k) /\ Link(k)
    BY <1>3, <1>4 DEF Connected
  <2> QED BY <2>1, <1>2 DEF Link
<1>10. \A t \in Ids : o # None => sessions[t].client # o
  BY <1>2, <1>4, <1>9 DEF NotYet
<1>11. TypeOK'
  BY <1>3, <1>7 DEF TypeOK, Steps, SessionRecords
<1>12. (\A k \in Clients : ClientOK(k))' /\ OnePipe'
  BY <1>3 DEF ClientOK, OnePipe, Connected
<1>13. (\A d \in Conns : ConnOK(d))'
  <2> SUFFICES ASSUME NEW d \in Conns PROVE ConnOK(d)'
    OBVIOUS
  <2>0. ClientThere(d)' = ClientThere(d)
    BY <1>3 DEF ClientThere
  <2>1. CASE d = c
    <3>1. Len(toServer'[c]) <= 1 /\ DOMAIN toClient'[c] = {}
      BY <1>3
    <3>2. Used(s)'
      BY <1>5, <1>7 DEF Used
    <3>3. Attached(c)' /\ sessions'[session'[c]].client = o
      BY <1>3, <1>5, <1>7 DEF Attached
    <3>4. step'[c] = "welcome" /\ session'[c] \in Ids /\ (ClientThere(c)' => o # None)
      BY <2>0, <2>1, <1>1, <1>3, <1>4
    <3> QED BY <2>1, <3>1, <3>2, <3>3, <3>4, <1>3 DEF ConnOK
  <2>2. CASE d # c
    <3>1. Attached(d)' = Attached(d) /\ (Attached(d) => session'[d] = session[d] /\ sessions'[session[d]] = sessions[session[d]])
      BY <2>2, <1>3, <1>7, <1>8 DEF Attached
    <3>2. ~Attached(d) => DOMAIN toClient'[d] = {}
      BY <1>3, <1>8
    <3>3. Attached(d) => (Used(session[d])' = Used(session[d]))
      BY <3>1, <1>3, <2>2 DEF Used, NoSession
    <3>4. (\A i \in DOMAIN toClient[d] : Truthful(toClient[d][i], session[d]))'
      BY <2>2, <3>1, <3>2, <1>3 DEF ConnOK, Truthful
    <3>5. /\ step'[d] = step[d] /\ session'[d] = session[d] /\ toServer'[d] = toServer[d]
          /\ running'[d] = running[d] /\ toClient'[d] = toClient[d] /\ ConnOK(d)
      BY <2>2, <1>3
    <3>6. CASE Attached(d)
      <4>1. Attached(d)' /\ Used(session[d])'
        BY <3>1, <3>3, <3>6 DEF ConnOK
      <4>2. sessions'[session'[d]] = sessions[session[d]] /\ session[d] \in Ids
        BY <3>1, <3>6, <3>5, <1>8
      <4>3. Used(session[d])' = (sessions'[session'[d]] # NoSession)
        BY DEF Used, NoSession
      <4> QED BY <3>6, <4>1, <4>2, <2>0, <3>4, <3>5 DEF ConnOK, Attached, Used, NoSession
    <3>7. CASE ~Attached(d)
      BY <3>1, <3>7, <3>4, <3>5, <2>0 DEF ConnOK, Attached
    <3> QED BY <3>6, <3>7
  <2> QED BY <2>1, <2>2
<1>14. (\A d \in Conns : HelloFrom(d))'
  <2>1. \A d \in Conns : step'[d] = "handshake" => d # c /\ step[d] = "handshake" /\ toServer'[d] = toServer[d]
    BY <1>3
  <2>2. \A d \in Conns : HelloFrom(d)
    OBVIOUS
  <2> HIDE DEF IInv
  <2> QED BY <2>1, <2>2, <1>3 DEF HelloFrom
<1>15. (\A k \in Clients : Connected(k) => Link(k))'
  <2> SUFFICES ASSUME NEW k \in Clients, Connected(k) PROVE Link(k)'
    BY <1>3 DEF Connected
  <2>1. CASE pipe[k] = c
    <3>1. o = k /\ cstep[k] = "welcome" /\ sessions'[session'[c]].client = k
      BY <2>1, <1>3, <1>4, <1>5, <1>7, <1>9
    <3>2. ~Answering(c)'
      BY <1>3 DEF Answering, Pending
    <3> QED BY <2>1, <3>1, <3>2, <1>3 DEF Link, First
  <2>2. CASE pipe[k] # c
    <3>1. pipe[k] \in Conns /\ Link(k)
      BY DEF TypeOK, Connected
    <3> QED BY <2>2, <3>1, <1>3, <1>7, <1>8 DEF Link, Attached, First, Answering, Pending
  <2> QED BY <2>1, <2>2
<1>16. (\A t \in Ids : SessionOK(t))'
  <2> SUFFICES ASSUME NEW t \in Ids PROVE SessionOK(t)'
    OBVIOUS
  <2>1. CASE t = s
    BY <2>1, <1>5, <1>7 DEF SessionOK
  <2>2. CASE t # s
    BY <2>2, <1>3, <1>7 DEF SessionOK, Used, NoSession
  <2> QED BY <2>1, <2>2
<1>17. Prefix'
  <2>1. \A t \in Ids : Used(t)' <=> Used(t) \/ t = s
    BY <1>5, <1>7 DEF Used, NoSession
  <2>2. InUse' = InUse \cup {s}
    BY <1>1, <2>1 DEF InUse
  <2>3. InUse' = 1..(n + 1)
    BY <2>2, <1>0, <1>1
  <2>4. n + 1 \in 0..Cardinality(Clients)
    BY <1>1, FS_CardinalityType DEF Ids
  <2> QED BY <2>3, <2>4 DEF Prefix
<1>18. OneSession'
  BY <1>5, <1>7, <1>10 DEF OneSession
<1>19. (\A k \in Clients : NotYet(k))'
  <2> SUFFICES ASSUME NEW k \in Clients, cstep[k] = "start" \/ (cstep[k] = "welcome" /\ step'[pipe[k]] = "handshake")
               PROVE  \A t \in Ids : sessions'[t].client # k
    BY <1>3 DEF NotYet
  <2>1. cstep[k] = "welcome" => pipe[k] \in Conns \ {c}
    BY <1>3 DEF TypeOK, ClientOK, Connected
  <2>2. o # k
    BY <2>1, <1>4, <1>9
  <2>3. \A t \in Ids : sessions[t].client # k
    BY <2>1, <1>3 DEF NotYet
  <2> QED BY <2>2, <2>3, <1>5, <1>7
<1>20. JobCount'
  <2>1. \A t \in Ids : sessions'[t].job = sessions[t].job
    BY <1>1, <1>5, <1>7
  <2>2. WithJob' = WithJob
    BY <2>1 DEF WithJob
  <2> QED BY <2>2, <1>3 DEF JobCount
<1>21. Claims'
  <2>1. \A d \in Conns \ {c} : Claim(d)' => Claim(d) /\ session'[d] \in Ids \ {s} /\ session'[d] = session[d]
    BY <1>3, <1>8 DEF Claim, Pending, Attached, First
  <2>2. sessions'[session'[c]].job = NoId
    BY <1>3, <1>5, <1>7
  <2>3. ASSUME NEW d \in Conns \ {c}, Claim(d)'
        PROVE  sessions'[session'[d]].job = NoId /\ session'[d] # session'[c]
    <3>1. Claim(d) /\ session[d] \in Ids \ {s} /\ session'[d] = session[d]
      BY <2>1, <2>3
    <3>2. sessions[session[d]].job = NoId
      BY <3>1 DEF Claims
    <3> HIDE DEF IInv
    <3> QED BY <3>1, <3>2, <1>3, <1>7
  <2>4. \A d, e \in Conns : Claim(d)' /\ Claim(e)' /\ session'[d] = session'[e] => d = e
    <3> SUFFICES ASSUME NEW d \in Conns, NEW e \in Conns, Claim(d)', Claim(e)', session'[d] = session'[e]
                 PROVE  d = e
      OBVIOUS
    <3>1. CASE d = c \/ e = c
      BY <3>1, <2>3
    <3>2. CASE d # c /\ e # c
      BY <3>2, <2>1 DEF Claims
    <3> QED BY <3>1, <3>2
  <2> QED BY <2>2, <2>3, <2>4 DEF Claims
<1>22. Own'
  <2> SUFFICES ASSUME Alone, NEW k \in Clients
               PROVE  /\ sessionId[k] \in Ids => \/ sessions'[sessionId[k]].client = k
                                                 \/ (restarts # 0 /\ ~Used(sessionId[k])')
                      /\ exitCode[k] = 0 => outcome[k] = "completed"
                           /\ \A t \in Ids : sessions'[t].client = k => sessions'[t].result # None
    BY <1>3 DEF Own, Alone, Used
  <2>1. /\ sessionId[k] \in Ids => sessions[sessionId[k]].client = k \/ (restarts # 0 /\ ~Used(sessionId[k]))
        /\ exitCode[k] = 0 => outcome[k] = "completed"
             /\ \A t \in Ids : sessions[t].client = k => sessions[t].result # None
    BY DEF Own
  <2>2. sessionId[k] \in Ids => sessionId[k] # s
    <3> SUFFICES ASSUME sessionId[k] \in Ids, sessionId[k] = s PROVE FALSE
      OBVIOUS
    <3>1. restarts # 0
      BY <2>1, <1>1, <1>5
    <3>2. \E j \in Clients : sessionId[j] = NoId
      BY <1>2 DEF HelloFrom
    <3>3. sessionId[k] = NoId
      BY <3>1, <3>2 DEF Alone
    <3> QED BY <3>3 DEF Ids, NoId
  <2>3. exitCode[k] = 0 => o # k
    BY <1>9 DEF ClientOK
  <2>4. sessionId[k] \in Ids => sessions'[sessionId[k]] = sessions[sessionId[k]] /\ (Used(sessionId[k])' <=> Used(sessionId[k]))
    BY <2>2, <1>3, <1>7 DEF Used, NoSession
  <2> QED BY <2>1, <2>3, <2>4, <1>5, <1>7
<1> QED BY <1>11, <1>12, <1>13, <1>14, <1>15, <1>16, <1>17, <1>18, <1>19, <1>20, <1>21, <1>22

\* What clients and queries see of session t stays the same.
Kept(t) ==
  /\ sessions'[t].client = sessions[t].client /\ sessions'[t].job = sessions[t].job
  /\ sessions'[t].published = sessions[t].published /\ sessions'[t].result = sessions[t].result
  /\ \/ sessions'[t] = sessions[t]
     \/ sessions[t].client # None

\* The steps at which the event thread runs.
Busy == {"serving", "scan", "ack"}

\* What a queue holds after a message has been appended.
LEMMA Appended ==
  ASSUME NEW S, NEW q \in Seq(S), NEW m \in S
  PROVE  /\ Append(q, m) \in Seq(S) /\ Append(q, m) # <<>>
         /\ q # <<>> => Head(Append(q, m)) = Head(q)
         /\ q = <<>> => Head(Append(q, m)) = m
         /\ \A i \in DOMAIN Append(q, m) : \/ i \in DOMAIN q /\ Append(q, m)[i] = q[i]
                                           \/ Append(q, m)[i] = m
OBVIOUS

\* What sessions that keep their job, client and result keep true.
LEMMA KeptSessions ==
  ASSUME IInv, \A t \in Ids : Kept(t), UNCHANGED <<nextJobId, restarts, outcome, cstep, pipe, sessionId, exitCode>>,
         \A k \in Clients : cstep[k] = "welcome" /\ step'[pipe[k]] = "handshake" => step[pipe[k]] = "handshake"
  PROVE  /\ \A t \in Ids : Used(t)' = Used(t)
         /\ (\A t \in Ids : SessionOK(t))' /\ Prefix' /\ OneSession'
         /\ (\A k \in Clients : NotYet(k))' /\ JobCount' /\ Own'
<1> USE DEF IInv
<1>1. \A t \in Ids : sessions[t].client # None => sessions[t] # NoSession /\ sessions'[t] # NoSession
  BY DEF Kept, NoSession
<1>2. ASSUME NEW t \in Ids PROVE Used(t)' = Used(t)
  BY <1>1 DEF Kept, Used, NoSession
<1>3. (\A t \in Ids : SessionOK(t))'
  BY <1>2 DEF Kept, SessionOK
<1>4. InUse' = InUse
  BY <1>2 DEF InUse
<1>5. Prefix'
  BY <1>4 DEF Prefix
<1>6. OneSession'
  BY DEF Kept, OneSession
<1>7. (\A k \in Clients : NotYet(k))'
  BY DEF Kept, NotYet
<1>8. WithJob' = WithJob
  BY DEF Kept, WithJob
<1>9. JobCount'
  BY <1>8 DEF JobCount
<1>10. Own'
  <2> SUFFICES ASSUME Alone, NEW k \in Clients
               PROVE  /\ sessionId[k] \in Ids => \/ sessions'[sessionId[k]].client = k
                                                 \/ (restarts # 0 /\ ~Used(sessionId[k])')
                      /\ exitCode[k] = 0 => outcome[k] = "completed"
                           /\ \A t \in Ids : sessions'[t].client = k => sessions'[t].result # None
    BY DEF Own, Alone, Used
  <2>1. /\ sessionId[k] \in Ids => sessions[sessionId[k]].client = k \/ (restarts # 0 /\ ~Used(sessionId[k]))
        /\ exitCode[k] = 0 => outcome[k] = "completed"
             /\ \A t \in Ids : sessions[t].client = k => sessions[t].result # None
    BY DEF Own
  <2>2. sessionId[k] \in Ids => (Used(sessionId[k])' <=> Used(sessionId[k]))
    BY <1>2
  <2> QED BY <2>1, <2>2 DEF Kept
<1> QED BY <1>2, <1>3, <1>5, <1>6, <1>7, <1>9, <1>10

\* A connection with a session goes on, and may write a message.
LEMMA Moves ==
  ASSUME IInv, NEW c \in Conns, Attached(c),
         UNCHANGED <<session, clientVars, nextJobId, restarts, outcome>>,
         step' = [step EXCEPT ![c] = step'[c]], running' = [running EXCEPT ![c] = running'[c]],
         toServer' = [toServer EXCEPT ![c] = toServer'[c]],
         toServer'[c] \in {toServer[c], <<>>},
         sessions' \in [Ids -> SessionRecords], \A t \in Ids : Kept(t),
         step'[c] \in {"serving", "scan", "ack", "mark", "over"}, step'[c] = "ack" => step[c] = "ack",
         running'[c] \in BOOLEAN, running'[c] => running[c],
         step'[c] \in {"serving", "scan", "mark"} => sessions[session[c]].client # None,
         step'[c] = "scan" => toServer'[c] = <<>>,
         Pending(c)' => Pending(c),
         NEW m,
         \/ UNCHANGED toClient
         \/ /\ toClient' = [toClient EXCEPT ![c] = Append(@, m)]
            /\ m \in Messages /\ Truthful(m, session[c])
            /\ m.type = "ACK" => step[c] = "ack"
            /\ m.type = "WELCOME" \/ (step[c] \in Busy /\ running[c]),
         step'[c] \in Busy /\ running'[c] => step[c] \in Busy \/ toClient' # toClient
  PROVE  IInv'
<1> USE ScanCommandAssumption DEF IInv, clientVars
<1>1. /\ \A d \in Conns \ {c} : /\ step'[d] = step[d] /\ running'[d] = running[d]
                                /\ toServer'[d] = toServer[d] /\ toClient'[d] = toClient[d]
      /\ c # None
  BY DEF TypeOK
<1>2. session[c] \in Ids /\ ConnOK(c) /\ Used(session[c])
  BY DEF ConnOK
<1>3. /\ toClient[c] \in Seq(Messages) /\ toClient'[c] \in Seq(Messages)
      /\ toClient' \in [Conns -> Seq(Messages)]
      /\ \A i \in DOMAIN toClient'[c] : \/ i \in DOMAIN toClient[c] /\ toClient'[c][i] = toClient[c][i]
                                        \/ /\ toClient'[c][i] = m /\ Truthful(m, session[c])
                                           /\ m.type = "ACK" => step[c] = "ack"
      /\ toClient[c] # <<>> => toClient'[c] # <<>> /\ Head(toClient'[c]) = Head(toClient[c])
      /\ toClient[c] = <<>> /\ toClient'[c] # <<>> => Head(toClient'[c]).type = "WELCOME" \/ (step[c] \in Busy /\ running[c])
      /\ toClient' # toClient => toClient'[c] # <<>>
  <2>1. toClient \in [Conns -> Seq(Messages)]
    BY DEF TypeOK
  <2>2. CASE UNCHANGED toClient
    BY <2>1, <2>2
  <2>3. CASE toClient' # toClient
    <3>1. toClient'[c] = Append(toClient[c], m) /\ m \in Messages
      BY <2>1, <2>3
    <3>2. toClient[c] \in Seq(Messages)
      BY <2>1
    <3>3. /\ toClient'[c] \in Seq(Messages) /\ toClient'[c] # <<>>
          /\ toClient[c] # <<>> => Head(toClient'[c]) = Head(toClient[c])
          /\ toClient[c] = <<>> => Head(toClient'[c]) = m
          /\ \A i \in DOMAIN toClient'[c] : \/ i \in DOMAIN toClient[c] /\ toClient'[c][i] = toClient[c][i]
                                            \/ toClient'[c][i] = m
      BY <3>1, <3>2, Appended
    <3>4. toClient' \in [Conns -> Seq(Messages)]
      BY <2>1, <2>3, <3>1, <3>3
    <3> QED BY <2>3, <3>2, <3>3, <3>4
  <2> QED BY <2>2, <2>3
<1>4. TypeOK'
  <2>1. step' \in [Conns -> Steps]
    <3>1. step \in [Conns -> Steps] /\ step'[c] \in Steps
      BY DEF TypeOK, Steps
    <3> QED BY <3>1
  <2>2. running' \in [Conns -> BOOLEAN]
    BY DEF TypeOK
  <2>3. toServer' \in [Conns -> Seq(Messages)]
    <3>1. toServer \in [Conns -> Seq(Messages)]
      BY DEF TypeOK
    <3>2. toServer'[c] \in Seq(Messages)
      <4>1. toServer[c] \in Seq(Messages) /\ <<>> \in Seq(Messages)
        BY <3>1
      <4> QED BY <4>1
    <3> QED BY <3>1, <3>2
  <2> QED BY <1>3, <2>1, <2>2, <2>3 DEF TypeOK, Steps, SessionRecords
<1>5. (\A k \in Clients : ClientOK(k))' /\ OnePipe'
  BY DEF ClientOK, OnePipe, Connected
<1>6. \A k \in Clients : cstep[k] = "welcome" /\ step'[pipe[k]] = "handshake" => step[pipe[k]] = "handshake"
  <2> SUFFICES ASSUME NEW k \in Clients, cstep[k] = "welcome" PROVE step'[pipe[k]] = "handshake" => step[pipe[k]] = "handshake"
    OBVIOUS
  <2>1. pipe[k] \in Conns
    BY DEF ClientOK, Connected, TypeOK
  <2> QED BY <2>1, <1>1
<1>7. /\ \A t \in Ids : Used(t)' = Used(t)
      /\ (\A t \in Ids : SessionOK(t))' /\ Prefix' /\ OneSession'
      /\ (\A k \in Clients : NotYet(k))' /\ JobCount' /\ Own'
  BY <1>6, KeptSessions
<1>8. \A d \in Conns : Attached(d)' <=> Attached(d)
  BY <1>1 DEF Attached
<1>9. ASSUME NEW n, NEW t \in Ids, Truthful(n, t) PROVE Truthful(n, t)'
  BY <1>9 DEF Truthful, Kept
<1>10. (\A d \in Conns : ConnOK(d))'
  <2> SUFFICES ASSUME NEW d \in Conns PROVE ConnOK(d)'
    OBVIOUS
  <2>0. ClientThere(d)' = ClientThere(d)
    BY DEF ClientThere
  <2>1. CASE d = c
    <3>1. (\A i \in DOMAIN toClient[c] : Truthful(toClient[c][i], session[c]))'
      <4> SUFFICES ASSUME NEW i \in DOMAIN toClient'[c] PROVE Truthful(toClient[c][i], session[c])'
        OBVIOUS
      <4>1. Truthful(toClient'[c][i], session[c])
        BY <1>2, <1>3 DEF ConnOK
      <4>2. sessions'[session[c]].published = sessions[session[c]].published
            /\ sessions'[session[c]].job = sessions[session[c]].job
            /\ sessions'[session[c]].result = sessions[session[c]].result
        BY <1>2 DEF Kept
      <4> QED BY <4>1, <4>2 DEF Truthful
    <3>2. Used(session[c])' /\ sessions'[session[c]].client = sessions[session[c]].client
      BY <1>2, <1>7 DEF Kept
    <3>3. Len(toServer'[c]) <= 1
      BY <1>2 DEF ConnOK
    <3>4. sessions'[session[c]].job = sessions[session[c]].job
      BY <1>2 DEF Kept
    <3> QED BY <2>1, <3>1, <3>2, <3>3, <3>4, <1>2, <1>8 DEF ConnOK
  <2>2. CASE d # c
    <3>1. /\ step'[d] = step[d] /\ session'[d] = session[d] /\ toServer'[d] = toServer[d]
          /\ running'[d] = running[d] /\ toClient'[d] = toClient[d] /\ ConnOK(d)
      BY <2>2, <1>1
    <3>2. CASE Attached(d)
      <4>1. session[d] \in Ids /\ Used(session[d])'
        BY <3>2, <1>7 DEF ConnOK
      <4>2. (\A i \in DOMAIN toClient[d] : Truthful(toClient[d][i], session[d]))'
        BY <3>1, <4>1, <1>9 DEF ConnOK, Truthful, Kept
      <4> QED BY <3>1, <3>2, <4>1, <4>2, <2>0, <1>8 DEF ConnOK, Kept
    <3>3. CASE ~Attached(d)
      <4>1. DOMAIN toClient'[d] = {}
        BY <3>1, <3>3 DEF ConnOK, Attached
      <4> QED BY <3>1, <3>3, <4>1, <1>8 DEF ConnOK, Attached
    <3> QED BY <3>2, <3>3
  <2> QED BY <2>1, <2>2
<1>11. (\A d \in Conns : HelloFrom(d))'
  <2>1. \A d \in Conns : step'[d] = "handshake" => d # c /\ step[d] = "handshake" /\ toServer'[d] = toServer[d]
    BY <1>1
  <2> QED BY <2>1 DEF HelloFrom
<1>12. (\A k \in Clients : Connected(k) => Link(k))'
  <2> SUFFICES ASSUME NEW k \in Clients, Connected(k) PROVE Link(k)'
    BY DEF Connected
  <2>1. pipe[k] \in Conns /\ Link(k)
    BY DEF TypeOK, Connected
  <2>2. Attached(pipe[k]) => session[pipe[k]] \in Ids
    BY <2>1 DEF ConnOK
  <2>3. CASE pipe[k] = c
    <3>1. Answering(c)' => Answering(c)
      BY <1>3 DEF Answering
    <3>2. sessions'[session[c]].client = sessions[session[c]].client /\ sessions'[session[c]].job = sessions[session[c]].job
      BY <1>2 DEF Kept
    <3>3. cstep[k] \in {"welcome", "resuming"} =>
            /\ toClient'[c] # <<>> => Head(toClient'[c]).type = "WELCOME"
            /\ step'[c] \in Busy /\ running'[c] => toClient'[c] # <<>>
      BY <2>1, <2>3, <1>3 DEF Link, Busy
    <3>4. step'[c] # "handshake"
      OBVIOUS
    <3> QED BY <2>1, <2>3, <3>1, <3>2, <3>3, <3>4 DEF Link, First, Busy
  <2>4. CASE pipe[k] # c
    <3>1. UNCHANGED <<step[pipe[k]], running[pipe[k]], toServer[pipe[k]], toClient[pipe[k]]>>
      BY <2>1, <2>4, <1>1
    <3>2. Attached(pipe[k]) => sessions'[session[pipe[k]]].client = sessions[session[pipe[k]]].client
                            /\ sessions'[session[pipe[k]]].job = sessions[session[pipe[k]]].job
      BY <2>2 DEF Kept
    <3> QED BY <2>1, <3>1, <3>2 DEF Link, Attached, First, Answering, Pending
  <2> QED BY <2>3, <2>4
<1>13. Claims'
  <2>1. \A d \in Conns : Claim(d)' => Claim(d) /\ session[d] \in Ids
    <3> SUFFICES ASSUME NEW d \in Conns, Claim(d)' PROVE Claim(d) /\ session[d] \in Ids
      OBVIOUS
    <3>1. Attached(d) /\ session[d] \in Ids
      BY <1>8 DEF Claim, Pending, ConnOK
    <3>2. Pending(d)' => Pending(d)
      BY <1>1 DEF Pending, Attached
    <3> QED BY <3>1, <3>2 DEF Claim, First
  <2> QED BY <2>1 DEF Claims, Kept
<1> QED BY <1>4, <1>5, <1>7, <1>10, <1>11, <1>12, <1>13

\* Send writes the message, or ends the connection.
LEMMA Sends ==
  ASSUME IInv, NEW c \in Conns, NEW m, Send(c, m)
  PROVE  /\ UNCHANGED toServer
         /\ running' = [running EXCEPT ![c] = running'[c]] /\ running'[c] \in BOOLEAN
         /\ running'[c] => running[c]
         /\ \/ UNCHANGED toClient
            \/ toClient' = [toClient EXCEPT ![c] = Append(@, m)] /\ running[c]
         /\ running'[c] => toClient' # toClient
<1> USE DEF IInv
<1>1. CASE running[c] /\ ClientThere(c)
  <2>1. /\ toClient' = [toClient EXCEPT ![c] = Append(@, m)] /\ UNCHANGED <<running, toServer>>
    BY <1>1 DEF Send
  <2>2. toClient'[c] = Append(toClient[c], m) /\ toClient[c] \in Seq(Messages)
    BY <2>1 DEF TypeOK
  <2>3. toClient'[c] # toClient[c]
    BY <2>2
  <2> QED BY <1>1, <2>1, <2>3 DEF TypeOK
<1>2. CASE ~(running[c] /\ ClientThere(c))
  <2>1. /\ running' = [running EXCEPT ![c] = FALSE] /\ UNCHANGED <<toClient, toServer>>
    BY <1>2 DEF Send
  <2> QED BY <1>2, <2>1 DEF TypeOK
<1> QED BY <1>1, <1>2

\* A step that leaves the sessions alone keeps them.
LEMMA SessionKept ==
  ASSUME IInv, UNCHANGED sessions
  PROVE  sessions' \in [Ids -> SessionRecords] /\ \A t \in Ids : Kept(t)
BY DEF IInv, TypeOK, SessionRecords, Kept

\* The answers to the handshake and to a SCAN.
LEMMA Answers ==
  ASSUME IInv, NEW c \in Conns, Welcome(c) \/ RefuseScan(c) \/ Ack(c)
  PROVE  IInv'
<1> USE DEF IInv
<1> DEFINE m == IF step[c] = "welcome" THEN Msg("WELCOME", session[c], 0, None)
                ELSE IF step[c] = "scan" THEN Msg("ERROR", NoId, 0, None)
                ELSE Msg("ACK", sessions[session[c]].job, 0, None)
           n == IF step[c] = "welcome" /\ ~ClientThere(c) THEN "over" ELSE "serving"
<1>1. /\ step[c] \in {"welcome", "scan", "ack"} /\ Send(c, m)
      /\ step' = [step EXCEPT ![c] = n]
      /\ UNCHANGED <<session, clientVars, sessions, nextJobId, restarts, outcome>>
  BY DEF Welcome, RefuseScan, Ack, Goto
<1>2. /\ session[c] \in Ids /\ Attached(c) /\ ConnOK(c) /\ session[c] \in Nat /\ sessions[session[c]].job \in Nat
      /\ toServer[c] \in {toServer[c], <<>>}
  <2>1. Attached(c) /\ ConnOK(c) /\ session[c] \in Ids
    BY <1>1 DEF ConnOK, Attached
  <2>2. Cardinality(Clients) \in Nat
    BY FS_CardinalityType, ScanCommandAssumption
  <2>3. sessions[session[c]].job \in Ids \cup {NoId}
    BY <2>1 DEF TypeOK
  <2> QED BY <2>1, <2>2, <2>3 DEF Ids, NoId
<1>3. m \in Messages /\ m.type = (IF step[c] = "welcome" THEN "WELCOME" ELSE IF step[c] = "scan" THEN "ERROR" ELSE "ACK")
  BY <1>1, <1>2 DEF Msg, Messages, NoId
<1>4. Truthful(m, session[c])
  BY <1>1, <1>2 DEF Msg, Truthful, ConnOK
<1> HIDE DEF m
<1>5. /\ UNCHANGED toServer
      /\ running' = [running EXCEPT ![c] = running'[c]] /\ running'[c] \in BOOLEAN
      /\ running'[c] => running[c]
      /\ \/ UNCHANGED toClient
         \/ toClient' = [toClient EXCEPT ![c] = Append(@, m)] /\ running[c]
      /\ running'[c] => toClient' # toClient
  BY <1>1, Sends
<1>6. /\ step'[c] = n /\ step' = [step EXCEPT ![c] = step'[c]]
      /\ toServer' = [toServer EXCEPT ![c] = toServer'[c]] /\ toServer'[c] = toServer[c]
  BY <1>1, <1>5 DEF TypeOK
<1>7. Pending(c)' => Pending(c)
  BY <1>1, <1>2, <1>6 DEF Pending
<1>8. step'[c] = "serving" => sessions[session[c]].client # None
  BY <1>1, <1>2, <1>6 DEF ConnOK
<1>9. sessions' \in [Ids -> SessionRecords] /\ \A t \in Ids : Kept(t)
  BY <1>1, SessionKept
<1> HIDE DEF IInv, n
<1>10. step'[c] \in {"serving", "over"}
  BY <1>6 DEF n
<1> QED BY <1>1, <1>2, <1>3, <1>4, <1>5, <1>6, <1>7, <1>8, <1>9, <1>10, Moves DEF Busy

\* The event thread writes the next event of the session's job.
LEMMA SendEventStep ==
  ASSUME IInv, NEW c \in Conns, SendEvent(c)
  PROVE  IInv'
<1> USE ScanCommandAssumption DEF IInv
<1> DEFINE s == sessions[session[c]]
           n == s.sent + 1
           m == Msg("EVENT", s.job, n, State(s, n))
<1>1. /\ step[c] \in {"serving", "scan", "ack"} /\ running[c] /\ n <= s.published
      /\ sessions' = [sessions EXCEPT ![session[c]] = [s EXCEPT !.sent = n]]
      /\ Send(c, m)
      /\ UNCHANGED <<step, session, clientVars, nextJobId, restarts, outcome>>
  BY DEF SendEvent, SessionUpdate
<1>2. /\ session[c] \in Ids /\ Attached(c) /\ ConnOK(c) /\ s \in SessionRecords
      /\ SessionOK(session[c]) /\ s.client # None
  BY <1>1 DEF ConnOK, Attached, TypeOK, SessionRecords
<1>3. /\ n \in 0..(MaxProgress + 1) /\ n \in Nat /\ s.job # NoId /\ s.job \in Nat
      /\ s.result \in {None, "completed", "failed"}
  BY <1>1, <1>2, FS_CardinalityType DEF SessionRecords, SessionOK, Ids, NoId
<1>4. /\ State(s, n) \in {"running", "completed", "failed"}
      /\ State(s, n) # "running" => State(s, n) = s.result /\ s.result # None
  BY <1>3 DEF State
<1>5. m \in Messages /\ m.type = "EVENT"
  BY <1>3, <1>4 DEF Msg, Messages
<1>6. Truthful(m, session[c])
  BY <1>1, <1>3, <1>4 DEF Msg, Truthful
<1>7. sessions' \in [Ids -> SessionRecords]
  <2>1. [s EXCEPT !.sent = n] \in SessionRecords
    BY <1>2, <1>3 DEF SessionRecords
  <2> QED BY <1>1, <2>1 DEF TypeOK, SessionRecords
<1>8. \A t \in Ids : Kept(t)
  <2> SUFFICES ASSUME NEW t \in Ids PROVE Kept(t)
    OBVIOUS
  <2>1. sessions \in [Ids -> SessionRecords]
    BY DEF TypeOK, SessionRecords
  <2> HIDE DEF IInv
  <2>2. CASE t = session[c]
    <3>1. sessions'[t] = [s EXCEPT !.sent = n]
      BY <2>1, <2>2, <1>1
    <3> QED BY <2>2, <3>1, <1>2 DEF Kept, SessionRecords
  <2>3. CASE t # session[c]
    BY <2>1, <2>3, <1>1 DEF Kept
  <2> QED BY <2>2, <2>3
<1> HIDE DEF m
<1>9. /\ UNCHANGED toServer
      /\ running' = [running EXCEPT ![c] = running'[c]] /\ running'[c] \in BOOLEAN
      /\ running'[c] => running[c]
      /\ \/ UNCHANGED toClient
         \/ toClient' = [toClient EXCEPT ![c] = Append(@, m)] /\ running[c]
  BY <1>1, Sends
<1>10. /\ step'[c] = step[c] /\ step' = [step EXCEPT ![c] = step'[c]]
       /\ toServer' = [toServer EXCEPT ![c] = toServer'[c]] /\ toServer'[c] = toServer[c]
       /\ toServer'[c] \in {toServer[c], <<>>}
  BY <1>1, <1>9 DEF TypeOK
<1>11. (Pending(c)' => Pending(c)) /\ (step[c] = "scan" => toServer[c] = <<>>)
  BY <1>2, <1>10 DEF Pending, Attached, ConnOK
<1>12. step[c] \in Busy /\ running[c] /\ "EVENT" # "ACK"
  BY <1>1 DEF Busy
<1> HIDE DEF IInv, s, n
<1>13. /\ UNCHANGED <<session, clientVars, nextJobId, restarts, outcome>>
       /\ step'[c] \in {"serving", "scan", "ack", "mark", "over"}
       /\ step'[c] = "ack" => step[c] = "ack"
       /\ sessions[session[c]].client # None
  BY <1>1, <1>2, <1>10 DEF s
<1> QED BY <1>2, <1>5, <1>6, <1>7, <1>8, <1>9, <1>10, <1>11, <1>12, <1>13, Moves

\* Taking the only message empties the queue.
LEMMA LastTaken ==
  ASSUME NEW S, NEW q \in Seq(S), q # <<>>, Len(q) <= 1
  PROVE  Tail(q) = <<>>
<1>1. Len(q) \in Nat \ {0}
  BY EmptySeq
<1>2. Len(q) = 1
  BY <1>1
<1>3. Tail(q) \in Seq(S) /\ Len(Tail(q)) = 0
  BY <1>2
<1> QED BY <1>3, EmptySeq

\* The steps of Run that write nothing.
LEMMA RunSteps ==
  ASSUME IInv, NEW c \in Conns, ReadScan(c) \/ LeaveLoop(c) \/ Mark(c)
  PROVE  IInv'
<1> USE DEF IInv
<1>1. /\ step[c] \in {"serving", "mark"} /\ Attached(c) /\ ConnOK(c) /\ session[c] \in Ids
      /\ sessions[session[c]].client # None
      /\ toServer[c] \in Seq(Messages) /\ Len(toServer[c]) <= 1
  BY DEF ReadScan, LeaveLoop, Mark, ConnOK, Attached, TypeOK
<1>2. UNCHANGED <<session, toClient, clientVars, nextJobId, restarts, outcome>>
  BY DEF ReadScan, LeaveLoop, Mark, pipeVars
<1>3. /\ step' = [step EXCEPT ![c] = step'[c]]
      /\ step'[c] = IF ReadScan(c) THEN "scan" ELSE IF LeaveLoop(c) THEN "mark" ELSE "over"
  BY DEF ReadScan, LeaveLoop, Mark, Goto, TypeOK
<1>4. /\ running' = [running EXCEPT ![c] = running'[c]] /\ running'[c] \in BOOLEAN
      /\ running'[c] => running[c]
  BY DEF ReadScan, LeaveLoop, Mark, TypeOK
<1>5. /\ toServer' = [toServer EXCEPT ![c] = toServer'[c]]
      /\ toServer'[c] = IF ReadScan(c) THEN <<>> ELSE toServer[c]
      /\ ReadScan(c) => toServer[c] # <<>>
  <2>1. CASE ReadScan(c)
    <3>1. toServer[c] # <<>> /\ toServer' = [toServer EXCEPT ![c] = Tail(@)]
      BY <2>1 DEF ReadScan
    <3>3. Tail(toServer[c]) = <<>>
      BY <1>1, <3>1, LastTaken
    <3> QED BY <2>1, <3>1, <3>3 DEF TypeOK
  <2>2. CASE ~ReadScan(c)
    BY <2>2 DEF ReadScan, LeaveLoop, Mark, pipeVars, TypeOK
  <2> QED BY <2>1, <2>2
<1>6. sessions' \in [Ids -> SessionRecords] /\ \A t \in Ids : Kept(t)
  <2>1. CASE ReadScan(c) \/ LeaveLoop(c)
    BY <2>1, SessionKept DEF ReadScan, LeaveLoop
  <2>2. CASE Mark(c)
    <3> DEFINE s == sessions[session[c]]
               r == [s EXCEPT !.connected = @ /\ ~s.inTable]
    <3>1. sessions' = [sessions EXCEPT ![session[c]] = r]
      BY <2>2 DEF Mark, SessionUpdate
    <3>2. s \in SessionRecords
      BY <1>1 DEF TypeOK, SessionRecords
    <3>3. r \in SessionRecords
      BY <3>2 DEF SessionRecords
    <3>4. r.client = s.client /\ r.job = s.job /\ r.published = s.published /\ r.result = s.result
      BY <3>2 DEF SessionRecords
    <3> HIDE DEF r
    <3> QED BY <3>1, <3>3, <3>4, <1>1 DEF Kept, TypeOK, SessionRecords
  <2> QED BY <2>1, <2>2
<1>7. Pending(c)' => Pending(c)
  BY <1>1, <1>3, <1>5 DEF Pending
<1>8. ~(step'[c] \in Busy /\ running'[c]) \/ step[c] \in Busy
  BY <1>1, <1>3 DEF Busy, Mark, ReadScan, LeaveLoop
<1> HIDE DEF IInv
<1>9. /\ step'[c] \in {"serving", "scan", "ack", "mark", "over"} /\ step'[c] # "ack"
      /\ step'[c] = "scan" => toServer'[c] = <<>>
      /\ toServer'[c] \in {toServer[c], <<>>}
  BY <1>3, <1>5
<1> QED BY <1>1, <1>2, <1>3, <1>4, <1>5, <1>6, <1>7, <1>8, <1>9, Moves

\* RESUME: the session goes on where the client left off.
LEMMA ResumeStep ==
  ASSUME IInv, NEW c \in Conns, Resume(c)
  PROVE  IInv'
<1> USE ScanCommandAssumption DEF IInv, clientVars
<1> DEFINE m == Head(toServer[c])
<1>1. PICK s \in Ids : s = m.id
  BY DEF Resume, ConnOK
<1> DEFINE r == [sessions[s] EXCEPT !.connected = TRUE, !.sent = IF sessions[s].published = 0 THEN 0 ELSE m.seq]
<1>2. /\ step[c] = "handshake" /\ m.type = "RESUME"
      /\ sessions[s].inTable /\ ~sessions[s].connected
      /\ sessions' = [sessions EXCEPT ![s] = r] /\ Attach(c, s)
  BY <1>1 DEF Resume, Resumable, SessionUpdate
<1>3. /\ step'[c] = "welcome" /\ session'[c] = s /\ running'[c] = running[c]
      /\ toServer'[c] = <<>> /\ toClient'[c] = <<>>
      /\ \A d \in Conns \ {c} : step'[d] = step[d] /\ session'[d] = session[d] /\ toServer'[d] = toServer[d]
      /\ UNCHANGED <<running, toClient, clientVars, nextJobId, restarts, outcome>>
      /\ step' \in [Conns -> Steps] /\ session' \in [Conns -> Ids \cup {NoId}]
      /\ toServer' \in [Conns -> Seq(Messages)]
      /\ c # None
  BY <1>2, AttachFacts
<1>4. Used(s) /\ sessions[s].client # None /\ sessions[s] \in SessionRecords
  <2>1. Used(s)
    BY <1>2 DEF Used, NoSession
  <2> QED BY <2>1, <1>2 DEF SessionOK, TypeOK, SessionRecords
<1>5. /\ m.seq \in 0..(MaxProgress + 1)
  <2>1. m \in Messages /\ m.seq <= MaxProgress + 1
    BY <1>2 DEF ConnOK, TypeOK
  <2> QED BY <2>1 DEF Messages
<1>6. r \in SessionRecords /\ r.client = sessions[s].client /\ r.job = sessions[s].job
      /\ r.published = sessions[s].published /\ r.result = sessions[s].result
  BY <1>4, <1>5 DEF SessionRecords
<1> HIDE DEF r, m
<1>7. /\ sessions' \in [Ids -> SessionRecords] /\ \A t \in Ids : Kept(t)
  BY <1>2, <1>4, <1>6 DEF Kept, TypeOK, SessionRecords
<1>8. \A k \in Clients : pipe[k] = c => cstep[k] = "resuming" /\ sessionId[k] = s
  <2> SUFFICES ASSUME NEW k \in Clients, pipe[k] = c PROVE cstep[k] = "resuming" /\ sessionId[k] = s
    OBVIOUS
  <2>1. Link(k)
    BY <1>3 DEF Connected
  <2> QED BY <2>1, <1>1, <1>2 DEF Link, m
<1>9. TypeOK'
  BY <1>3, <1>7 DEF TypeOK, Steps, SessionRecords
<1>10. (\A k \in Clients : ClientOK(k))' /\ OnePipe'
  BY <1>3 DEF ClientOK, OnePipe, Connected
<1>11. \A k \in Clients : cstep[k] = "welcome" /\ step'[pipe[k]] = "handshake" => step[pipe[k]] = "handshake"
  <2> SUFFICES ASSUME NEW k \in Clients, cstep[k] = "welcome" PROVE step'[pipe[k]] = "handshake" => step[pipe[k]] = "handshake"
    OBVIOUS
  <2>1. pipe[k] \in Conns
    BY DEF ClientOK, Connected, TypeOK
  <2> QED BY <2>1, <1>3
<1>12. /\ \A t \in Ids : Used(t)' = Used(t)
       /\ (\A t \in Ids : SessionOK(t))' /\ Prefix' /\ OneSession'
       /\ (\A k \in Clients : NotYet(k))' /\ JobCount' /\ Own'
  BY <1>3, <1>7, <1>11, KeptSessions
<1>13. (\A d \in Conns : ConnOK(d))'
  <2> SUFFICES ASSUME NEW d \in Conns PROVE ConnOK(d)'
    OBVIOUS
  <2>0. ClientThere(d)' = ClientThere(d)
    BY <1>3 DEF ClientThere
  <2>1. CASE d = c
    <3>1. Len(toServer'[c]) <= 1 /\ DOMAIN toClient'[c] = {}
      BY <1>3
    <3>2. Used(session[c])' /\ sessions'[session'[c]].client # None
      BY <1>3, <1>4, <1>7, <1>12 DEF Kept
    <3> QED BY <2>1, <3>1, <3>2, <1>3 DEF ConnOK
  <2>2. CASE d # c
    <3>1. /\ step'[d] = step[d] /\ session'[d] = session[d] /\ toServer'[d] = toServer[d]
          /\ running'[d] = running[d] /\ toClient'[d] = toClient[d] /\ ConnOK(d)
      BY <2>2, <1>3
    <3>2. CASE Attached(d)
      <4>1. session[d] \in Ids /\ Used(session[d])' /\ Attached(d)'
        BY <3>1, <3>2, <1>12 DEF ConnOK, Attached
      <4>2. (\A i \in DOMAIN toClient[d] : Truthful(toClient[d][i], session[d]))'
        BY <3>1, <4>1, <1>7 DEF ConnOK, Truthful, Kept
      <4> QED BY <3>1, <3>2, <4>1, <4>2, <2>0, <1>7 DEF ConnOK, Kept
    <3>3. CASE ~Attached(d)
      <4>1. DOMAIN toClient'[d] = {} /\ ~Attached(d)'
        BY <3>1, <3>3 DEF ConnOK, Attached
      <4> QED BY <3>1, <3>3, <4>1 DEF ConnOK, Attached
    <3> QED BY <3>2, <3>3
  <2> QED BY <2>1, <2>2
<1>14. (\A d \in Conns : HelloFrom(d))'
  <2>1. \A d \in Conns : step'[d] = "handshake" => d # c /\ step[d] = "handshake" /\ toServer'[d] = toServer[d]
    BY <1>3
  <2>2. \A d \in Conns : HelloFrom(d)
    OBVIOUS
  <2> HIDE DEF IInv
  <2> QED BY <2>1, <2>2, <1>3 DEF HelloFrom
<1>15. (\A k \in Clients : Connected(k) => Link(k))'
  <2> SUFFICES ASSUME NEW k \in Clients, Connected(k) PROVE Link(k)'
    BY <1>3 DEF Connected
  <2>1. CASE pipe[k] = c
    <3>1. ~Answering(c)'
      BY <1>3 DEF Answering, Pending
    <3> QED BY <2>1, <3>1, <1>3, <1>8 DEF Link, First
  <2>2. CASE pipe[k] # c
    <3>1. pipe[k] \in Conns /\ Link(k)
      BY DEF TypeOK, Connected
    <3>2. Attached(pipe[k]) => session[pipe[k]] \in Ids
      BY <3>1 DEF ConnOK
    <3>3. UNCHANGED <<step[pipe[k]], session[pipe[k]], running[pipe[k]], toServer[pipe[k]], toClient[pipe[k]]>>
      BY <3>1, <2>2, <1>3
    <3>4. Attached(pipe[k]) => sessions'[session[pipe[k]]].client = sessions[session[pipe[k]]].client
                            /\ sessions'[session[pipe[k]]].job = sessions[session[pipe[k]]].job
      BY <3>2, <1>7 DEF Kept
    <3> QED BY <3>1, <3>3, <3>4, <1>3 DEF Link, Attached, First, Answering, Pending
  <2> QED BY <2>1, <2>2
<1>16. Claims'
  <2>1. \A d \in Conns : Claim(d)' => d # c /\ Claim(d) /\ session'[d] = session[d] /\ session[d] \in Ids
    <3> SUFFICES ASSUME NEW d \in Conns, Claim(d)'
                 PROVE  d # c /\ Claim(d) /\ session'[d] = session[d] /\ session[d] \in Ids
      OBVIOUS
    <3>1. d # c
      BY <1>3, <1>8 DEF Claim, Pending, First
    <3>2. Claim(d) /\ session'[d] = session[d]
      BY <3>1, <1>3 DEF Claim, Pending, Attached, First
    <3> QED BY <3>1, <3>2 DEF Claim, Pending, ConnOK
  <2> QED BY <2>1, <1>7 DEF Claims, Kept
<1> QED BY <1>9, <1>10, <1>12, <1>13, <1>14, <1>15, <1>16

\* JobManager::Submit numbers the job, and the session reports it from now on.
LEMMA SubmitStep ==
  ASSUME IInv, NEW c \in Conns, Submit(c)
  PROVE  IInv'
<1> USE ScanCommandAssumption DEF IInv, clientVars, pipeVars
<1>0. /\ step[c] = "scan" /\ Attached(c) /\ ConnOK(c) /\ session[c] \in Ids /\ c # None
      /\ toServer[c] = <<>> /\ Pending(c) /\ Claim(c)
  BY DEF Submit, ConnOK, Attached, Pending, Claim
<1>1. PICK s \in Ids : s = session[c]
  BY <1>0
<1> DEFINE r == [sessions[s] EXCEPT !.job = nextJobId]
<1>2. /\ sessions' = [sessions EXCEPT ![s] = r] /\ nextJobId' = nextJobId + 1
      /\ step' = [step EXCEPT ![c] = "ack"]
      /\ UNCHANGED <<running, session, cstep, pipe, sessionId, jobId, lastEventSeq, exitCode,
                     toServer, toClient, restarts, outcome>>
  BY <1>1 DEF Submit, SessionUpdate, Goto
<1>3. /\ step'[c] = "ack" /\ \A d \in Conns \ {c} : step'[d] = step[d]
      /\ step' \in [Conns -> Steps]
  BY <1>2 DEF TypeOK, Steps
<1>4. sessions[s].job = NoId /\ sessions[s] \in SessionRecords /\ Used(s) /\ sessions[s].client # None
      /\ sessions[s].published = 0 /\ sessions[s].result = None
  BY <1>0, <1>1 DEF Claims, TypeOK, SessionRecords, ConnOK, SessionOK
<1>5. /\ nextJobId \in Ids /\ nextJobId # NoId
      /\ Cardinality(WithJob \cup {s}) = Cardinality(WithJob) + 1
  <2>1. IsFiniteSet(Ids) /\ Cardinality(Ids) = Cardinality(Clients) /\ Cardinality(Clients) \in Nat
    BY FS_Interval, FS_CardinalityType DEF Ids
  <2>2. s \notin WithJob /\ WithJob \cup {s} \subseteq Ids /\ WithJob \subseteq Ids
    BY <1>4 DEF WithJob
  <2>3. Cardinality(WithJob \cup {s}) = Cardinality(WithJob) + 1
    BY <2>1, <2>2, FS_AddElement, FS_Subset
  <2>4. Cardinality(WithJob \cup {s}) <= Cardinality(Ids) /\ Cardinality(WithJob) \in Nat
    BY <2>1, <2>2, FS_Subset, FS_CardinalityType
  <2> QED BY <2>1, <2>3, <2>4 DEF JobCount, Ids, NoId
<1>6. r \in SessionRecords /\ r.client = sessions[s].client /\ r.job = nextJobId
      /\ r.published = 0 /\ r.result = None
  BY <1>4, <1>5 DEF SessionRecords
<1> HIDE DEF r
<1>7. /\ sessions'[s] = r /\ \A t \in Ids \ {s} : sessions'[t] = sessions[t]
      /\ sessions' \in [Ids -> SessionRecords]
      /\ \A t \in Ids : sessions'[t].client = sessions[t].client
      /\ \A t \in Ids : Used(t)' = Used(t)
  <2>1. /\ sessions'[s] = r /\ \A t \in Ids \ {s} : sessions'[t] = sessions[t]
        /\ sessions' \in [Ids -> SessionRecords]
    BY <1>2, <1>6 DEF TypeOK, SessionRecords
  <2>2. NoSession.client = None
    BY DEF NoSession
  <2>3. r # NoSession
    BY <2>2, <1>4, <1>6
  <2>4. ASSUME NEW t \in Ids PROVE Used(t)' = Used(t)
    <3>1. CASE t = s
      BY <3>1, <2>1, <2>3, <1>4 DEF Used, NoSession
    <3>2. CASE t # s
      BY <3>2, <2>1 DEF Used, NoSession
    <3> QED BY <3>1, <3>2
  <2> QED BY <2>1, <2>4, <1>6
<1>8. TypeOK'
  <2>1. nextJobId' \in Nat
    BY <1>2, <1>5 DEF TypeOK
  <2> QED BY <2>1, <1>2, <1>3, <1>7 DEF TypeOK, Steps, SessionRecords
<1>9. (\A k \in Clients : ClientOK(k))' /\ OnePipe'
  BY <1>2 DEF ClientOK, OnePipe, Connected
<1>11. ASSUME NEW d \in Conns, Attached(d)
       PROVE  (\A i \in DOMAIN toClient[d] : Truthful(toClient[d][i], session[d]))'
  <2>1. session[d] \in Ids /\ \A i \in DOMAIN toClient[d] : Truthful(toClient[d][i], session[d])
    BY <1>11 DEF ConnOK
  <2>2. CASE session[d] = s
    BY <2>1, <2>2, <1>2, <1>4 DEF Truthful
  <2>3. CASE session[d] # s
    BY <2>1, <2>3, <1>2, <1>7 DEF Truthful
  <2> QED BY <2>2, <2>3
<1>12. (\A d \in Conns : ConnOK(d))'
  <2> SUFFICES ASSUME NEW d \in Conns PROVE ConnOK(d)'
    OBVIOUS
  <2>0. ClientThere(d)' = ClientThere(d)
    BY <1>2 DEF ClientThere
  <2>1. CASE d = c
    <3>1. Attached(c)' /\ Used(session[c])' /\ sessions'[session[c]].job # NoId /\ sessions'[session[c]].client # None
      BY <1>1, <1>2, <1>3, <1>4, <1>5, <1>6, <1>7 DEF Attached
    <3> QED BY <2>1, <3>1, <1>0, <1>2, <1>3, <1>11 DEF ConnOK
  <2>2. CASE d # c
    <3>1. CASE Attached(d)
      <4>1. session[d] \in Ids /\ Used(session[d])' /\ Attached(d)' /\ ConnOK(d)
        BY <2>2, <3>1, <1>2, <1>3, <1>7 DEF ConnOK, Attached
      <4>2. step[d] = "ack" => sessions'[session[d]].job # NoId
        BY <2>2, <3>1, <4>1, <1>4, <1>7 DEF ConnOK
      <4> QED BY <2>2, <3>1, <4>1, <4>2, <2>0, <1>2, <1>3, <1>7, <1>11 DEF ConnOK
    <3>2. CASE ~Attached(d)
      <4>1. DOMAIN toClient'[d] = {} /\ ~Attached(d)' /\ ConnOK(d)
        BY <2>2, <3>2, <1>2, <1>3 DEF ConnOK, Attached
      <4> QED BY <2>2, <3>2, <4>1, <1>2, <1>3 DEF ConnOK, Attached
    <3> QED BY <3>1, <3>2
  <2> QED BY <2>1, <2>2
<1>13. (\A d \in Conns : HelloFrom(d))'
  BY <1>2, <1>3 DEF HelloFrom
<1>14. (\A k \in Clients : Connected(k) => Link(k))'
  <2> SUFFICES ASSUME NEW k \in Clients, Connected(k) PROVE Link(k)'
    BY <1>2 DEF Connected
  <2>1. pipe[k] \in Conns /\ Link(k)
    BY DEF TypeOK, Connected
  <2>2. /\ Attached(pipe[k])' <=> Attached(pipe[k])
        /\ Answering(pipe[k])' <=> Answering(pipe[k])
        /\ step'[pipe[k]] = "handshake" <=> step[pipe[k]] = "handshake"
        /\ step'[pipe[k]] \in Busy <=> step[pipe[k]] \in Busy
    BY <2>1, <1>0, <1>2, <1>3 DEF Attached, Answering, Pending, Busy
  <2>3. Attached(pipe[k]) => session[pipe[k]] \in Ids
    BY <2>1 DEF ConnOK
  <2>4. Attached(pipe[k]) /\ cstep[k] = "read" /\ Answering(pipe[k]) => jobId[k] \in {NoId, sessions'[session[pipe[k]]].job}
    BY <2>1, <2>3, <1>4, <1>7 DEF Link
  <2> QED BY <2>1, <2>2, <2>3, <2>4, <1>2, <1>7 DEF Link, First, Busy
<1>15. (\A t \in Ids : SessionOK(t))'
  <2> SUFFICES ASSUME NEW t \in Ids PROVE SessionOK(t)'
    OBVIOUS
  <2>1. CASE t = s
    BY <2>1, <1>4, <1>5, <1>6, <1>7 DEF SessionOK
  <2>2. CASE t # s
    BY <2>2, <1>2, <1>7 DEF SessionOK
  <2> QED BY <2>1, <2>2
<1>16. InUse' = InUse
  BY <1>7 DEF InUse
<1>17. Prefix' /\ OneSession' /\ (\A k \in Clients : NotYet(k))'
  <2>1. Prefix' /\ OneSession'
    BY <1>16, <1>7 DEF Prefix, OneSession
  <2>2. \A k \in Clients : cstep[k] = "welcome" => pipe[k] \in Conns
    BY DEF ClientOK, Connected, TypeOK
  <2>3. (\A k \in Clients : NotYet(k))'
    BY <2>2, <1>0, <1>2, <1>3, <1>7 DEF NotYet
  <2> QED BY <2>1, <2>3
<1>18. JobCount'
  <2>1. WithJob' = WithJob \cup {s}
    BY <1>5, <1>6, <1>7 DEF WithJob
  <2> QED BY <2>1, <1>2, <1>5 DEF JobCount
<1>19. Claims'
  <2>1. ~Claim(c)'
    <3>1. ~Pending(c)'
      BY <1>0, <1>2, <1>3 DEF Pending
    <3>2. \A k \in Clients : pipe[k] = c => ~First(k)
      BY <1>0 DEF Link, Connected, Answering
    <3> QED BY <3>1, <3>2, <1>2 DEF Claim, First
  <2>2. \A d \in Conns : Claim(d)' => d # c /\ Claim(d) /\ session[d] \in Ids /\ session[d] # s
    <3> SUFFICES ASSUME NEW d \in Conns, Claim(d)'
                 PROVE  d # c /\ Claim(d) /\ session[d] \in Ids /\ session[d] # s
      OBVIOUS
    <3>1. d # c
      BY <2>1
    <3>2. Claim(d)
      BY <3>1, <1>2, <1>3 DEF Claim, Pending, Attached, First
    <3>3. session[d] \in Ids
      BY <3>2 DEF Claim, Pending, ConnOK
    <3> QED BY <3>1, <3>2, <3>3, <1>0, <1>1 DEF Claims
  <2> QED BY <2>2, <1>2, <1>7 DEF Claims
<1>20. Own'
  BY <1>2, <1>4, <1>6, <1>7 DEF Own, Alone
<1> QED BY <1>8, <1>9, <1>12, <1>13, <1>14, <1>15, <1>17, <1>18, <1>19, <1>20

\* Progress, the end of a job, and the expiry of a session.
LEMMA SessionSteps ==
  ASSUME IInv, NEW s \in Ids, Progress(s) \/ JobEnds(s) \/ Expire(s)
  PROVE  IInv'
<1> USE ScanCommandAssumption DEF IInv, clientVars, pipeVars, connVars
<1>0. sessions[s] \in SessionRecords /\ SessionOK(s) /\ sessions \in [Ids -> SessionRecords]
  BY DEF TypeOK, SessionRecords
<1>1. UNCHANGED <<clientVars, pipeVars, connVars, nextJobId, restarts>>
  BY DEF Progress, JobEnds, Expire
<1>2. /\ \A t \in Ids \ {s} : sessions'[t] = sessions[t]
      /\ sessions'[s] \in SessionRecords /\ sessions' \in [Ids -> SessionRecords]
      /\ sessions'[s].client = sessions[s].client /\ sessions'[s].job = sessions[s].job
      /\ sessions'[s].published >= sessions[s].published
      /\ sessions[s].result = None \/ sessions'[s].result = sessions[s].result
      /\ sessions'[s].result = None => sessions'[s].published <= MaxProgress
      /\ sessions[s].job = NoId => sessions'[s].published = sessions[s].published /\ sessions'[s].result = sessions[s].result
      /\ sessions[s].client # None \/ sessions'[s] = sessions[s]
         \/ (Used(s) /\ sessions'[s].inTable = sessions[s].inTable /\ sessions'[s].connected = sessions[s].connected
             /\ sessions'[s] # NoSession)
      /\ \/ outcome' = outcome /\ sessions'[s].result = sessions[s].result
         \/ /\ sessions[s].result = None
            /\ outcome' = [k \in Clients |-> IF k = sessions[s].client THEN sessions'[s].result ELSE outcome[k]]
  <2> DEFINE r == sessions[s]
  <2>1. CASE Progress(s)
    <3>1. /\ r.job # NoId /\ r.result = None /\ r.published < MaxProgress
          /\ sessions' = [sessions EXCEPT ![s] = [r EXCEPT !.published = @ + 1]] /\ outcome' = outcome
      BY <2>1 DEF Progress, Active, SessionUpdate
    <3>2. /\ [r EXCEPT !.published = @ + 1] \in SessionRecords
          /\ sessions'[s] = [r EXCEPT !.published = @ + 1]
      <4>1. r.published + 1 \in 0..(MaxProgress + 1)
        BY <1>0, <3>1 DEF SessionRecords
      <4>2. [r EXCEPT !.published = @ + 1] \in SessionRecords
        BY <1>0, <4>1 DEF SessionRecords
      <4> QED BY <1>0, <3>1, <4>2
    <3>3. Used(s) /\ sessions'[s] # NoSession
      <4>1. NoSession.job = NoId
        BY DEF NoSession
      <4>2. sessions'[s].job = r.job
        BY <1>0, <3>2 DEF SessionRecords
      <4> QED BY <3>1, <4>1, <4>2 DEF Used
    <3>4. /\ \A t \in Ids \ {s} : sessions'[t] = sessions[t]
          /\ sessions' \in [Ids -> SessionRecords]
      BY <1>0, <3>1, <3>2
    <3>5. r.published \in Nat /\ sessions'[s].published = r.published + 1
          /\ sessions'[s].client = r.client /\ sessions'[s].job = r.job
          /\ sessions'[s].inTable = r.inTable /\ sessions'[s].connected = r.connected
      BY <1>0, <3>2 DEF SessionRecords
    <3>6. sessions'[s].result = r.result
      BY <1>0, <3>2 DEF SessionRecords
    <3> QED BY <3>1, <3>2, <3>3, <3>4, <3>5, <3>6
  <2>2. CASE JobEnds(s)
    <3>1. PICK q \in {"completed", "failed"} :
             /\ r.job # NoId /\ r.result = None
             /\ sessions' = [sessions EXCEPT ![s] = [r EXCEPT !.result = q, !.published = @ + 1]]
             /\ outcome' = [k \in Clients |-> IF k = r.client THEN q ELSE outcome[k]]
      BY <2>2 DEF JobEnds, Active, SessionUpdate
    <3>2. /\ [r EXCEPT !.result = q, !.published = @ + 1] \in SessionRecords
          /\ sessions'[s] = [r EXCEPT !.result = q, !.published = @ + 1]
      <4>1. r.published + 1 \in 0..(MaxProgress + 1)
        BY <1>0, <3>1 DEF SessionRecords, SessionOK
      <4>2. [r EXCEPT !.result = q, !.published = @ + 1] \in SessionRecords
        BY <1>0, <4>1 DEF SessionRecords
      <4> QED BY <1>0, <3>1, <4>2
    <3>3. Used(s) /\ sessions'[s] # NoSession
      <4>1. NoSession.job = NoId
        BY DEF NoSession
      <4>2. sessions'[s].job = r.job
        BY <1>0, <3>2 DEF SessionRecords
      <4> QED BY <3>1, <4>1, <4>2 DEF Used
    <3>4. /\ \A t \in Ids \ {s} : sessions'[t] = sessions[t]
          /\ sessions' \in [Ids -> SessionRecords]
      BY <1>0, <3>1, <3>2
    <3>5. r.published \in Nat /\ sessions'[s].published = r.published + 1
          /\ sessions'[s].client = r.client /\ sessions'[s].job = r.job
          /\ sessions'[s].inTable = r.inTable /\ sessions'[s].connected = r.connected
      BY <1>0, <3>2 DEF SessionRecords
    <3>6. sessions'[s].result = q
      BY <1>0, <3>2 DEF SessionRecords
    <3> QED BY <3>1, <3>2, <3>3, <3>4, <3>5, <3>6
  <2>3. CASE Expire(s)
    <3>1. /\ r.inTable /\ ~r.connected /\ outcome' = outcome
          /\ sessions' = [sessions EXCEPT ![s] = [r EXCEPT !.inTable = FALSE]]
      BY <2>3 DEF Expire, SessionUpdate
    <3>2. /\ [r EXCEPT !.inTable = FALSE] \in SessionRecords
          /\ sessions'[s] = [r EXCEPT !.inTable = FALSE]
      BY <1>0, <3>1 DEF SessionRecords, TypeOK
    <3>3. Used(s) /\ r.client # None
      BY <1>0, <3>1 DEF Used, NoSession, SessionOK
    <3> QED BY <1>0, <3>1, <3>2, <3>3 DEF TypeOK, SessionRecords, SessionOK
  <2> QED BY <2>1, <2>2, <2>3
<1>3. UNCHANGED <<cstep, pipe, sessionId, jobId, lastEventSeq, exitCode, step, running, session,
                  toServer, toClient, nextJobId, restarts>>
  BY <1>1
<1>4. ASSUME NEW t \in Ids PROVE Used(t)' = Used(t) /\ sessions'[t].client = sessions[t].client /\ sessions'[t].job = sessions[t].job
  <2>1. NoSession.client = None
    BY DEF NoSession
  <2>2. CASE t # s
    BY <2>2, <1>2 DEF Used, NoSession
  <2>3. CASE t = s
    BY <2>1, <2>3, <1>2 DEF Used, NoSession
  <2> QED BY <2>2, <2>3
<1>5. TypeOK'
  BY <1>2, <1>3 DEF TypeOK, SessionRecords
<1>6. (\A k \in Clients : ClientOK(k))' /\ OnePipe'
  BY <1>3 DEF ClientOK, OnePipe, Connected
<1>7. (\A c \in Conns : ConnOK(c))'
  <2> SUFFICES ASSUME NEW c \in Conns PROVE ConnOK(c)'
    OBVIOUS
  <2>0. ClientThere(c)' = ClientThere(c) /\ Attached(c)' = Attached(c) /\ ConnOK(c)
    BY <1>3 DEF ClientThere, Attached
  <2>1. CASE Attached(c)
    <3>1. session[c] \in Ids
      BY <2>0, <2>1 DEF ConnOK
    <3>2. (\A i \in DOMAIN toClient[c] : Truthful(toClient[c][i], session[c]))'
      <4>1. CASE session[c] = s
        <5> SUFFICES ASSUME NEW i \in DOMAIN toClient[c] PROVE Truthful(toClient[c][i], session[c])'
          BY <1>3
        <5>1. Truthful(toClient[c][i], s) /\ toClient[c][i].seq \in Nat
          <6>1. toClient[c] \in Seq(Messages)
            BY DEF TypeOK
          <6>2. toClient[c][i] \in Messages
            BY <6>1
          <6> QED BY <4>1, <2>0, <6>2 DEF ConnOK, Messages
        <5>2. sessions[s].published \in Nat /\ sessions'[s].published \in Nat
          BY <1>0, <1>2 DEF SessionRecords
        <5> QED BY <4>1, <5>1, <5>2, <1>2, <1>3 DEF Truthful
      <4>2. CASE session[c] # s
        BY <4>2, <2>0, <3>1, <1>2, <1>3 DEF ConnOK, Truthful
      <4> QED BY <4>1, <4>2
    <3>3. /\ Used(session[c])' = Used(session[c])
          /\ sessions'[session[c]].client = sessions[session[c]].client /\ sessions'[session[c]].job = sessions[session[c]].job
      BY <3>1, <1>3, <1>4
    <3> QED BY <2>0, <2>1, <3>1, <3>2, <3>3, <1>3 DEF ConnOK
  <2>2. CASE ~Attached(c)
    <3>1. DOMAIN toClient'[c] = {}
      BY <2>0, <2>2, <1>3 DEF ConnOK, Attached
    <3> QED BY <2>0, <2>2, <3>1, <1>3 DEF ConnOK
  <2> QED BY <2>1, <2>2
<1>8. (\A c \in Conns : HelloFrom(c))'
  BY <1>3 DEF HelloFrom
<1>9. (\A k \in Clients : Connected(k) => Link(k))'
  <2> SUFFICES ASSUME NEW k \in Clients, Connected(k) PROVE Link(k)'
    BY <1>3 DEF Connected
  <2>1. pipe[k] \in Conns /\ Link(k)
    BY DEF TypeOK, Connected
  <2>2. Attached(pipe[k]) => session[pipe[k]] \in Ids
    BY <2>1 DEF ConnOK
  <2>3. Attached(pipe[k]) => /\ sessions'[session[pipe[k]]].client = sessions[session[pipe[k]]].client
                             /\ sessions'[session[pipe[k]]].job = sessions[session[pipe[k]]].job
    BY <2>2, <1>4
  <2> QED BY <2>1, <2>3, <1>3 DEF Link, Attached, First, Answering, Pending
<1>10. (\A t \in Ids : SessionOK(t))'
  <2> SUFFICES ASSUME NEW t \in Ids PROVE SessionOK(t)'
    OBVIOUS
  <2>1. SessionOK(t) /\ sessions[t].client \in Clients \cup {None}
    BY DEF TypeOK
  <2>2. CASE t = s
    BY <2>1, <2>2, <1>0, <1>2, <1>4 DEF SessionOK
  <2>3. CASE t # s
    BY <2>1, <2>3, <1>2, <1>4 DEF SessionOK, OneSession
  <2> QED BY <2>2, <2>3
<1>11. InUse' = InUse /\ WithJob' = WithJob
  BY <1>4 DEF InUse, WithJob
<1>12. Prefix' /\ OneSession' /\ (\A k \in Clients : NotYet(k))' /\ JobCount'
  BY <1>3, <1>4, <1>11 DEF Prefix, OneSession, NotYet, JobCount
<1>13. Claims'
  <2>1. \A c \in Conns : Claim(c)' => Claim(c) /\ session[c] \in Ids
    BY <1>3 DEF Claim, Pending, Attached, First, ConnOK
  <2> QED BY <2>1, <1>3, <1>4 DEF Claims
<1>14. Own'
  <2> SUFFICES ASSUME Alone, NEW k \in Clients
               PROVE  /\ sessionId[k] \in Ids => \/ sessions'[sessionId[k]].client = k
                                                 \/ (restarts # 0 /\ ~Used(sessionId[k])')
                      /\ exitCode[k] = 0 => outcome'[k] = "completed"
                           /\ \A t \in Ids : sessions'[t].client = k => sessions'[t].result # None
    BY <1>3 DEF Own, Alone, Used
  <2>1. /\ sessionId[k] \in Ids => sessions[sessionId[k]].client = k \/ (restarts # 0 /\ ~Used(sessionId[k]))
        /\ exitCode[k] = 0 => outcome[k] = "completed"
             /\ \A t \in Ids : sessions[t].client = k => sessions[t].result # None
    BY DEF Own
  <2>2. sessionId[k] \in Ids => (Used(sessionId[k])' <=> Used(sessionId[k])) /\ sessions'[sessionId[k]].client = sessions[sessionId[k]].client
    BY <1>3, <1>4
  <2>3. exitCode[k] = 0 /\ outcome' # outcome => sessions[s].client # k
    BY <2>1, <1>2
  <2>4. exitCode[k] = 0 => outcome'[k] = outcome[k]
    BY <2>3, <1>2
  <2>5. \A t \in Ids : sessions[t].result # None => sessions'[t].result # None
    BY <1>2
  <2> QED BY <2>1, <2>2, <2>4, <2>5, <1>4
<1> QED BY <1>5, <1>6, <1>7, <1>8, <1>9, <1>10, <1>12, <1>13, <1>14

\* The table of a new process.
LEMMA NothingYet ==
  ASSUME sessions = [s \in Ids |-> NoSession]
  PROVE  /\ \A s \in Ids : SessionOK(s)
         /\ Prefix /\ OneSession /\ \A k \in Clients : NotYet(k)
         /\ WithJob = {} /\ \A s \in Ids : ~Used(s)
         /\ sessions \in [Ids -> SessionRecords]
<1> USE ScanCommandAssumption
<1>1. /\ NoSession.client = None /\ NoSession.job = NoId /\ NoSession.result = None
      /\ NoSession.published = 0 /\ NoSession \in SessionRecords
  BY DEF NoSession, SessionRecords
<1>2. \A s \in Ids : ~Used(s)
  BY DEF Used
<1>3. InUse = {} /\ WithJob = {}
  BY <1>1, <1>2 DEF InUse, WithJob
<1>4. Prefix
  <2>1. 0 \in 0..Cardinality(Clients)
    BY FS_CardinalityType
  <2>2. InUse = 1..0
    BY <1>3
  <2> QED BY <2>1, <2>2 DEF Prefix
<1> QED BY <1>1, <1>2, <1>3, <1>4 DEF SessionOK, OneSession, NotYet

\* The invariant holds when the service and its clients start.
LEMMA InitIInv == Init => IInv
<1> SUFFICES ASSUME Init PROVE IInv
  OBVIOUS
<1> USE ScanCommandAssumption
<1>1. /\ \A s \in Ids : SessionOK(s)
      /\ Prefix /\ OneSession /\ \A k \in Clients : NotYet(k)
      /\ WithJob = {} /\ sessions \in [Ids -> SessionRecords]
  BY NothingYet DEF Init
<1>2. TypeOK
  <2>1. <<>> \in Seq(Messages) /\ 0 \in 0..(MaxProgress + 1) /\ 0 \in 0..MaxRestarts
    OBVIOUS
  <2>2. /\ cstep \in [Clients -> CSteps] /\ pipe \in [Clients -> Conns \cup {None}]
        /\ sessionId \in [Clients -> Ids \cup {NoId}] /\ jobId \in [Clients -> Nat]
        /\ lastEventSeq \in [Clients -> 0..(MaxProgress + 1)] /\ exitCode \in [Clients -> 0..2]
    BY <2>1 DEF Init, CSteps, NoId
  <2>3. /\ step \in [Conns -> Steps] /\ running \in [Conns -> BOOLEAN]
        /\ session \in [Conns -> Ids \cup {NoId}]
        /\ toServer \in [Conns -> Seq(Messages)] /\ toClient \in [Conns -> Seq(Messages)]
    BY <2>1 DEF Init, Steps
  <2>4. nextJobId \in Nat /\ restarts \in 0..MaxRestarts
    BY <2>1 DEF Init
  <2> QED BY <1>1, <2>2, <2>3, <2>4 DEF TypeOK, SessionRecords, CSteps, Steps
<1>3. (\A k \in Clients : ClientOK(k)) /\ OnePipe /\ \A k \in Clients : ~Connected(k)
  BY DEF Init, ClientOK, OnePipe, Connected
<1>4. \A c \in Conns : ConnOK(c) /\ HelloFrom(c) /\ ~Claim(c)
  BY DEF Init, ConnOK, HelloFrom, Claim, Pending, Attached
<1>5. JobCount /\ Claims
  BY <1>1, <1>4, FS_EmptySet DEF Init, JobCount, Claims
<1>6. Own
  BY DEF Init, Own, Ids, NoId
<1> QED BY <1>1, <1>2, <1>3, <1>4, <1>5, <1>6 DEF IInv

\* The process ends: the clients keep what they know, the service knows nothing.
LEMMA RestartStep == ASSUME IInv, Restart PROVE IInv'
<1> USE ScanCommandAssumption DEF IInv, clientVars
<1>0. /\ restarts' = restarts + 1 /\ restarts < MaxRestarts
      /\ step' = [c \in Conns |-> "free"] /\ running' = [c \in Conns |-> FALSE]
      /\ session' = [c \in Conns |-> NoId]
      /\ toServer' = [c \in Conns |-> <<>>] /\ toClient' = [c \in Conns |-> <<>>]
      /\ sessions' = [s \in Ids |-> NoSession]
      /\ nextJobId' = 1
      /\ UNCHANGED <<cstep, pipe, sessionId, jobId, lastEventSeq, exitCode, outcome>>
  BY DEF Restart
<1>1. /\ sessions' \in [Ids -> SessionRecords] /\ InUse' = {} /\ WithJob' = {}
      /\ \A s \in Ids : /\ sessions'[s].client = None /\ sessions'[s].job = NoId
                        /\ sessions'[s].result = None /\ sessions'[s].published = 0
                        /\ ~Used(s)'
  <2>1. /\ NoSession.client = None /\ NoSession.job = NoId /\ NoSession.result = None
        /\ NoSession.published = 0 /\ NoSession \in SessionRecords
    BY DEF NoSession, SessionRecords
  <2>2. \A s \in Ids : ~Used(s)'
    BY <1>0 DEF Used, NoSession
  <2> QED BY <1>0, <2>1, <2>2 DEF InUse, WithJob
<1>2. TypeOK'
  <2>1. <<>> \in Seq(Messages) /\ restarts + 1 \in 0..MaxRestarts
    BY <1>0 DEF TypeOK
  <2>2. /\ cstep' \in [Clients -> CSteps] /\ pipe' \in [Clients -> Conns \cup {None}]
        /\ sessionId' \in [Clients -> Ids \cup {NoId}] /\ jobId' \in [Clients -> Nat]
        /\ lastEventSeq' \in [Clients -> 0..(MaxProgress + 1)] /\ exitCode' \in [Clients -> 0..2]
    BY <1>0 DEF TypeOK, CSteps
  <2>3. /\ step' \in [Conns -> Steps] /\ running' \in [Conns -> BOOLEAN]
        /\ session' \in [Conns -> Ids \cup {NoId}]
        /\ toServer' \in [Conns -> Seq(Messages)] /\ toClient' \in [Conns -> Seq(Messages)]
    BY <1>0, <2>1 DEF Steps
  <2>4. nextJobId' \in Nat /\ restarts' \in 0..MaxRestarts
    BY <1>0, <2>1
  <2> QED BY <1>1, <2>2, <2>3, <2>4 DEF TypeOK, SessionRecords, CSteps, Steps
<1>3. (\A k \in Clients : ClientOK(k))' /\ OnePipe'
  BY <1>0 DEF ClientOK, OnePipe, Connected
<1>4. (\A c \in Conns : ConnOK(c) /\ HelloFrom(c) /\ ~Claim(c))'
  BY <1>0 DEF ConnOK, HelloFrom, Claim, Pending, Attached
<1>5. (\A k \in Clients : Connected(k) => Link(k))'
  <2> SUFFICES ASSUME NEW k \in Clients, Connected(k)' PROVE Link(k)'
    OBVIOUS
  <2>1. pipe'[k] \in Conns
    BY <1>2 DEF TypeOK, Connected
  <2> QED BY <2>1, <1>0 DEF Link, Attached
<1>6. (\A s \in Ids : SessionOK(s))' /\ OneSession' /\ (\A k \in Clients : NotYet(k))'
  BY <1>1 DEF SessionOK, OneSession, NotYet
<1>7. Prefix'
  <2>1. 0 \in 0..Cardinality(Clients) /\ InUse' = 1..0
    BY <1>1, FS_CardinalityType
  <2> QED BY <2>1 DEF Prefix
<1>8. JobCount' /\ Claims'
  BY <1>0, <1>1, <1>4, FS_EmptySet DEF JobCount, Claims
<1>9. Own'
  <2> SUFFICES ASSUME Alone', NEW k \in Clients
               PROVE  /\ sessionId'[k] \in Ids => ~Used(sessionId[k])' /\ restarts' # 0
                      /\ exitCode'[k] = 0 => outcome'[k] = "completed"
    BY <1>1 DEF Own
  <2>1. restarts' # 0
    BY <1>0 DEF TypeOK
  <2>2. Alone
    BY <2>1 DEF Alone
  <2> QED BY <1>0, <1>1, <2>1, <2>2 DEF Own
<1> QED BY <1>2, <1>3, <1>4, <1>5, <1>6, <1>7, <1>8, <1>9 DEF IInv

\* The steps of a client that fail.
LEMMA ClientFailsStep == ASSUME IInv, NEW k \in Clients, ClientFails(k) PROVE IInv'
<1> USE DEF IInv
<1>0. UNCHANGED <<sessionId, jobId, lastEventSeq, exitCode, pipeVars, connVars, sessions,
                  nextJobId, restarts, outcome>>
  BY DEF ClientFails, ConnectFails, ReadWelcomeFails, ReadFails, GiveUp, Fail
<1>1. pipe' = [pipe EXCEPT ![k] = None]
  <2>1. GiveUp(k) => pipe[k] = None
    BY DEF GiveUp, ClientOK, Connected
  <2> QED BY <2>1 DEF ClientFails, ConnectFails, ReadWelcomeFails, ReadFails, GiveUp, Fail, TypeOK
<1>2. /\ cstep' = [cstep EXCEPT ![k] = cstep'[k]] /\ cstep'[k] \in {"done", "retry", "resume"}
      /\ cstep'[k] # "done" => cstep[k] \notin {"start", "welcome", "write", "done"}
  BY DEF ClientFails, ConnectFails, ReadWelcomeFails, ReadFails, GiveUp, Fail, FirstTime,
         ClientGoto, TypeOK
<1> QED BY <1>0, <1>1, <1>2, GivesUp

\* The other steps of a client.
LEMMA ClientStepKeeps == ASSUME IInv, NEW k \in Clients, ClientStep(k) PROVE IInv'
BY ConnectStep, ReadWelcomeStep, WriteScanStep, ReadStep DEF ClientStep

\* The steps of a connection's thread.
LEMMA ConnStepKeeps == ASSUME IInv, NEW c \in Conns, ConnStep(c) PROVE IInv'
BY HelloStep, ResumeStep, Closes, Answers, RunSteps, SubmitStep DEF ConnStep, ResumeRefused

\* Every step keeps the invariant.
LEMMA NextIInv == IInv /\ [Next]_vars => IInv'
<1> SUFFICES ASSUME IInv, [Next]_vars PROVE IInv'
  OBVIOUS
<1>1. ASSUME NEW k \in Clients, ClientStep(k) \/ ClientFails(k) PROVE IInv'
  BY <1>1, ClientStepKeeps, ClientFailsStep
<1>2. ASSUME NEW c \in Conns, ConnStep(c) \/ SendEvent(c) \/ HandshakeFails(c) \/ Reap(c)
      PROVE  IInv'
  BY <1>2, ConnStepKeeps, SendEventStep, Closes DEF HandshakeFails, Reap
<1>3. ASSUME NEW s \in Ids, Progress(s) \/ JobEnds(s) \/ Expire(s) PROVE IInv'
  BY <1>3, SessionSteps
<1>4. CASE Restart
  BY <1>4, RestartStep
<1>5. CASE UNCHANGED vars
  <2>1. UNCHANGED <<cstep, pipe, sessionId, jobId, lastEventSeq, exitCode, step, running, session,
                    toServer, toClient, sessions, nextJobId, restarts, outcome>>
    BY <1>5 DEF vars, clientVars, pipeVars, connVars
  <2>2. TypeOK' /\ (\A k \in Clients : ClientOK(k))' /\ OnePipe'
    BY <2>1 DEF IInv, TypeOK, ClientOK, OnePipe, Connected
  <2>3. (\A c \in Conns : ConnOK(c))' /\ (\A c \in Conns : HelloFrom(c))'
    <3>1. \A c \in Conns : HelloFrom(c)'
      BY <2>1 DEF IInv, HelloFrom
    <3>2. \A c \in Conns : ConnOK(c)'
      BY <2>1 DEF IInv, ConnOK, Attached, Used, Truthful, ClientThere
    <3> QED BY <3>1, <3>2
  <2>4. (\A k \in Clients : Connected(k) => Link(k))'
    BY <2>1 DEF IInv, Connected, Link, Attached, First, Answering, Pending
  <2>5. (\A s \in Ids : SessionOK(s))' /\ Prefix' /\ OneSession' /\ (\A k \in Clients : NotYet(k))'
    BY <2>1 DEF IInv, SessionOK, Prefix, OneSession, NotYet, InUse, Used
  <2>6. JobCount' /\ Claims' /\ Own'
    BY <2>1 DEF IInv, JobCount, Claims, Own, Claim, Pending, Attached, First, WithJob, Alone, Used
  <2> QED BY <2>2, <2>3, <2>4, <2>5, <2>6 DEF IInv
<1> QED BY <1>1, <1>2, <1>3, <1>4, <1>5 DEF Next, Finished

\* So it always holds.
LEMMA Invariance == Spec => []IInv
<1> QED BY InitIInv, NextIInv, PTL DEF Spec

\* The types of the variables, for any clients, connections, events and restarts: the
\* numbers of sessions and jobs never exceed the number of commands.
THEOREM TypeCorrect == Spec => []TypeOK
BY Invariance, PTL DEF IInv

\* A command that ends with 0 says that its own file has been scanned, over any number of
\* silences, broken pipes, resumed sessions and events that overtake the ACK.  With several
\* clients this holds until the service restarts: then the numbers of sessions are given
\* anew, and a command may resume a session that is another one's.
THEOREM OwnResultAlone == Spec => [](Alone => OwnResult)
<1>1. IInv => (Alone => OwnResult)
  BY DEF IInv, Own, OwnResult
<1> QED BY <1>1, Invariance, PTL

\* The ACK and the events name the same job to a client, whichever it reads first, over any
\* number of breaks and restarts.
THEOREM OneJobId == Spec => JobIdKept
<1>1. IInv /\ [Next]_vars => [\A k \in Clients : jobId[k] # NoId => jobId'[k] = jobId[k]]_vars
  <2> SUFFICES ASSUME IInv, Next, NEW j \in Clients, jobId[j] # NoId
               PROVE  jobId'[j] = jobId[j]
    BY DEF vars
  <2>0. TypeOK
    BY DEF IInv
  <2>1. ASSUME NEW k \in Clients, ReadAck(k)
        PROVE  jobId'[j] = jobId[j]
    <3>1. cstep[k] = "read" /\ Connected(k) /\ pipe[k] \in Conns /\ toClient[pipe[k]] # <<>>
          /\ Head(toClient[pipe[k]]).type = "ACK"
      BY <2>1 DEF ReadAck, Read, IInv, ClientOK, TypeOK, Connected
    <3>2. 1 \in DOMAIN toClient[pipe[k]] /\ Head(toClient[pipe[k]]) = toClient[pipe[k]][1]
      BY <2>0, <3>1 DEF TypeOK
    <3>3. Answering(pipe[k]) /\ Attached(pipe[k])
      BY <3>1, <3>2 DEF Answering, IInv, ConnOK, Attached
    <3>4. Head(toClient[pipe[k]]).id = sessions[session[pipe[k]]].job
      BY <3>1, <3>2 DEF IInv, ConnOK, Truthful
    <3>5. jobId[k] # NoId => jobId[k] = Head(toClient[pipe[k]]).id
      BY <3>1, <3>3, <3>4 DEF IInv, Link
    <3> QED BY <2>0, <2>1, <3>5 DEF ReadAck, TypeOK
  <2>2. ASSUME NEW k \in Clients, ReadEvent(k)
        PROVE  jobId'[j] = jobId[j]
    BY <2>0, <2>2 DEF ReadEvent, TypeOK
  <2>3. ASSUME NEW k \in Clients, ClientStep(k) \/ ClientFails(k), ~ReadAck(k), ~ReadEvent(k)
        PROVE  jobId' = jobId
    BY <2>3 DEF ClientStep, ClientFails, Connect, ReadWelcome, WriteScan, ReadError,
                ConnectFails, ReadWelcomeFails, ReadFails, GiveUp, Fail
  <2>4. ASSUME NEW c \in Conns, ConnStep(c) \/ SendEvent(c) \/ HandshakeFails(c) \/ Reap(c)
        PROVE  jobId' = jobId
    BY <2>4 DEF ConnStep, SendEvent, HandshakeFails, Reap, Hello, Resume, ResumeRefused, Attach,
                Welcome, ReadScan, RefuseScan, Submit, Ack, LeaveLoop, Mark, clientVars
  <2>5. ASSUME NEW s \in Ids, Progress(s) \/ JobEnds(s) \/ Expire(s)
        PROVE  jobId' = jobId
    BY <2>5 DEF Progress, JobEnds, Expire, clientVars
  <2>6. Restart \/ Finished => jobId' = jobId
    BY DEF Restart, Finished, vars, clientVars
  <2> QED BY <2>1, <2>2, <2>3, <2>4, <2>5, <2>6 DEF Next
<1> QED BY <1>1, Invariance, PTL DEF Spec, JobIdKept

-----------------------------------------------------------------------------
(* RateLimiter: what Allow admits, and when.                               *)

\* The reading of a thread inside Allow is at most MaxWait old.
Waiting ==
  \A t \in Threads : calling[t] # NoKey => now[t] <= clock /\ clock - now[t] <= MaxWait

\* No reading is from the future.
Past ==
  /\ since <= clock
  /\ \A k \in present : updated[k] <= clock
  /\ cutoff # NoCutoff => cutoff <= clock - Idle

Spending ==
  \A k \in Keys :
    /\ k \in present =>
         /\ tokens[k] - updated[k] + clock >= 0
         /\ spent[k] = 0 \/ spent[k] + tokens[k] - updated[k] <= Burst - since + MaxWait
    /\ k \notin present => spent[k] <= clock - since

\* At the promised moment the bucket holds a token.
Promised ==
  \A k \in present : promise[k] # NoPromise => tokens[k] + (promise[k] - updated[k]) >= Cost

LimiterInv == LimiterTypeOK /\ Waiting /\ Past /\ Spending /\ Promised

LEMMA InitLimiterInv == LimiterInit => LimiterInv
BY RateLimiterAssumption
   DEF LimiterInit, LimiterInv, LimiterTypeOK, Waiting, Past, Spending, Promised, NoCutoff, NoPromise, NoKey

\* What a refill can give.
LEMMA RefilledBounds ==
  ASSUME LimiterInv, NEW t \in Threads, calling[t] # NoKey
  PROVE  LET k == calling[t]  b == Refilled(k, now[t]) IN
         /\ k \in Keys /\ b \in Int /\ b <= Burst /\ b >= -MaxWait
         /\ b - now[t] + clock >= 0
         /\ k \in present => b - now[t] <= tokens[k] - updated[k]
         /\ k \in present /\ b # Burst => b - now[t] = tokens[k] - updated[k]
         /\ k \notin present => b = Burst
<1> DEFINE k == calling[t]
<1>1. k \in Keys /\ now[t] \in 0..MaxTime /\ now[t] <= clock /\ clock - now[t] <= MaxWait
  BY DEF LimiterInv, LimiterTypeOK, Waiting
<1>2. clock \in Nat /\ Burst \in Nat /\ MaxWait \in Nat
  BY RateLimiterAssumption DEF LimiterInv, LimiterTypeOK
<1>3. tokens[k] \in Int /\ updated[k] \in Nat
  BY <1>1, <1>2 DEF LimiterInv, LimiterTypeOK
<1>4. k \in present => tokens[k] - updated[k] + clock >= 0
  BY <1>1 DEF LimiterInv, Spending
<1>5. now[t] \in Nat
  BY <1>1
<1> HIDE DEF k
<1>6. /\ Refilled(k, now[t]) \in Int /\ Refilled(k, now[t]) <= Burst
      /\ Refilled(k, now[t]) >= -MaxWait
      /\ Refilled(k, now[t]) - now[t] + clock >= 0
      /\ k \in present => Refilled(k, now[t]) - now[t] <= tokens[k] - updated[k]
      /\ k \in present /\ Refilled(k, now[t]) # Burst
           => Refilled(k, now[t]) - now[t] = tokens[k] - updated[k]
      /\ k \notin present => Refilled(k, now[t]) = Burst
  BY <1>1, <1>2, <1>3, <1>4, <1>5 DEF Refilled
<1> QED BY <1>1, <1>6 DEF k

\* A request is admitted.
LEMMA AdmitStep ==
  ASSUME LimiterInv, NEW t \in Threads, Admit(t)
  PROVE  LimiterInv'
<1> DEFINE k == calling[t]
<1> DEFINE b == Refilled(k, now[t])
<1>1. /\ k \in Keys /\ b \in Int /\ b <= Burst /\ b >= Cost
      /\ k \in present => b - now[t] <= tokens[k] - updated[k]
      /\ k \notin present => b = Burst
  BY RefilledBounds DEF Admit
<1>2. /\ now[t] \in 0..MaxTime /\ now[t] <= clock /\ clock - now[t] <= MaxWait
      /\ clock \in Nat /\ since \in Nat /\ since <= clock /\ spent[k] \in Nat
      /\ Burst \in Nat /\ MaxWait \in Nat /\ Cost \in Nat /\ Cost > 0 /\ MaxTime \in Nat
  BY <1>1, RateLimiterAssumption DEF LimiterInv, LimiterTypeOK, Waiting, Past, Admit
<1>3. /\ present' = present \cup {k} /\ tokens' = [tokens EXCEPT ![k] = b - Cost]
      /\ updated' = [updated EXCEPT ![k] = now[t]]
      /\ calling' = [calling EXCEPT ![t] = NoKey]
      /\ spent' = [spent EXCEPT ![k] = @ + Cost]
      /\ promise' = [promise EXCEPT ![k] = NoPromise]
      /\ UNCHANGED <<clock, now, cutoff, since>>
  BY DEF Admit, Store
<1>4. b - Cost \in (-MaxWait)..Burst
  BY <1>1, <1>2
<1>5. k \in present => tokens[k] \in Int /\ updated[k] \in Nat
  BY <1>1, <1>2 DEF LimiterInv, LimiterTypeOK
<1>6. spent[k] + Cost + (b - Cost) - now[t] <= Burst - since + MaxWait
  <2>1. CASE k \notin present
    BY <1>1, <1>2, <2>1 DEF LimiterInv, Spending
  <2>2. CASE k \in present
    BY <1>1, <1>2, <1>5, <2>2 DEF LimiterInv, Spending
  <2> QED BY <2>1, <2>2
<1> HIDE DEF k, b
<1>7. LimiterTypeOK'
  BY <1>1, <1>2, <1>3, <1>4 DEF LimiterInv, LimiterTypeOK, NoPromise, bucketVars
<1>8. Waiting' /\ Past'
  BY <1>1, <1>2, <1>3 DEF LimiterInv, LimiterTypeOK, Waiting, Past
<1>9. Spending'
  <2> SUFFICES ASSUME NEW j \in Keys
               PROVE  /\ j \in present' =>
                           /\ tokens'[j] - updated'[j] + clock' >= 0
                           /\ spent'[j] = 0
                              \/ spent'[j] + tokens'[j] - updated'[j] <= Burst - since' + MaxWait
                      /\ j \notin present' => spent'[j] <= clock' - since'
    BY DEF Spending
  <2>1. CASE j = k
    BY <1>1, <1>2, <1>3, <1>6, <2>1 DEF LimiterInv, LimiterTypeOK
  <2>2. CASE j # k
    BY <1>3, <2>2 DEF LimiterInv, Spending, LimiterTypeOK
  <2> QED BY <2>1, <2>2
<1>10. Promised'
  BY <1>1, <1>3 DEF LimiterInv, LimiterTypeOK, Promised
<1> QED BY <1>7, <1>8, <1>9, <1>10 DEF LimiterInv

\* A request is refused.
LEMMA RefuseStep ==
  ASSUME LimiterInv, NEW t \in Threads, Refuse(t)
  PROVE  LimiterInv'
<1> DEFINE k == calling[t]
<1> DEFINE b == Refilled(k, now[t])
<1> DEFINE p == IF promise[k] = NoPromise THEN now[t] + (Cost - b) ELSE promise[k]
<1>1. /\ Burst \in Nat /\ MaxWait \in Nat /\ Cost \in Nat /\ Burst >= Cost
      /\ clock \in Nat /\ since \in Nat /\ MaxTime \in Nat
  BY RateLimiterAssumption DEF LimiterInv, LimiterTypeOK
<1>2. /\ k \in present /\ k \in Keys /\ b \in Int /\ b < Cost /\ b >= -MaxWait
      /\ b - now[t] = tokens[k] - updated[k]
      /\ b - now[t] + clock >= 0
  BY <1>1, RefilledBounds DEF Refuse
<1>3. now[t] \in 0..MaxTime /\ now[t] <= clock
  BY <1>2 DEF LimiterInv, LimiterTypeOK, Waiting, Refuse
<1>4. /\ present' = present \cup {k} /\ tokens' = [tokens EXCEPT ![k] = b]
      /\ updated' = [updated EXCEPT ![k] = now[t]]
      /\ calling' = [calling EXCEPT ![t] = NoKey]
      /\ promise' = [promise EXCEPT ![k] = p]
      /\ UNCHANGED <<clock, now, cutoff, since, spent>>
  BY DEF Refuse, Store
<1>5. b \in (-MaxWait)..Burst
  BY <1>1, <1>2
<1>6. tokens[k] \in Int /\ updated[k] \in Nat /\ spent[k] \in Nat
      /\ promise[k] \in Nat \cup {NoPromise}
  BY <1>1, <1>2 DEF LimiterInv, LimiterTypeOK
<1>7. p \in Nat /\ b + (p - now[t]) >= Cost
  <2>1. CASE promise[k] = NoPromise
    BY <1>1, <1>2, <1>3, <2>1
  <2>2. CASE promise[k] # NoPromise
    <3>1. tokens[k] + (promise[k] - updated[k]) >= Cost
      BY <1>2, <2>2 DEF LimiterInv, Promised
    <3> QED BY <1>1, <1>2, <1>3, <1>6, <2>2, <3>1
  <2> QED BY <2>1, <2>2
<1>8. /\ tokens[k] - updated[k] + clock >= 0
      /\ spent[k] = 0 \/ spent[k] + tokens[k] - updated[k] <= Burst - since + MaxWait
  BY <1>2 DEF LimiterInv, Spending
<1>9. spent[k] = 0 \/ spent[k] + b - now[t] <= Burst - since + MaxWait
  BY <1>1, <1>2, <1>3, <1>6, <1>8
<1> HIDE DEF k, b, p
<1>10. LimiterTypeOK'
  BY <1>2, <1>3, <1>4, <1>5, <1>7 DEF LimiterInv, LimiterTypeOK
<1>11. Waiting' /\ Past'
  BY <1>2, <1>3, <1>4 DEF LimiterInv, LimiterTypeOK, Waiting, Past
<1>12. Spending'
  <2> SUFFICES ASSUME NEW j \in Keys
               PROVE  /\ j \in present' =>
                           /\ tokens'[j] - updated'[j] + clock' >= 0
                           /\ spent'[j] = 0
                              \/ spent'[j] + tokens'[j] - updated'[j] <= Burst - since' + MaxWait
                      /\ j \notin present' => spent'[j] <= clock' - since'
    BY DEF Spending
  <2>1. CASE j = k
    BY <1>2, <1>3, <1>4, <1>9, <2>1 DEF LimiterInv, LimiterTypeOK
  <2>2. CASE j # k
    BY <1>4, <2>2 DEF LimiterInv, Spending, LimiterTypeOK
  <2> QED BY <2>1, <2>2
<1>13. Promised'
  <2> SUFFICES ASSUME NEW j \in present', promise'[j] # NoPromise
               PROVE  tokens'[j] + (promise'[j] - updated'[j]) >= Cost
    BY DEF Promised
  <2>1. CASE j = k
    BY <1>2, <1>4, <1>7, <2>1 DEF LimiterInv, LimiterTypeOK
  <2>2. CASE j # k
    BY <1>4, <2>2 DEF LimiterInv, Promised, LimiterTypeOK
  <2> QED BY <2>1, <2>2
<1> QED BY <1>10, <1>11, <1>12, <1>13 DEF LimiterInv

\* Cleanup erases a bucket: what was spent has come back while it was idle.
LEMMA EraseStep ==
  ASSUME LimiterInv, CleanupErases
  PROVE  LimiterInv'
<1>1. /\ present' = {k \in present : updated[k] >= cutoff} /\ cutoff' = NoCutoff
      /\ UNCHANGED <<clock, tokens, updated, calling, now, since, spent, promise>>
      /\ cutoff # NoCutoff
  BY DEF CleanupErases, observerVars
<1>2. /\ Burst \in Nat /\ MaxWait \in Nat /\ Idle \in Nat /\ Idle >= Burst + 2 * MaxWait
      /\ clock \in Nat /\ since \in Nat /\ since <= clock /\ cutoff \in Int /\ cutoff <= clock - Idle
      /\ MaxTime \in Nat
  BY <1>1, RateLimiterAssumption DEF LimiterInv, LimiterTypeOK, Past, NoCutoff
<1>3. LimiterTypeOK'
  BY <1>1, <1>2 DEF LimiterInv, LimiterTypeOK, NoCutoff
<1>4. Waiting' /\ Past' /\ Promised'
  BY <1>1 DEF LimiterInv, Waiting, Past, Promised
<1>5. ASSUME NEW k \in Keys, k \in present, updated[k] < cutoff
      PROVE  spent[k] <= clock - since
  <2>1. /\ tokens[k] \in Int /\ tokens[k] >= -MaxWait /\ updated[k] \in Nat /\ spent[k] \in Nat
        /\ spent[k] = 0 \/ spent[k] + tokens[k] - updated[k] <= Burst - since + MaxWait
    BY <1>2, <1>5 DEF LimiterInv, LimiterTypeOK, Spending
  <2> QED BY <1>2, <1>5, <2>1
<1>6. Spending'
  <2> SUFFICES ASSUME NEW k \in Keys
               PROVE  /\ k \in present' =>
                           /\ tokens[k] - updated[k] + clock >= 0
                           /\ spent[k] = 0
                              \/ spent[k] + tokens[k] - updated[k] <= Burst - since + MaxWait
                      /\ k \notin present' => spent[k] <= clock - since
    BY <1>1 DEF Spending
  <2>1. k \in present => updated[k] \in Nat
    BY <1>2 DEF LimiterInv, LimiterTypeOK
  <2>2. k \in present /\ k \notin present' => updated[k] < cutoff
    BY <1>1, <1>2, <2>1
  <2> QED BY <1>1, <1>5, <2>2 DEF LimiterInv, Spending
<1> QED BY <1>3, <1>4, <1>6 DEF LimiterInv

\* The other steps leave the buckets alone.
LEMMA LimiterOtherSteps ==
  ASSUME LimiterInv,
         \/ \E t \in Threads, k \in Keys : Call(t, k)
         \/ CleanupReads \/ Tick \/ Observe \/ UNCHANGED limiterVars
  PROVE  LimiterInv'
<1> USE RateLimiterAssumption DEF bucketVars, observerVars
<1>1. ASSUME NEW t \in Threads, NEW k \in Keys, Call(t, k)
      PROVE  LimiterInv'
  BY <1>1 DEF Call, LimiterInv, LimiterTypeOK, Waiting, Past, Spending, Promised
<1>2. CASE CleanupReads
  <2>1. LimiterTypeOK'
    BY <1>2 DEF CleanupReads, LimiterInv, LimiterTypeOK, NoCutoff
  <2> QED BY <1>2, <2>1 DEF CleanupReads, LimiterInv, Waiting, Past, Spending, Promised, LimiterTypeOK
<1>3. CASE Tick
  <2>1. clock' = clock + 1 /\ clock \in Nat /\ since \in Nat /\ MaxTime \in Nat
    BY <1>3 DEF Tick, LimiterInv, LimiterTypeOK
  <2>2. LimiterTypeOK'
    BY <1>3 DEF Tick, LimiterInv, LimiterTypeOK
  <2>3. Waiting'
    BY <1>3, <2>1 DEF Tick, LimiterInv, LimiterTypeOK, Waiting
  <2>4. Past'
    BY <1>3, <2>1 DEF Tick, LimiterInv, LimiterTypeOK, Past, NoCutoff
  <2>5. Spending'
    <3> SUFFICES ASSUME NEW k \in Keys
                 PROVE  /\ k \in present =>
                             /\ tokens[k] - updated[k] + (clock + 1) >= 0
                             /\ spent[k] = 0
                                \/ spent[k] + tokens[k] - updated[k] <= Burst - since + MaxWait
                        /\ k \notin present => spent[k] <= (clock + 1) - since
      BY <1>3, <2>1 DEF Tick, Spending
    <3>1. tokens[k] \in Int /\ updated[k] \in Nat /\ spent[k] \in Nat
      BY DEF LimiterInv, LimiterTypeOK
    <3> QED BY <2>1, <3>1 DEF LimiterInv, Spending
  <2>6. Promised'
    BY <1>3 DEF Tick, LimiterInv, Promised
  <2> QED BY <2>2, <2>3, <2>4, <2>5, <2>6 DEF LimiterInv
<1>4. CASE Observe
  <2>1. LimiterTypeOK'
    BY <1>4 DEF Observe, LimiterInv, LimiterTypeOK
  <2>2. clock \in Nat
    BY DEF LimiterInv, LimiterTypeOK
  <2> QED BY <1>4, <2>1, <2>2 DEF Observe, LimiterInv, Waiting, Past, Spending, Promised
<1>5. CASE UNCHANGED limiterVars
  BY <1>5 DEF limiterVars, LimiterInv, LimiterTypeOK, Waiting, Past, Spending, Promised
<1> QED BY <1>1, <1>2, <1>3, <1>4, <1>5

LEMMA NextLimiterInv == LimiterInv /\ [LimiterNext]_limiterVars => LimiterInv'
BY AdmitStep, RefuseStep, EraseStep, LimiterOtherSteps DEF LimiterNext

LEMMA LimiterInvariance == LimiterSpec => []LimiterInv
BY InitLimiterInv, NextLimiterInv, PTL DEF LimiterSpec

-----------------------------------------------------------------------------

\* The types of the variables; a bucket is overdrawn by no more than the time a
\* thread waits for mutex_.
THEOREM LimiterTypeCorrect == LimiterSpec => []LimiterTypeOK
<1>1. LimiterInv => LimiterTypeOK
  BY DEF LimiterInv
<1> QED BY <1>1, LimiterInvariance, PTL

\* However threads interleave, the requests admitted in any stretch of time are
\* bounded by the burst and the rate.
THEOREM RateBounded == LimiterSpec => []WindowBound
<1>1. ASSUME LimiterInv PROVE WindowBound
  <2> SUFFICES ASSUME NEW k \in Keys
               PROVE  spent[k] <= Burst + (clock - since) + MaxWait
    BY DEF WindowBound
  <2>1. /\ tokens[k] \in Int /\ updated[k] \in Nat /\ spent[k] \in Nat /\ clock \in Nat
        /\ since \in Nat /\ since <= clock /\ Burst \in Nat /\ MaxWait \in Nat
    BY <1>1, RateLimiterAssumption DEF LimiterInv, LimiterTypeOK, Past
  <2>2. CASE k \in present
    BY <1>1, <2>1, <2>2 DEF LimiterInv, Spending
  <2>3. CASE k \notin present
    BY <1>1, <2>1, <2>3 DEF LimiterInv, Spending
  <2> QED BY <2>2, <2>3
<1> QED BY <1>1, LimiterInvariance, PTL

\* A client that waits as long as it was told is admitted.
THEOREM RetryKept == LimiterSpec => RetryIsEnough
<1> DEFINE RetryHeld ==
      \A t \in Threads :
        /\ calling[t] # NoKey /\ calling'[t] = NoKey
        /\ promise[calling[t]] # NoPromise /\ now[t] >= promise[calling[t]]
        => promise'[calling[t]] = NoPromise
<1>1. ASSUME LimiterInv, [LimiterNext]_limiterVars PROVE RetryHeld
  <2> SUFFICES ASSUME NEW t \in Threads,
                      calling[t] # NoKey, calling'[t] = NoKey,
                      promise[calling[t]] # NoPromise, now[t] >= promise[calling[t]]
               PROVE  promise'[calling[t]] = NoPromise
    OBVIOUS
  <2>1. calling[t] \in Keys /\ promise \in [Keys -> Nat \cup {NoPromise}]
    BY <1>1 DEF LimiterInv, LimiterTypeOK
  <2>2. Admit(t) \/ Refuse(t)
    BY <1>1 DEF LimiterNext, limiterVars, bucketVars, observerVars, Call, Admit, Refuse, Store, CleanupReads,
                CleanupErases, Tick, Observe, LimiterInv, LimiterTypeOK
  <2>3. CASE Admit(t)
    BY <2>1, <2>3 DEF Admit
  <2>4. CASE Refuse(t)
    <3> DEFINE k == calling[t]
    <3> DEFINE b == Refilled(k, now[t])
    <3>1. b \in Int /\ b < Cost /\ Cost \in Nat /\ Burst \in Nat /\ Cost <= Burst
      BY <1>1, <2>4, RefilledBounds, RateLimiterAssumption DEF Refuse
    <3>2. k \in present /\ b - now[t] = tokens[k] - updated[k]
      BY <1>1, <2>4, <3>1, RefilledBounds
    <3>3. tokens[k] + (promise[k] - updated[k]) >= Cost
      BY <1>1, <3>2 DEF LimiterInv, Promised
    <3>4. now[t] \in Nat /\ tokens[k] \in Int /\ updated[k] \in Nat /\ promise[k] \in Nat
      BY <1>1, <2>1, RateLimiterAssumption DEF LimiterInv, LimiterTypeOK
    <3> HIDE DEF k, b
    <3>5. FALSE
      BY <3>1, <3>2, <3>3, <3>4 DEF k
    <3> QED BY <3>5
  <2> QED BY <2>2, <2>3, <2>4
<1> QED BY <1>1, LimiterInvariance, PTL DEF LimiterSpec, RetryIsEnough
=============================================================================
