---------------------------- MODULE ServerProofs ------------------------------
(***************************************************************************)
(* Theorems about Server, proved for any number of workers, clients, names *)
(* and descriptors, and any limit on the messages.  The conjuncts of the   *)
(* inductive invariant IInv come one lemma each (TypeStep, PhaseStep,      *)
(* ApartStep, ConnStep, AcceptStep, ScanStep, ReadyStep, OwnStep,          *)
(* FdmaxStep, MasterStep, OrderStep), after the lemmas about what a step   *)
(* does to the jobs and to the sockets; then the properties that follow.   *)
(***************************************************************************)
EXTENDS Server, FiniteSetTheorems, SequenceTheorems, TLAPS

USE ServerAssumption, JobAssumption DEF pool, mainVars, sets, map, locals, world

(* Descriptors are numbers; the listener is none of the connections'.      *)
LEMMA FdsFacts ==
  /\ Fds \subseteq Nat /\ listener \in Nat /\ listener \notin Fds
  /\ \A f \in Fds : f <= MaxFd /\ f >= 4
  /\ \A f \in Fds \cup {listener} : f \in 0..MaxFd
BY DEF Fds, listener

(* The fields of a job: every job but the accepting one is about a         *)
(* descriptor, and those that carry a message are the ones that have p.    *)
LEMMA JobShape ==
  ASSUME NEW j \in Jobs
  PROVE  /\ j.run \in {"new_connection_handler", "new_message_handler",
                       "new_protocol_handler", "switch_protocol_handler"}
         /\ j.run # "new_connection_handler" => j.fd \in Fds
         /\ Carries(j) => j.p \in Messages
         /\ j.run = "new_message_handler" =>
              j = [run |-> "new_message_handler", fd |-> j.fd]
         /\ ("p" \in DOMAIN j) <=> Carries(j)
BY DEF Jobs, Carries

(* The fields of a message.                                                *)
LEMMA MessageShape ==
  ASSUME NEW m \in Messages
  PROVE  /\ m.accion \in {"00"} \cup Actions /\ m.user \in Users
         /\ m.status \in {"0", "1"}
         /\ m.from \in Clients /\ m.n \in Numbers /\ m.n \in Nat
BY DEF Messages, Numbers

(* A worker that is not idle runs a job.                                   *)
LEMMA AtJob ==
  ASSUME TypeOK, PhaseInv, NEW w \in Workers, step[w] # "idle"
  PROVE running[w] \in Jobs
BY DEF TypeOK, PhaseInv, Pool!PoolTypeOK

(* close() keeps the types of what it changes.                             *)
LEMMA CloseType ==
  ASSUME TypeOK, NEW fd \in Fds, Close(fd)
  PROVE /\ fdConn' \in [Fds -> Clients \cup {NoConn}]
        /\ backlog' \in Seq(Clients)
        /\ peer' \in [Clients -> PeerStates]
        /\ inbox' \in [Clients -> Seq(Messages)]
        /\ outbox' \in [Clients -> Seq(Answers)]
        /\ sent' \in [Clients -> Numbers \cup {0}]
<1> DEFINE c == fdConn[fd]
<1>1. /\ fdConn' = [fdConn EXCEPT ![fd] = NoConn]
      /\ peer' = [peer EXCEPT ![c] = "closed"]
      /\ inbox' = [inbox EXCEPT ![c] = <<>>]
      /\ UNCHANGED <<backlog, outbox, sent>>
  BY DEF Close
<1> HIDE DEF c
<1>2. fdConn' \in [Fds -> Clients \cup {NoConn}]
  BY <1>1 DEF TypeOK
<1>3. peer' \in [Clients -> PeerStates]
  BY <1>1 DEF TypeOK, PeerStates
<1>4. inbox' \in [Clients -> Seq(Messages)]
  BY <1>1, EmptySeq DEF TypeOK
<1> QED
  BY <1>1, <1>2, <1>3, <1>4 DEF TypeOK

(* So does write().                                                        *)
LEMMA WriteType ==
  ASSUME TypeOK, NEW fd \in Fds, NEW m \in Answers, Write(fd, m)
  PROVE /\ main' \in {main, "killed"}
        /\ peer' \in [Clients -> PeerStates]
        /\ outbox' \in [Clients -> Seq(Answers)]
        /\ UNCHANGED <<fdConn, backlog, inbox, sent>>
<1> DEFINE c == fdConn[fd]
<1>0. c \in Clients \cup {NoConn}
  BY DEF TypeOK
<1>1. UNCHANGED <<fdConn, backlog, inbox, sent>>
  BY DEF Write
<1>2. ASSUME c # NoConn, outbox' = [outbox EXCEPT ![c] = Append(@, m)],
             UNCHANGED <<main, peer>>
      PROVE  outbox' \in [Clients -> Seq(Answers)]
  BY <1>0, <1>2 DEF TypeOK
<1>3. ASSUME NEW s \in PeerStates, peer' = [peer EXCEPT ![c] = s]
      PROVE  peer' \in [Clients -> PeerStates]
  BY <1>3 DEF TypeOK
<1>4. QED
  BY <1>1, <1>2, <1>3 DEF Write, TypeOK, PeerStates

(* The three kinds of answer are answers.                                  *)
LEMMA AnswerShape ==
  ASSUME NEW p \in Messages
  PROVE /\ Answer(p, "01") \in Answers
        /\ Answer(p, "08") \in Answers
        /\ \A s \in {"0", "1"} : StatusAnswer(p, s) \in Answers
        /\ \A l \in SUBSET Users : ListAnswer(p, l) \in Answers
BY MessageShape DEF Answer, StatusAnswer, ListAnswer, Answers

-----------------------------------------------------------------------------
(* Types.                                                                  *)

(* What a worker does between the start and the end of a job.              *)
Works(w) ==
  \/ ReadMaster(w) \/ ClearMaster(w) \/ Accept(w) \/ SetMaster(w)
  \/ SetFdmax(w) \/ RecvMessage(w) \/ RecvEnd(w) \/ RecvFails(w)
  \/ Dispatch(w) \/ Register(w) \/ Release(w) \/ CloseClient(w)
  \/ ChangeStatus(w) \/ UserInfo(w) \/ ListUsers(w) \/ AnswerList(w)
  \/ Deliver(w)

(* The steps of the server, as the proofs split them: Rest changes         *)
(* nothing.                                                                *)
LEMMA NextCases ==
  ASSUME [Next]_vars
  PROVE  \/ Select \/ SelectFails \/ Scan \/ WaitCall \/ WaitReturns
         \/ \E w \in Workers : StartJob(w) \/ EndJob(w) \/ Works(w)
         \/ \E c \in Clients : Connect(c) \/ Send(c) \/ Die(c)
         \/ UNCHANGED vars
<1>1. CASE \E w \in Workers : WorkerStep(w)
  BY <1>1 DEF WorkerStep, Works
<1>2. QED
  BY <1>1 DEF Next, MainStep, Rest

(* What the head and the tail of a sequence are, element by element.       *)
LEMMA HeadTail ==
  ASSUME NEW S, NEW q \in Seq(S), q # <<>>
  PROVE  /\ Head(q) \in S /\ Head(q) = q[1]
         /\ Tail(q) \in Seq(S) /\ Len(q) \in Nat \ {0}
         /\ DOMAIN q = 1..Len(q) /\ DOMAIN Tail(q) = 1..(Len(q) - 1)
         /\ \A k \in 1..(Len(q) - 1) : Tail(q)[k] = q[k + 1]
BY HeadTailProperties, EmptySeq

(* A job moves to one of its steps.                                        *)
LEMMA GotoType ==
  ASSUME TypeOK, NEW w \in Workers, NEW s \in Steps, Goto(w, s)
  PROVE  step' \in [Workers -> Steps]
BY DEF TypeOK, Goto

(* The operations of the pool keep its types.                              *)
LEMMA PoolType ==
  ASSUME Pool!PoolTypeOK
  PROVE  /\ \A w \in Workers : Pool!Start(w) => Pool!PoolTypeOK'
         /\ \A w \in Workers : Pool!Finish(w) => Pool!PoolTypeOK'
         /\ \A w \in Workers, j \in Jobs :
              Pool!SubmitByJob(w, j) => Pool!PoolTypeOK'
         /\ \A j \in Jobs : Pool!SubmitByCaller(j) => Pool!PoolTypeOK'
         /\ Pool!Wait => Pool!PoolTypeOK'
         /\ Pool!WaitReturns => Pool!PoolTypeOK'
         /\ UNCHANGED pool => Pool!PoolTypeOK'
<1> USE DEF Pool!PoolTypeOK
<1>1. ASSUME NEW w \in Workers, Pool!Start(w) PROVE Pool!PoolTypeOK'
  <2>1. Head(queue) \in Jobs /\ Tail(queue) \in Seq(Jobs)
    BY <1>1, HeadTail DEF Pool!Start
  <2>2. QED
    BY <1>1, <2>1 DEF Pool!Start
<1>2. ASSUME NEW w \in Workers, Pool!Finish(w) PROVE Pool!PoolTypeOK'
  BY <1>2 DEF Pool!Finish
<1>3. ASSUME NEW w \in Workers, NEW j \in Jobs, Pool!SubmitByJob(w, j)
      PROVE  Pool!PoolTypeOK'
  BY <1>3, AppendProperties DEF Pool!SubmitByJob
<1>4. ASSUME NEW j \in Jobs, Pool!SubmitByCaller(j) PROVE Pool!PoolTypeOK'
  BY <1>4, AppendProperties DEF Pool!SubmitByCaller
<1>5. Pool!Wait => Pool!PoolTypeOK'
  BY DEF Pool!Wait
<1>6. Pool!WaitReturns => Pool!PoolTypeOK'
  BY DEF Pool!WaitReturns
<1>7. UNCHANGED pool => Pool!PoolTypeOK'
  OBVIOUS
<1>8. QED
  BY <1>1, <1>2, <1>3, <1>4, <1>5, <1>6, <1>7

(* Every variable keeps its type.                                          *)
LEMMA TypeStep ==
  ASSUME TypeOK, PhaseInv, [Next]_vars
  PROVE  TypeOK'
<1> USE DEF TypeOK
<1>1. CASE Select \/ SelectFails
  BY <1>1, PoolType DEF Select, SelectFails, Watched
<1>2. CASE Scan
  <2>1. PICK f \in Unscanned :
          /\ i' = f + 1
          /\ Pool!SubmitByCaller(IF f = listener
                THEN [run |-> "new_connection_handler"]
                ELSE [run |-> "new_message_handler", fd |-> f])
    BY <1>2 DEF Scan
  <2>2. f \in Fds \cup {listener}
    BY DEF Unscanned
  <2>3. i' \in 0..(MaxFd + 1)
    BY <2>1, <2>2, FdsFacts
  <2>4. Pool!PoolTypeOK'
    BY <2>1, <2>2, PoolType DEF Jobs
  <2>5. QED
    BY <1>2, <2>3, <2>4 DEF Scan
<1>3. CASE WaitCall \/ WaitReturns
  BY <1>3, PoolType DEF WaitCall, WaitReturns
<1>4. ASSUME NEW w \in Workers, StartJob(w) \/ EndJob(w) PROVE TypeOK'
  <2>1. step' \in [Workers -> Steps]
    BY <1>4, GotoType DEF StartJob, EndJob, Steps
  <2>2. Pool!PoolTypeOK'
    BY <1>4, PoolType DEF StartJob, EndJob
  <2>3. QED
    BY <1>4, <2>1, <2>2 DEF StartJob, EndJob
<1>5. ASSUME NEW w \in Workers,
             ReadMaster(w) \/ ClearMaster(w) \/ SetMaster(w) \/ SetFdmax(w)
      PROVE TypeOK'
  <2>1. step' \in [Workers -> Steps]
    BY <1>5, GotoType DEF ReadMaster, ClearMaster, SetMaster, SetFdmax, Steps
  <2>2. Pool!PoolTypeOK'
    BY <1>5, PoolType DEF ReadMaster, ClearMaster, SetMaster, SetFdmax
  <2>3. /\ master' \in SUBSET (Fds \cup {listener})
        /\ lost' \in BOOLEAN
        /\ fdmax' \in Fds \cup {listener}
        /\ word' \in [Workers -> SUBSET (Fds \cup {listener})]
    BY <1>5 DEF ReadMaster, ClearMaster, SetMaster, SetFdmax, Cleared,
       NewMax, PhaseInv, Accepting, Undoes
  <2>4. QED
    BY <1>5, <2>1, <2>2, <2>3 DEF ReadMaster, ClearMaster, SetMaster, SetFdmax
<1>6. ASSUME NEW w \in Workers, Accept(w) PROVE TypeOK'
  <2>1. step' \in [Workers -> Steps]
    BY <1>6, GotoType DEF Accept, Steps
  <2>2. Pool!PoolTypeOK'
    BY <1>6, PoolType DEF Accept
  <2>3. /\ fdConn' \in [Fds -> Clients \cup {NoConn}]
        /\ backlog' \in Seq(Clients)
    <3>1. CASE UNCHANGED <<fdConn, backlog>>
      BY <3>1
    <3>2. CASE /\ backlog # <<>> /\ backlog' = Tail(backlog)
               /\ \E f \in Fds : fdConn' = [fdConn EXCEPT ![f] = Head(backlog)]
      <4>1. Head(backlog) \in Clients /\ Tail(backlog) \in Seq(Clients)
        BY <3>2, HeadTail
      <4>2. QED
        BY <3>2, <4>1
    <3>3. QED
      BY <1>6, <3>1, <3>2 DEF Accept, FreeFds
  <2>4. new_fd' \in [Workers -> Fds \cup {0}] /\ lost' \in BOOLEAN
    <3>1. CASE UNCHANGED <<new_fd, lost>>
      BY <3>1
    <3>2. CASE \E f \in Fds : /\ new_fd' = [new_fd EXCEPT ![w] = f]
                             /\ lost' = (lost \/ AboutToClear(f))
      BY <3>2
    <3>3. QED
      BY <1>6, <3>1, <3>2 DEF Accept, FreeFds
  <2>5. QED
    BY <1>6, <2>1, <2>2, <2>3, <2>4 DEF Accept
<1>7. ASSUME NEW w \in Workers,
             RecvMessage(w) \/ RecvEnd(w) \/ RecvFails(w) \/ Dispatch(w)
      PROVE TypeOK'
  <2>1. step' \in [Workers -> Steps]
    BY <1>7, GotoType DEF RecvMessage, RecvEnd, RecvFails, Dispatch, Steps
  <2>2. running[w] \in Jobs /\ running[w].fd \in Fds
    BY <1>7, AtJob, JobShape DEF RecvMessage, RecvEnd, RecvFails, Dispatch, At
  <2>3. CASE RecvMessage(w)
    <3>1. PICK c \in Clients : c = fdConn[running[w].fd] /\ inbox[c] # <<>>
      BY <2>2, <2>3 DEF RecvMessage
    <3>2. Head(inbox[c]) \in Messages /\ inbox' \in [Clients -> Seq(Messages)]
      BY <2>3, <3>1, HeadTail DEF RecvMessage, Received
    <3>3. [run |-> "new_protocol_handler", fd |-> running[w].fd,
           p |-> Head(inbox[c])] \in Jobs
      BY <2>2, <3>2 DEF Jobs
    <3>4. Pool!PoolTypeOK'
      BY <2>3, <3>1, <3>3, PoolType DEF RecvMessage
    <3>5. QED
      BY <2>1, <2>3, <3>2, <3>4 DEF RecvMessage
  <2>4. CASE RecvEnd(w)
    BY <2>1, <2>2, <2>4, CloseType, PoolType DEF RecvEnd
  <2>5. CASE RecvFails(w)
    <3>1. peer' \in [Clients -> PeerStates]
      BY <2>2, <2>5 DEF RecvFails, PeerStates
    <3>2. QED
      BY <2>1, <2>5, <3>1, PoolType DEF RecvFails
  <2>6. CASE Dispatch(w)
    <3>1. NextJob(running[w]) \in Jobs
      BY <2>2, <2>6 DEF Dispatch, At, Jobs, NextJob
    <3>2. Pool!PoolTypeOK'
      BY <2>6, <3>1, PoolType DEF Dispatch
    <3>3. QED
      BY <2>1, <2>6, <3>2 DEF Dispatch
  <2>7. QED
    BY <1>7, <2>3, <2>4, <2>5, <2>6
<1>8. ASSUME NEW w \in Workers,
             \/ Register(w) \/ Release(w) \/ CloseClient(w) \/ ChangeStatus(w)
             \/ UserInfo(w) \/ ListUsers(w) \/ AnswerList(w) \/ Deliver(w)
      PROVE TypeOK'
  <2>1. step' \in [Workers -> Steps]
    BY <1>8, GotoType DEF Register, Release, CloseClient, ChangeStatus,
       UserInfo, ListUsers, AnswerList, Deliver, Steps
  <2>2. /\ running[w] \in Jobs /\ running[w].fd \in Fds
        /\ running[w].p \in Messages
    BY <1>8, AtJob, JobShape DEF Register, Release, CloseClient, ChangeStatus,
       UserInfo, ListUsers, AnswerList, Deliver, At, Switch, PhaseInv, Carries
  <2>3. Pool!PoolTypeOK'
    BY <1>8, PoolType DEF Register, Release, CloseClient, ChangeStatus,
       UserInfo, ListUsers, AnswerList, Deliver
  <2>4. PICK u \in Users, s \in {"0", "1"}, c \in Clients :
          /\ u = running[w].p.user /\ s = running[w].p.status
          /\ c = running[w].p.from
    BY <2>2, MessageShape
  <2>5. CASE Register(w)
    <3>1. client_map' \in [Users -> [fd : Fds, status : {"0", "1"},
                                      from : Clients] \cup {NoEntry}]
      <4>1. [fd |-> running[w].fd, status |-> s, from |-> c]
              \in [fd : Fds, status : {"0", "1"}, from : Clients]
        BY <2>2
      <4>2. client_map' \in {client_map, [client_map EXCEPT ![u] =
                        [fd |-> running[w].fd, status |-> s, from |-> c]]}
        BY <2>4, <2>5 DEF Register
      <4>3. QED
        BY <4>1, <4>2
    <3>2. CASE MayRegister(running[w].p.user)
      BY <2>1, <2>3, <2>5, <3>1, <3>2 DEF Register
    <3>3. CASE ~MayRegister(running[w].p.user)
      <4>1. Write(running[w].fd, Answer(running[w].p, "01"))
        BY <2>5, <3>3 DEF Register
      <4>2. QED
        BY <2>1, <2>2, <2>3, <2>5, <3>1, <4>1, WriteType, AnswerShape
           DEF Register
    <3>4. QED
      BY <3>2, <3>3
  <2>6. CASE Release(w)
    BY <2>1, <2>2, <2>3, <2>4, <2>6 DEF Release, Removed
  <2>7. CASE CloseClient(w)
    BY <2>1, <2>2, <2>3, <2>7, CloseType DEF CloseClient
  <2>8. CASE ChangeStatus(w)
    <3>1. client_map' \in [Users -> [fd : Fds, status : {"0", "1"},
                                      from : Clients] \cup {NoEntry}]
      <4>1. CASE client_map[u] = NoEntry
        BY <2>4, <2>8, <4>1 DEF ChangeStatus
      <4>2. CASE client_map[u] # NoEntry
        <5>1. client_map' = [client_map EXCEPT ![u].status = s]
          BY <2>4, <2>8, <4>2 DEF ChangeStatus
        <5>2. client_map[u] \in [fd : Fds, status : {"0", "1"}, from : Clients]
          BY <4>2
        <5>3. [client_map[u] EXCEPT !.status = s]
                \in [fd : Fds, status : {"0", "1"}, from : Clients]
          BY <5>2
        <5>4. client_map' = [client_map EXCEPT ![u] =
                               [client_map[u] EXCEPT !.status = s]]
          BY <5>1
        <5>5. QED
          BY <5>3, <5>4
      <4>3. QED
        BY <4>1, <4>2
    <3>2. QED
      BY <2>1, <2>3, <2>8, <3>1 DEF ChangeStatus
  <2>9. CASE UserInfo(w)
    <3>1. CASE client_map[u] = NoEntry
      BY <2>1, <2>3, <2>4, <2>9, <3>1 DEF UserInfo
    <3>2. CASE client_map[u] # NoEntry
      <4>1. client_map[u].status \in {"0", "1"}
        BY <3>2
      <4>2. StatusAnswer(running[w].p, client_map[u].status) \in Answers
        BY <2>2, <4>1, AnswerShape
      <4>3. Write(running[w].fd,
                  StatusAnswer(running[w].p, client_map[u].status))
        BY <2>4, <2>9, <3>2 DEF UserInfo
      <4>4. QED
        BY <2>1, <2>2, <2>3, <2>9, <4>2, <4>3, WriteType DEF UserInfo
    <3>3. QED
      BY <3>1, <3>2
  <2>10. CASE ListUsers(w)
    BY <2>1, <2>3, <2>10 DEF ListUsers
  <2>11. CASE AnswerList(w)
    <3>1. ListAnswer(running[w].p, clients_list[w]) \in Answers
      BY <2>2, AnswerShape
    <3>2. QED
      BY <2>1, <2>2, <2>3, <2>11, <3>1, WriteType DEF AnswerList
  <2>12. CASE Deliver(w)
    <3>1. CASE client_map[u] = NoEntry
      BY <2>1, <2>3, <2>4, <2>12, <3>1 DEF Deliver
    <3>2. CASE client_map[u] # NoEntry
      <4>1. client_map[u].fd \in Fds
        BY <3>2
      <4>2. Write(client_map[u].fd, Answer(running[w].p, "08"))
        BY <2>4, <2>12, <3>2 DEF Deliver
      <4>3. QED
        BY <2>1, <2>2, <2>3, <2>12, <4>1, <4>2, WriteType, AnswerShape
           DEF Deliver
    <3>3. QED
      BY <3>1, <3>2
  <2>13. QED
    BY <1>8, <2>5, <2>6, <2>7, <2>8, <2>9, <2>10, <2>11, <2>12
<1>9. ASSUME NEW c \in Clients, Connect(c) \/ Die(c) PROVE TypeOK'
  <2>1. peer' \in [Clients -> PeerStates]
    BY <1>9 DEF Connect, Die, PeerStates
  <2>2. backlog' \in Seq(Clients)
    <3>1. backlog' \in {backlog, Append(backlog, c)}
      BY <1>9 DEF Connect, Die
    <3>2. Append(backlog, c) \in Seq(Clients)
      BY AppendProperties
    <3>3. QED
      BY <3>1, <3>2
  <2>3. QED
    BY <1>9, <2>1, <2>2, PoolType DEF Connect, Die
<1>10. ASSUME NEW c \in Clients, Send(c) PROVE TypeOK'
  <2>1. sent[c] + 1 \in Numbers /\ sent' = [sent EXCEPT ![c] = @ + 1]
    <3>1. /\ sent[c] \in Nat /\ MaxSent[c] \in Nat /\ sent[c] < MaxSent[c]
          /\ sent' = [sent EXCEPT ![c] = @ + 1]
      BY <1>10 DEF Send, Numbers
    <3>2. sent[c] + 1 \in 1..MaxSent[c]
      BY <3>1
    <3>3. QED
      BY <3>1, <3>2 DEF Numbers
  <2>2. sent' \in [Clients -> Numbers \cup {0}]
    BY <2>1
  <2>3. inbox' \in [Clients -> Seq(Messages)]
    BY <1>10, AppendProperties DEF Send
  <2>4. peer' \in [Clients -> PeerStates]
    BY <1>10 DEF Send, PeerStates
  <2>5. QED
    BY <1>10, <2>2, <2>3, <2>4, PoolType DEF Send
<1>11. CASE UNCHANGED vars
  BY <1>11, PoolType DEF vars
<1>12. QED
  BY NextCases, <1>1, <1>2, <1>3, <1>4, <1>5, <1>6, <1>7, <1>8, <1>9, <1>10,
     <1>11 DEF Works

-----------------------------------------------------------------------------
(* The steps as the pool and the jobs see them.                            *)

(* A job that has something to do goes on, and may add the job that        *)
(* carries its message further as the last thing it does.                  *)
Follows(w, j) ==
  /\ Carries(j) /\ j.fd = running[w].fd
  /\ running[w].run # "new_connection_handler"
  /\ \/ RecvMessage(w) /\ j.p = Head(inbox[fdConn[j.fd]])
     \/ Dispatch(w) /\ Carries(running[w]) /\ j.p = running[w].p

GoesOn(w) ==
  /\ w \in Busy /\ running' = running
  /\ main \in {"scan", "wait"}
  /\ \E s \in Steps \ {"idle", "begin"} :
       /\ step' = [step EXCEPT ![w] = s]
       /\ \/ queue' = queue
          \/ /\ s = "return"
             /\ \E j \in Jobs : Follows(w, j) /\ queue' = Append(queue, j)

(* While a worker runs a job main() scans or waits: select() is not called *)
(* before thpool_wait() has returned.                                      *)
LEMMA BusyMain ==
  ASSUME TypeOK, PhaseInv, NEW w \in Workers, step[w] # "idle", ~Ended
  PROVE  main \in {"scan", "wait"}
BY DEF TypeOK, PhaseInv, Ended, Pool!Idle, Pool!NothingRuns

(* What a worker does between the start and the end of a job is such a     *)
(* step: only RecvMessage and Dispatch add a job, and return then.         *)
LEMMA WorksGoesOn ==
  ASSUME TypeOK, PhaseInv, NEW w \in Workers, Works(w)
  PROVE  GoesOn(w)
<1>1. CASE   \/ ReadMaster(w) \/ ClearMaster(w) \/ Accept(w) \/ SetMaster(w)
             \/ SetFdmax(w) \/ RecvEnd(w) \/ RecvFails(w)
             \/ Register(w) \/ Release(w) \/ CloseClient(w) \/ ChangeStatus(w)
             \/ UserInfo(w) \/ ListUsers(w) \/ AnswerList(w) \/ Deliver(w)
  <2>1. w \in Busy /\ ~Ended /\ UNCHANGED <<queue, running>>
    BY <1>1 DEF ReadMaster, ClearMaster, Accept, SetMaster, SetFdmax, RecvEnd,
       RecvFails, Register, Release, CloseClient, ChangeStatus, UserInfo,
       ListUsers, AnswerList, Deliver, Busy, Goto, At, Switch
  <2>2. \E s \in Steps \ {"idle", "begin"} : step' = [step EXCEPT ![w] = s]
    BY <1>1 DEF ReadMaster, ClearMaster, Accept, SetMaster, SetFdmax, RecvEnd,
       RecvFails, Register, Release, CloseClient, ChangeStatus, UserInfo,
       ListUsers, AnswerList, Deliver, Goto, Steps
  <2>3. QED
    BY <2>1, <2>2, BusyMain DEF GoesOn, Busy
<1>2. CASE RecvMessage(w)
  <2>1. /\ w \in Busy /\ ~Ended /\ running' = running
        /\ step' = [step EXCEPT ![w] = "return"]
        /\ step[w] = "begin" /\ running[w].run = "new_message_handler"
    BY <1>2 DEF RecvMessage, Busy, Goto, At, Pool!SubmitByJob
  <2>2. running[w] \in Jobs /\ running[w].fd \in Fds
    BY <2>1, AtJob, JobShape
  <2>3. PICK c \in Clients : c = fdConn[running[w].fd] /\ inbox[c] # <<>>
    BY <1>2, <2>2 DEF RecvMessage, TypeOK
  <2>4. Head(inbox[c]) \in Messages
    BY <2>3, HeadTail DEF TypeOK
  <2> DEFINE j == [run |-> "new_protocol_handler", fd |-> running[w].fd,
                   p |-> Head(inbox[c])]
  <2>5. j \in Jobs /\ Follows(w, j)
    BY <1>2, <2>1, <2>2, <2>3, <2>4 DEF Jobs, Carries, Follows
  <2>6. queue' = Append(queue, j)
    BY <1>2, <2>3 DEF RecvMessage, Pool!SubmitByJob
  <2> HIDE DEF j
  <2>7. QED
    BY <2>1, <2>5, <2>6, BusyMain DEF GoesOn, Steps
<1>3. CASE Dispatch(w)
  <2>1. /\ w \in Busy /\ ~Ended /\ running' = running
        /\ step' = [step EXCEPT ![w] = "return"]
        /\ step[w] = "begin" /\ running[w].run = "new_protocol_handler"
    BY <1>3 DEF Dispatch, Busy, Goto, At, Pool!SubmitByJob
  <2>2. running[w] \in Jobs
    BY <2>1, AtJob
  <2>3. NextJob(running[w]) \in Jobs /\ Follows(w, NextJob(running[w]))
    BY <1>3, <2>1, <2>2 DEF Jobs, Carries, NextJob, Follows
  <2>4. queue' = queue \/ queue' = Append(queue, NextJob(running[w]))
    BY <1>3 DEF Dispatch, Pool!SubmitByJob
  <2>5. QED
    BY <2>1, <2>3, <2>4, BusyMain DEF GoesOn, Steps
<1>4. QED
  BY <1>1, <1>2, <1>3 DEF Works

(* All that happens to the queue and to the jobs that run.                 *)
LEMMA JobsStep ==
  ASSUME TypeOK, PhaseInv, [Next]_vars
  PROVE  \/ UNCHANGED <<queue, running, step>>
         \/ Scan
         \/ \E w \in Workers :
              StartJob(w) \/ EndJob(w) \/ (Works(w) /\ GoesOn(w))
<1>1. CASE Select \/ SelectFails \/ WaitCall \/ WaitReturns \/ UNCHANGED vars
  BY <1>1 DEF Select, SelectFails, WaitCall, WaitReturns, Pool!Wait,
     Pool!WaitReturns, vars
<1>2. ASSUME NEW c \in Clients, Connect(c) \/ Send(c) \/ Die(c)
      PROVE UNCHANGED <<queue, running, step>>
  BY <1>2 DEF Connect, Send, Die
<1>3. ASSUME NEW w \in Workers, Works(w) PROVE GoesOn(w)
  BY <1>3, WorksGoesOn
<1>4. QED
  BY NextCases, <1>1, <1>2, <1>3

-----------------------------------------------------------------------------
(* The conjuncts of the invariant, one by one.                             *)

(* main(), the pool and the steps of the jobs keep agreeing.               *)
LEMMA PhaseStep ==
  ASSUME TypeOK, PhaseInv, [Next]_vars
  PROVE  PhaseInv'
<1> USE DEF PhaseInv, Accepting
<1>1. CASE Select \/ SelectFails \/ WaitCall \/ WaitReturns \/ UNCHANGED vars
  BY <1>1 DEF Select, SelectFails, WaitCall, WaitReturns, Pool!Wait,
     Pool!WaitReturns, vars, Pool!Idle, Pool!NothingRuns
<1>2. ASSUME NEW c \in Clients, Connect(c) \/ Send(c) \/ Die(c) PROVE PhaseInv'
  BY <1>2 DEF Connect, Send, Die, Pool!Idle, Pool!NothingRuns
<1>3. CASE Scan
  BY <1>3 DEF Scan, Pool!SubmitByCaller
<1>4. ASSUME NEW w \in Workers, StartJob(w) PROVE PhaseInv'
  <2>1. main \in {"scan", "wait"}
    BY <1>4 DEF StartJob, Pool!Start, Pool!Idle, Goto, Ended, TypeOK
  <2>2. Head(queue) \in Jobs
    BY <1>4, HeadTail DEF StartJob, Pool!Start, TypeOK, Pool!PoolTypeOK
  <2>3. /\ running' = [running EXCEPT ![w] = Head(queue)]
        /\ step' = [step EXCEPT ![w] = "begin"]
        /\ UNCHANGED <<main, caller, new_fd>>
    BY <1>4 DEF StartJob, Pool!Start, Goto
  <2>4. QED
    BY <2>1, <2>2, <2>3 DEF TypeOK, Pool!PoolTypeOK
<1>5. ASSUME NEW w \in Workers, EndJob(w) PROVE PhaseInv'
  <2>1. main \in {"scan", "wait"}
    BY <1>5, BusyMain DEF EndJob, Goto
  <2>2. /\ running' = [running EXCEPT ![w] = NoJob]
        /\ step' = [step EXCEPT ![w] = "idle"]
        /\ new_fd' = [new_fd EXCEPT ![w] = 0]
        /\ UNCHANGED <<main, caller>>
    BY <1>5 DEF EndJob, Pool!Finish, Goto
  <2>3. QED
    BY <2>1, <2>2 DEF TypeOK, Pool!PoolTypeOK
<1>6. ASSUME NEW w \in Workers,
             \/ ReadMaster(w) \/ ClearMaster(w) \/ Accept(w) \/ SetMaster(w)
             \/ SetFdmax(w) \/ RecvMessage(w) \/ RecvEnd(w) \/ RecvFails(w)
             \/ Dispatch(w)
             \/ Register(w) \/ Release(w) \/ CloseClient(w) \/ ChangeStatus(w)
             \/ UserInfo(w) \/ ListUsers(w) \/ AnswerList(w) \/ Deliver(w)
      PROVE PhaseInv'
  <2>1. step[w] \notin {"idle", "return"} /\ ~Ended
    BY <1>6 DEF ReadMaster, ClearMaster, Accept, SetMaster, SetFdmax,
       RecvMessage, RecvEnd, RecvFails, Dispatch, Register, Release,
       CloseClient, ChangeStatus, UserInfo, ListUsers, AnswerList, Deliver,
       Goto, At, Switch
  <2>2. main \in {"scan", "wait"}
    BY <2>1, BusyMain
  <2>3. UNCHANGED <<running, caller>> /\ main' \in {main, "killed"}
    BY <1>6 DEF ReadMaster, ClearMaster, Accept, SetMaster, SetFdmax,
       RecvMessage, RecvEnd, RecvFails, Dispatch, Register, Release,
       CloseClient, ChangeStatus, UserInfo, ListUsers, AnswerList, Deliver,
       Pool!SubmitByJob, Write
  <2>4. \A v \in Workers \ {w} : new_fd'[v] = new_fd[v] /\ step'[v] = step[v]
    BY <1>6 DEF ReadMaster, ClearMaster, Accept, SetMaster, SetFdmax,
       RecvMessage, RecvEnd, RecvFails, Dispatch, Register, Release,
       CloseClient, ChangeStatus, UserInfo, ListUsers, AnswerList, Deliver,
       Goto, TypeOK
  <2>5. /\ step'[w] # "idle"
        /\ step'[w] \in {"set", "add", "fdmax"} =>
             /\ running[w].run = "new_connection_handler"
             /\ new_fd'[w] \in Fds
        /\ step'[w] \in {"close", "write"} =>
             running[w].run = "switch_protocol_handler"
        /\ step'[w] \in {"clear", "remove"} =>
             running[w].run \in {"new_message_handler",
                                 "switch_protocol_handler"}
    <3>1. CASE ReadMaster(w) \/ ClearMaster(w) \/ SetMaster(w) \/ SetFdmax(w)
      BY <3>1 DEF ReadMaster, ClearMaster, SetMaster, SetFdmax, Goto, TypeOK
    <3>2. CASE Accept(w)
      BY <3>2 DEF Accept, Goto, TypeOK, At, FreeFds
    <3>3. CASE \/ RecvMessage(w) \/ RecvEnd(w) \/ RecvFails(w) \/ Dispatch(w)
               \/ Register(w) \/ Release(w) \/ CloseClient(w) \/ ChangeStatus(w)
               \/ UserInfo(w) \/ ListUsers(w) \/ AnswerList(w) \/ Deliver(w)
      BY <3>3 DEF RecvMessage, RecvEnd, RecvFails, Dispatch, Register, Release,
         CloseClient, ChangeStatus, UserInfo, ListUsers, AnswerList, Deliver,
         Goto, TypeOK, At, Switch
    <3>4. QED
      BY <1>6, <3>1, <3>2, <3>3
  <2>6. QED
    BY <2>1, <2>2, <2>3, <2>4, <2>5 DEF TypeOK
<1>7. QED
  BY NextCases, <1>1, <1>2, <1>3, <1>4, <1>5, <1>6 DEF Works

(* Scan adds a job about a descriptor no other job is about.               *)
LEMMA ScanEffect ==
  ASSUME TypeOK, Scan
  PROVE  \E f \in readfds, j \in Jobs :
           /\ i <= f /\ f <= fdmax /\ f \in Nat /\ i' = f + 1 /\ Subject(j) = f
           /\ \A g \in Unscanned : f <= g
           /\ ~Carries(j)
           /\ j.run = "new_connection_handler" <=> f = listener
           /\ j.run = "new_message_handler" <=> f # listener
           /\ queue' = Append(queue, j)
           /\ UNCHANGED <<running, caller, main, sets, map, step, locals,
                          world>>
<1>1. PICK f \in Unscanned :
        /\ \A g \in Unscanned : f <= g
        /\ i' = f + 1
        /\ Pool!SubmitByCaller(IF f = listener
              THEN [run |-> "new_connection_handler"]
              ELSE [run |-> "new_message_handler", fd |-> f])
  BY DEF Scan
<1>2. f \in Fds \cup {listener} /\ f \in readfds /\ i <= f /\ f <= fdmax
  BY DEF Unscanned, TypeOK
<1> DEFINE j == IF f = listener
                  THEN [run |-> "new_connection_handler"]
                  ELSE [run |-> "new_message_handler", fd |-> f]
<1>3. j \in Jobs /\ Subject(j) = f /\ ~Carries(j)
  BY <1>2 DEF Jobs, Subject, Carries
<1>4. /\ j.run = "new_connection_handler" <=> f = listener
      /\ j.run = "new_message_handler" <=> f # listener
  OBVIOUS
<1>5. queue' = Append(queue, j) /\ UNCHANGED <<running, caller>>
  BY <1>1 DEF Pool!SubmitByCaller
<1> HIDE DEF j
<1>6. QED
  BY <1>1, <1>2, <1>3, <1>4, <1>5, FdsFacts DEF Scan

(* What Append() does to a sequence, element by element.                   *)
LEMMA Indices ==
  ASSUME NEW S, NEW q \in Seq(S), NEW x \in S
  PROVE  /\ Append(q, x) \in Seq(S)
         /\ Len(q) \in Nat /\ DOMAIN q = 1..Len(q)
         /\ DOMAIN Append(q, x) = 1..(Len(q) + 1)
         /\ Append(q, x)[Len(q) + 1] = x
         /\ \A k \in 1..Len(q) : Append(q, x)[k] = q[k]
BY AppendProperties, LenProperties

(* A worker that starts a job takes it from the front of the queue and     *)
(* becomes busy.                                                           *)
LEMMA StartEffect ==
  ASSUME TypeOK, PhaseInv, NEW w \in Workers, StartJob(w)
  PROVE  /\ w \notin Busy /\ Busy' = Busy \cup {w}
         /\ Len(queue) \in Nat \ {0} /\ DOMAIN queue = 1..Len(queue)
         /\ DOMAIN queue' = 1..(Len(queue) - 1)
         /\ \A k \in DOMAIN queue' : queue'[k] = queue[k + 1]
         /\ running'[w] = queue[1] /\ step'[w] = "begin"
         /\ \A v \in Workers \ {w} : /\ running'[v] = running[v]
                                     /\ step'[v] = step[v]
         /\ UNCHANGED <<caller, main, i, sets, map, locals, world>>
<1>1. queue # <<>> /\ running[w] = NoJob /\ queue' = Tail(queue)
      /\ running' = [running EXCEPT ![w] = Head(queue)]
      /\ step' = [step EXCEPT ![w] = "begin"]
      /\ UNCHANGED <<caller, main, i, sets, map, locals, world>>
  BY DEF StartJob, Pool!Start, Goto
<1>2. /\ Len(queue) \in Nat \ {0} /\ DOMAIN queue = 1..Len(queue)
      /\ DOMAIN queue' = 1..(Len(queue) - 1)
      /\ \A k \in DOMAIN queue' : queue'[k] = queue[k + 1]
      /\ Head(queue) = queue[1]
  BY <1>1, HeadTail DEF TypeOK, Pool!PoolTypeOK
<1>3. step[w] = "idle"
  BY <1>1 DEF PhaseInv
<1>4. QED
  BY <1>1, <1>2, <1>3 DEF TypeOK, Pool!PoolTypeOK, Busy

(* A worker that ends a job was not busy any more.                         *)
LEMMA EndEffect ==
  ASSUME TypeOK, NEW w \in Workers, EndJob(w)
  PROVE  /\ w \notin Busy /\ Busy' = Busy /\ queue' = queue
         /\ step[w] = "return" /\ step'[w] = "idle"
         /\ \A v \in Workers \ {w} : /\ running'[v] = running[v]
                                     /\ step'[v] = step[v]
                                     /\ new_fd'[v] = new_fd[v]
         /\ UNCHANGED <<caller, main, i, sets, map, world>>
BY DEF EndJob, Pool!Finish, Goto, TypeOK, Pool!PoolTypeOK, Busy

(* A job is added with the subject of the job that adds it, or, by main(), *)
(* with one that no job has.                                               *)
LEMMA ApartStep ==
  ASSUME TypeOK, PhaseInv, ApartInv, ScanInv, [Next]_vars
  PROVE  ApartInv'
<1> USE DEF ApartInv
<1>0. queue \in Seq(Jobs) /\ Len(queue) \in Nat /\ DOMAIN queue = 1..Len(queue)
  BY LenProperties DEF TypeOK, Pool!PoolTypeOK
<1>1. CASE UNCHANGED <<queue, running, step>>
  BY <1>1 DEF Busy, Subject
<1>2. CASE Scan
  <2>1. PICK f \in readfds, j \in Jobs :
           /\ i <= f /\ f \in Nat /\ Subject(j) = f
           /\ queue' = Append(queue, j)
           /\ UNCHANGED <<running, caller, main, sets, map, step, locals,
                          world>>
    BY <1>2, ScanEffect
  <2>2. \A x \in Pending : Subject(x) # f
    <3>1. SUFFICES ASSUME NEW x \in Pending PROVE Subject(x) < i
      BY <2>1 DEF TypeOK
    <3>2. QED
      BY <1>2, <3>1 DEF ScanInv, Scan
  <2>3. /\ \A k \in DOMAIN queue : Subject(queue[k]) # f
        /\ \A v \in Busy : Subject(running[v]) # f
    BY <2>2 DEF Pending
  <2>4. /\ DOMAIN queue' = 1..(Len(queue) + 1) /\ queue'[Len(queue) + 1] = j
        /\ \A k \in 1..Len(queue) : queue'[k] = queue[k]
    BY <1>0, <2>1, Indices
  <2>5. Busy' = Busy /\ running' = running
    BY <2>1 DEF Busy
  <2>6. \A k \in DOMAIN queue' : k \in DOMAIN queue \/ k = Len(queue) + 1
    BY <1>0, <2>4
  <2>7. QED
    BY <1>0, <2>1, <2>3, <2>4, <2>5, <2>6 DEF Subject
<1>3. ASSUME NEW w \in Workers, StartJob(w) PROVE ApartInv'
  <2>1. /\ 1 \in DOMAIN queue /\ running'[w] = queue[1]
        /\ \A k \in DOMAIN queue' : /\ k \in Nat /\ k # 0
                                    /\ k + 1 \in DOMAIN queue
                                    /\ queue'[k] = queue[k + 1]
    BY <1>3, StartEffect
  <2>2. /\ Busy' = Busy \cup {w}
        /\ \A v \in Busy : running'[v] = running[v] /\ v # w
    BY <1>3, StartEffect DEF Busy
  <2>3. ASSUME NEW k \in DOMAIN queue', NEW l \in DOMAIN queue',
               Subject(queue'[k]) = Subject(queue'[l])
        PROVE  k = l
    <3>1. k + 1 = l + 1
      BY <2>1, <2>3
    <3>2. QED
      BY <2>1, <3>1
  <2>4. ASSUME NEW k \in DOMAIN queue'
        PROVE  Subject(queue'[k]) # Subject(queue[1])
    <3>1. k + 1 # 1
      BY <2>1
    <3>2. QED
      BY <2>1, <3>1
  <2>5. QED
    BY <2>1, <2>2, <2>3, <2>4 DEF Subject
<1>4. ASSUME NEW w \in Workers, EndJob(w) PROVE ApartInv'
  <2>1. \A v \in Busy : v \in Busy' /\ running'[v] = running[v]
    BY <1>4, EndEffect DEF Busy
  <2>2. QED
    BY <1>4, <2>1, EndEffect DEF Subject
<1>5. ASSUME NEW w \in Workers, GoesOn(w) PROVE ApartInv'
  <2>1. Busy' \subseteq Busy /\ running' = running
    BY <1>5 DEF GoesOn, Busy, TypeOK
  <2>2. CASE queue' = queue
    BY <2>1, <2>2 DEF Subject
  <2>3. CASE queue' # queue
    <3>1. PICK j \in Jobs :
            /\ Carries(j) /\ j.fd = running[w].fd
            /\ running[w].run # "new_connection_handler"
            /\ queue' = Append(queue, j)
            /\ step' = [step EXCEPT ![w] = "return"]
      BY <1>5, <2>3 DEF GoesOn, Follows
    <3>2. Subject(j) = Subject(running[w])
      BY <3>1 DEF Subject, Carries
    <3>3. w \in Busy /\ w \notin Busy'
      BY <1>5, <3>1 DEF GoesOn, Busy, TypeOK
    <3>4. /\ DOMAIN queue' = 1..(Len(queue) + 1) /\ queue'[Len(queue) + 1] = j
          /\ \A k \in 1..Len(queue) : queue'[k] = queue[k]
      BY <1>0, <3>1, Indices
    <3>5. \A k \in DOMAIN queue' : k \in DOMAIN queue \/ k = Len(queue) + 1
      BY <1>0, <3>4
    <3>6. /\ \A k \in DOMAIN queue : Subject(queue[k]) # Subject(j)
          /\ \A v \in Busy' : Subject(running[v]) # Subject(j)
      BY <2>1, <3>2, <3>3
    <3>7. QED
      BY <1>0, <2>1, <3>4, <3>5, <3>6 DEF Subject
  <2>4. QED
    BY <2>2, <2>3
<1>6. QED
  BY JobsStep, <1>1, <1>2, <1>3, <1>4, <1>5

-----------------------------------------------------------------------------
(* What a step does to the jobs that have something to do.                 *)

(* Jobs that have something to do are jobs, queued or executing.           *)
LEMMA PendingJobs ==
  ASSUME TypeOK, PhaseInv
  PROVE  /\ Pending \subseteq Jobs
         /\ \A k \in DOMAIN queue : queue[k] \in Pending
         /\ \A w \in Busy : w \in Workers /\ running[w] \in Pending
<1>1. ASSUME NEW w \in Busy PROVE w \in Workers /\ running[w] \in Jobs
  BY AtJob DEF Busy
<1>2. ASSUME NEW k \in DOMAIN queue PROVE queue[k] \in Jobs
  BY LenProperties, ElementOfSeq DEF TypeOK, Pool!PoolTypeOK
<1>3. QED
  BY <1>1, <1>2 DEF Pending

(* main() adds one job.                                                    *)
LEMMA PendingAdd ==
  ASSUME TypeOK, NEW j \in Jobs, queue' = Append(queue, j),
         UNCHANGED <<running, step>>
  PROVE  Pending' = Pending \cup {j}
<1>1. queue \in Seq(Jobs)
  BY DEF TypeOK, Pool!PoolTypeOK
<1>2. /\ Len(queue) \in Nat /\ DOMAIN queue = 1..Len(queue)
      /\ DOMAIN queue' = 1..(Len(queue) + 1) /\ queue'[Len(queue) + 1] = j
      /\ \A k \in 1..Len(queue) : queue'[k] = queue[k]
  BY <1>1, Indices
<1>3. {queue'[k] : k \in DOMAIN queue'}
        = {queue[k] : k \in DOMAIN queue} \cup {j}
  BY <1>2
<1>4. QED
  BY <1>3 DEF Pending, Busy

(* Starting a job makes no other.                                          *)
LEMMA PendingStart ==
  ASSUME TypeOK, PhaseInv, NEW w \in Workers, StartJob(w)
  PROVE  Pending' \subseteq Pending
<1>1. ASSUME NEW k \in DOMAIN queue' PROVE queue'[k] \in Pending
  BY StartEffect DEF Pending
<1>2. ASSUME NEW v \in Busy' PROVE running'[v] \in Pending
  <2>1. CASE v = w
    BY <2>1, StartEffect DEF Pending
  <2>2. CASE v # w
    BY <2>2, StartEffect DEF Pending, Busy
  <2>3. QED
    BY <2>1, <2>2
<1>3. QED
  BY <1>1, <1>2 DEF Pending

(* Neither does ending one.                                                *)
LEMMA PendingEnd ==
  ASSUME TypeOK, NEW w \in Workers, EndJob(w)
  PROVE  Pending' \subseteq Pending
<1>1. ASSUME NEW v \in Busy' PROVE running'[v] \in Pending
  BY EndEffect DEF Pending, Busy
<1>2. QED
  BY <1>1, EndEffect DEF Pending

(* A job that goes on adds at most the job that takes its place.           *)
LEMMA PendingOn ==
  ASSUME TypeOK, PhaseInv, NEW w \in Workers, GoesOn(w)
  PROVE  /\ queue' = queue => Pending' \subseteq Pending
         /\ queue' # queue =>
              \E j \in Jobs : /\ queue' = Append(queue, j) /\ Follows(w, j)
                              /\ step'[w] = "return"
                              /\ Subject(j) = Subject(running[w])
                              /\ Pending' \subseteq Pending \cup {j}
<1>1. Busy' \subseteq Busy /\ running' = running
  BY DEF GoesOn, Busy, TypeOK
<1>2. queue' = queue => Pending' \subseteq Pending
  BY <1>1 DEF Pending
<1>3. ASSUME queue' # queue
      PROVE  \E j \in Jobs : /\ queue' = Append(queue, j) /\ Follows(w, j)
                             /\ step'[w] = "return"
                             /\ Subject(j) = Subject(running[w])
                             /\ Pending' \subseteq Pending \cup {j}
  <2>1. PICK j \in Jobs :
            /\ Follows(w, j)
            /\ queue' = Append(queue, j)
            /\ step' = [step EXCEPT ![w] = "return"]
    BY <1>3 DEF GoesOn
  <2>2. Subject(j) = Subject(running[w])
    BY <2>1 DEF Subject, Carries, Follows
  <2>3. queue \in Seq(Jobs)
    BY DEF TypeOK, Pool!PoolTypeOK
  <2>4. /\ Len(queue) \in Nat /\ DOMAIN queue = 1..Len(queue)
        /\ DOMAIN queue' = 1..(Len(queue) + 1) /\ queue'[Len(queue) + 1] = j
        /\ \A k \in 1..Len(queue) : queue'[k] = queue[k]
    BY <2>1, <2>3, Indices
  <2>5. {queue'[k] : k \in DOMAIN queue'}
          = {queue[k] : k \in DOMAIN queue} \cup {j}
    BY <2>4
  <2>6. Pending' \subseteq Pending \cup {j}
    BY <1>1, <2>5 DEF Pending
  <2>7. step'[w] = "return"
    BY <2>1 DEF TypeOK
  <2>8. QED
    BY <2>1, <2>2, <2>6, <2>7
<1>4. QED
  BY <1>2, <1>3

(* A job that returns leaves no other job about its descriptor behind.     *)
LEMMA PendingGone ==
  ASSUME TypeOK, PhaseInv, ApartInv, NEW w \in Workers, GoesOn(w),
         queue' = queue, step'[w] = "return"
  PROVE  \A x \in Pending' : x \in Pending /\ Subject(x) # Subject(running[w])
<1>1. Busy' = Busy \ {w} /\ running' = running /\ w \in Busy
  BY DEF GoesOn, Busy, TypeOK
<1>2. QED
  BY <1>1 DEF Pending, ApartInv

(* Two jobs with one descriptor are one job.                               *)
LEMMA PendingOne ==
  ASSUME ApartInv, NEW x \in Pending, NEW y \in Pending, Subject(x) = Subject(y)
  PROVE  x = y
BY DEF ApartInv, Pending

-----------------------------------------------------------------------------
(* What a step does to the sockets.                                        *)

(* A write leaves the descriptors, the backlog and the sockets alone; a    *)
(* client that has connected, or gone, stays so.                           *)
LEMMA WritePeers ==
  ASSUME TypeOK, NEW fd \in Fds, NEW m, Write(fd, m)
  PROVE  /\ \A c \in Clients : peer[c] # "none" => peer'[c] # "none"
         /\ \A c \in Clients : peer[c] \notin {"none", "open"} =>
                                 peer'[c] \notin {"none", "open"}
         /\ UNCHANGED <<fdConn, backlog, inbox>>
BY DEF Write, TypeOK

(* A close empties the socket of its own descriptor only; a client that    *)
(* has connected, or gone, stays so.                                       *)
LEMMA ClosePeers ==
  ASSUME TypeOK, NEW fd \in Fds, Close(fd)
  PROVE  /\ \A c \in Clients : peer[c] # "none" => peer'[c] # "none"
         /\ \A c \in Clients : peer[c] \notin {"none", "open"} =>
                                 peer'[c] \notin {"none", "open"}
         /\ \A c \in Clients : c # fdConn[fd] => inbox'[c] = inbox[c]
         /\ fdConn' = [fdConn EXCEPT ![fd] = NoConn]
         /\ backlog' = backlog
BY DEF Close, TypeOK

(* The job that carries out a message has a descriptor and a message.      *)
LEMMA SwitchShape ==
  ASSUME TypeOK, PhaseInv, NEW w \in Workers,
         running[w].run = "switch_protocol_handler", step[w] # "idle"
  PROVE  /\ running[w] \in Jobs /\ running[w].fd \in Fds
         /\ running[w].p \in Messages /\ Carries(running[w])
         /\ running[w].p.from \in Clients /\ running[w].p.user \in Users
BY AtJob, JobShape, MessageShape DEF Carries

(* What a step does to the other ends and the sockets: a client that has   *)
(* connected or gone stays so, and only accept(), recv(), the two closes   *)
(* and a new client change a descriptor, the backlog or empty a socket.    *)
LEMMA WorldStep ==
  ASSUME TypeOK, PhaseInv, [Next]_vars
  PROVE  /\ \A c \in Clients : peer[c] # "none" => peer'[c] # "none"
         /\ \A c \in Clients : peer[c] \notin {"none", "open"} =>
                                 peer'[c] \notin {"none", "open"}
         /\ \/ /\ UNCHANGED <<fdConn, backlog>>
               /\ \A c \in Clients : inbox[c] # <<>> => inbox'[c] # <<>>
            \/ \E w \in Workers : Accept(w) \/ RecvMessage(w) \/ RecvEnd(w)
                                  \/ CloseClient(w)
            \/ \E c \in Clients : Connect(c)
<1> DEFINE P == /\ \A c \in Clients : peer[c] # "none" => peer'[c] # "none"
                /\ \A c \in Clients : peer[c] \notin {"none", "open"} =>
                                 peer'[c] \notin {"none", "open"}
           Q == /\ UNCHANGED <<fdConn, backlog>>
                /\ \A c \in Clients : inbox[c] # <<>> => inbox'[c] # <<>>
<1>1. CASE Select \/ SelectFails \/ Scan \/ WaitCall \/ WaitReturns
           \/ UNCHANGED vars
  BY <1>1 DEF Select, SelectFails, Scan, WaitCall, WaitReturns, vars
<1>2. ASSUME NEW c \in Clients, Connect(c) PROVE P
  BY <1>2 DEF Connect, TypeOK
<1>3. ASSUME NEW c \in Clients, Die(c) PROVE P /\ Q
  BY <1>3 DEF Die, TypeOK
<1>4. ASSUME NEW c \in Clients, Send(c) PROVE P /\ Q
  <2>1. P
    BY <1>4 DEF Send, TypeOK
  <2>2. UNCHANGED <<fdConn, backlog>>
    BY <1>4 DEF Send
  <2>3. PICK m \in Messages : inbox' = [inbox EXCEPT ![c] = Append(@, m)]
    BY <1>4 DEF Send
  <2>4. inbox'[c] # <<>>
    <3>1. inbox[c] \in Seq(Messages)
      BY DEF TypeOK
    <3>2. Append(inbox[c], m) # <<>>
      BY <3>1, AppendProperties
    <3>3. QED
      BY <2>3, <3>2 DEF TypeOK
  <2>5. \A d \in Clients \ {c} : inbox'[d] = inbox[d]
    BY <2>3 DEF TypeOK
  <2>6. QED
    BY <2>1, <2>2, <2>4, <2>5
<1>5. ASSUME NEW w \in Workers,
             \/ StartJob(w) \/ EndJob(w) \/ ReadMaster(w) \/ ClearMaster(w)
             \/ SetMaster(w) \/ SetFdmax(w) \/ Dispatch(w) \/ Release(w)
             \/ ChangeStatus(w) \/ ListUsers(w)
      PROVE  P /\ Q
  BY <1>5 DEF StartJob, EndJob, ReadMaster, ClearMaster, SetMaster, SetFdmax,
     Dispatch, Release, ChangeStatus, ListUsers
<1>6. ASSUME NEW w \in Workers, Accept(w) PROVE P
  BY <1>6 DEF Accept
<1>7. ASSUME NEW w \in Workers, RecvMessage(w) PROVE P
  BY <1>7 DEF RecvMessage
<1>8. ASSUME NEW w \in Workers, RecvFails(w) PROVE P /\ Q
  BY <1>8 DEF RecvFails, TypeOK
<1>9. ASSUME NEW w \in Workers, RecvEnd(w) \/ CloseClient(w) PROVE P
  <2>1. running[w].fd \in Fds
    BY <1>9, AtJob, JobShape DEF RecvEnd, CloseClient, At, PhaseInv
  <2>2. QED
    BY <1>9, <2>1, ClosePeers DEF RecvEnd, CloseClient
<1>10. ASSUME NEW w \in Workers,
              Register(w) \/ UserInfo(w) \/ AnswerList(w) \/ Deliver(w)
       PROVE  P /\ Q
  <2>1. running[w].fd \in Fds /\ running[w].p.user \in Users
    BY <1>10, SwitchShape DEF Register, UserInfo, AnswerList, Deliver, Switch,
       At, PhaseInv
  <2>2. \/ UNCHANGED <<fdConn, backlog, peer, inbox>>
        \/ \E fd \in Fds : \E m : Write(fd, m)
    BY <1>10, <2>1 DEF Register, UserInfo, AnswerList, Deliver, TypeOK
  <2>3. QED
    BY <2>2, WritePeers
<1>11. QED
  BY NextCases, <1>1, <1>2, <1>3, <1>4, <1>5, <1>6, <1>7, <1>8, <1>9, <1>10
     DEF Works

(* accept() moves a connection from the backlog to a free descriptor and a *)
(* client connects once: a connection stays in one place.                  *)
LEMMA ConnStep ==
  ASSUME TypeOK, PhaseInv, ConnInv, [Next]_vars
  PROVE  ConnInv'
<1> USE DEF ConnInv
<1>0. /\ \A c \in Clients : peer[c] # "none" => peer'[c] # "none"
      /\ NoConn \notin Clients
      /\ backlog \in Seq(Clients) /\ Len(backlog) \in Nat
      /\ DOMAIN backlog = 1..Len(backlog)
      /\ \A k \in DOMAIN backlog : backlog[k] \in Clients
      /\ \A f \in Fds : fdConn[f] \in Clients \cup {NoConn}
  BY WorldStep, LenProperties, ElementOfSeq DEF TypeOK
<1>1. CASE UNCHANGED <<fdConn, backlog>>
  BY <1>0, <1>1
<1>2. ASSUME NEW w \in Workers, Accept(w) PROVE ConnInv'
  <2>1. CASE UNCHANGED <<fdConn, backlog>>
    BY <1>0, <2>1
  <2>2. ASSUME NEW f \in Fds, fdConn[f] = NoConn, backlog # <<>>,
               fdConn' = [fdConn EXCEPT ![f] = Head(backlog)],
               backlog' = Tail(backlog)
        PROVE  ConnInv'
    <3>1. /\ Head(backlog) = backlog[1] /\ 1 \in DOMAIN backlog
          /\ \A k \in DOMAIN backlog' : /\ k \in Nat /\ k # 0
                                        /\ k + 1 \in DOMAIN backlog
                                        /\ backlog'[k] = backlog[k + 1]
      BY <1>0, <2>2, HeadTail
    <3>2. /\ fdConn'[f] = backlog[1]
          /\ \A g \in Fds \ {f} : fdConn'[g] = fdConn[g]
      BY <2>2, <3>1 DEF TypeOK
    <3>3. ASSUME NEW k \in DOMAIN backlog', NEW l \in DOMAIN backlog',
                 backlog'[k] = backlog'[l]
          PROVE  k = l
      <4>1. k + 1 = l + 1
        BY <3>1, <3>3
      <4>2. QED
        BY <3>1, <4>1
    <3>4. ASSUME NEW k \in DOMAIN backlog' PROVE backlog'[k] # backlog[1]
      <4>1. k + 1 # 1
        BY <3>1
      <4>2. QED
        BY <3>1, <4>1
    <3>5. ASSUME NEW g \in Fds, NEW h \in Fds, fdConn'[g] = fdConn'[h]
          PROVE  g = h \/ fdConn'[g] = NoConn
      BY <3>1, <3>2, <3>5
    <3>6. ASSUME NEW g \in Fds, NEW k \in DOMAIN backlog'
          PROVE  fdConn'[g] # backlog'[k]
      BY <1>0, <3>1, <3>2, <3>4
    <3>7. ASSUME NEW g \in Fds, fdConn'[g] # NoConn
          PROVE  peer'[fdConn'[g]] # "none"
      BY <1>0, <3>1, <3>2, <3>7
    <3>8. ASSUME NEW k \in DOMAIN backlog' PROVE peer'[backlog'[k]] # "none"
      BY <1>0, <3>1
    <3>9. QED
      BY <3>3, <3>5, <3>6, <3>7, <3>8
  <2>3. QED
    BY <1>2, <2>1, <2>2 DEF Accept, FreeFds
<1>3. ASSUME NEW w \in Workers, RecvEnd(w) \/ CloseClient(w) PROVE ConnInv'
  <2>1. running[w].fd \in Fds
    BY <1>3, AtJob, JobShape DEF RecvEnd, CloseClient, At, PhaseInv
  <2>2. /\ fdConn' = [fdConn EXCEPT ![running[w].fd] = NoConn]
        /\ backlog' = backlog
    BY <1>3, <2>1, ClosePeers DEF RecvEnd, CloseClient
  <2>3. \A f \in Fds : fdConn'[f] \in {fdConn[f], NoConn}
    BY <2>1, <2>2 DEF TypeOK
  <2>4. QED
    BY <1>0, <2>2, <2>3
<1>4. ASSUME NEW w \in Workers, RecvMessage(w) PROVE ConnInv'
  BY <1>0, <1>1, <1>4 DEF RecvMessage
<1>5. ASSUME NEW c \in Clients, Connect(c) PROVE ConnInv'
  <2>1. /\ backlog' = Append(backlog, c) /\ fdConn' = fdConn
        /\ peer[c] = "none" /\ peer'[c] # "none"
    BY <1>5 DEF Connect, TypeOK
  <2>2. /\ DOMAIN backlog' = 1..(Len(backlog) + 1)
        /\ backlog'[Len(backlog) + 1] = c
        /\ \A k \in 1..Len(backlog) : backlog'[k] = backlog[k]
    BY <1>0, <2>1, Indices
  <2>3. \A k \in DOMAIN backlog' : k \in DOMAIN backlog \/ k = Len(backlog) + 1
    BY <1>0, <2>2
  <2>4. \A k \in DOMAIN backlog : backlog[k] # c
    BY <2>1
  <2>5. \A f \in Fds : fdConn[f] # c
    BY <1>0, <2>1
  <2>6. ASSUME NEW k \in DOMAIN backlog', NEW l \in DOMAIN backlog',
               backlog'[k] = backlog'[l]
        PROVE  k = l
    BY <1>0, <2>2, <2>3, <2>4, <2>6
  <2>7. ASSUME NEW g \in Fds, NEW k \in DOMAIN backlog'
        PROVE  fdConn'[g] # backlog'[k]
    BY <1>0, <2>1, <2>2, <2>3, <2>5
  <2>8. ASSUME NEW k \in DOMAIN backlog' PROVE peer'[backlog'[k]] # "none"
    BY <1>0, <2>1, <2>2, <2>3
  <2>9. QED
    BY <1>0, <2>1, <2>6, <2>7, <2>8
<1>6. QED
  BY WorldStep, <1>1, <1>2, <1>3, <1>4, <1>5

(* What select() reported of f stays so until a job about f runs.          *)
LEMMA StaysReadable ==
  ASSUME TypeOK, PhaseInv, ConnInv, [Next]_vars,
         NEW f \in Fds \cup {listener}, Open(f), Readable(f),
         \A w \in Busy : GoesOn(w) => Subject(running[w]) # f
  PROVE  Open(f)' /\ Readable(f)'
<1> USE DEF Open, Readable
<1>0. /\ f # listener => f \in Fds /\ fdConn[f] \in Clients
      /\ f = listener => f \notin Fds
  BY FdsFacts DEF TypeOK
<1>1. CASE /\ UNCHANGED <<fdConn, backlog>>
           /\ \A c \in Clients : inbox[c] # <<>> => inbox'[c] # <<>>
  <2>1. CASE f = listener
    BY <1>1, <2>1
  <2>2. CASE f # listener
    <3>1. fdConn'[f] = fdConn[f] /\ peer[fdConn[f]] # "none"
      BY <1>0, <1>1, <2>2 DEF ConnInv
    <3>2. QED
      BY <1>0, <1>1, <2>2, <3>1, WorldStep
  <2>3. QED
    BY <2>1, <2>2
<1>2. ASSUME NEW w \in Workers, Accept(w) PROVE Open(f)' /\ Readable(f)'
  <2>1. Works(w) /\ w \in Busy /\ Subject(running[w]) = listener
    BY <1>2 DEF Works, Busy, Accept, At, Subject
  <2>2. f # listener
    BY <2>1, WorksGoesOn
  <2>3. fdConn'[f] = fdConn[f] /\ UNCHANGED <<peer, inbox>>
    BY <1>0, <1>2, <2>2 DEF Accept, FreeFds, TypeOK
  <2>4. QED
    BY <2>2, <2>3
<1>3. ASSUME NEW w \in Workers, RecvMessage(w) \/ RecvEnd(w) \/ CloseClient(w)
      PROVE  Open(f)' /\ Readable(f)'
  <2>1. Works(w) /\ w \in Busy /\ Subject(running[w]) = running[w].fd
    BY <1>3 DEF Works, Busy, RecvMessage, RecvEnd, CloseClient, At, Subject,
       PhaseInv
  <2>2. f # running[w].fd
    BY <2>1, WorksGoesOn
  <2>3. running[w].fd \in Fds
    BY <1>3, AtJob, JobShape DEF RecvMessage, RecvEnd, CloseClient, At, PhaseInv
  <2>4. CASE f = listener
    BY <1>3, <2>3, <2>4, ClosePeers DEF RecvMessage, RecvEnd, CloseClient
  <2>5. CASE f # listener
    <3>1. fdConn[f] # fdConn[running[w].fd] /\ peer[fdConn[f]] # "none"
      BY <1>0, <2>2, <2>3, <2>5 DEF ConnInv
    <3>2. fdConn'[f] = fdConn[f]
      BY <1>0, <1>3, <2>2, <2>3, <2>5, ClosePeers
         DEF RecvMessage, RecvEnd, CloseClient, TypeOK
    <3>3. inbox'[fdConn[f]] = inbox[fdConn[f]]
      BY <1>0, <1>3, <2>3, <2>5, <3>1, ClosePeers
         DEF RecvMessage, Received, RecvEnd, CloseClient, TypeOK
    <3>4. QED
      BY <1>0, <2>5, <3>1, <3>2, <3>3, WorldStep
  <2>6. QED
    BY <2>4, <2>5
<1>4. ASSUME NEW c \in Clients, Connect(c) PROVE Open(f)' /\ Readable(f)'
  <2>1. backlog' = Append(backlog, c) /\ UNCHANGED <<fdConn, inbox>>
    BY <1>4 DEF Connect
  <2>2. CASE f = listener
    <3>1. backlog' # <<>>
      <4>1. backlog \in Seq(Clients)
        BY DEF TypeOK
      <4>2. Append(backlog, c) # <<>>
        BY <4>1, AppendProperties
      <4>3. QED
        BY <2>1, <4>2
    <3>2. QED
      BY <2>2, <3>1
  <2>3. CASE f # listener
    <3>1. fdConn'[f] = fdConn[f] /\ peer[fdConn[f]] # "none"
      BY <1>0, <2>1, <2>3 DEF ConnInv
    <3>2. QED
      BY <1>0, <2>1, <2>3, <3>1, WorldStep
  <2>4. QED
    BY <2>2, <2>3
<1>5. QED
  BY WorldStep, <1>1, <1>2, <1>3, <1>4

(* A worker takes a free descriptor when it accepts, and keeps it.         *)
LEMMA AcceptingStep ==
  ASSUME TypeOK, PhaseInv, [Next]_vars, NEW w \in Accepting'
  PROVE  /\ w \in Workers
         /\ \/ w \in Accepting /\ new_fd'[w] = new_fd[w]
            \/ /\ Accept(w) /\ w \in Busy
               /\ new_fd'[w] \in Fds
               /\ fdConn[new_fd'[w]] = NoConn /\ fdConn'[new_fd'[w]] # NoConn
<1>0. w \in Workers /\ step'[w] \in {"set", "add", "fdmax"}
  BY DEF Accepting
<1>1. CASE Select \/ SelectFails \/ WaitCall \/ WaitReturns \/ UNCHANGED vars
           \/ Scan
  BY <1>0, <1>1 DEF Select, SelectFails, WaitCall, WaitReturns, Scan, vars,
     Accepting
<1>2. CASE \E c \in Clients : Connect(c) \/ Send(c) \/ Die(c)
  BY <1>0, <1>2 DEF Connect, Send, Die, Accepting
<1>3. ASSUME NEW v \in Workers, StartJob(v) \/ EndJob(v)
      PROVE  w \in Accepting /\ new_fd'[w] = new_fd[w]
  BY <1>0, <1>3, StartEffect, EndEffect DEF Accepting
<1>4. ASSUME NEW v \in Workers, Works(v), ~Accept(v)
      PROVE  w \in Accepting /\ new_fd'[w] = new_fd[w]
  BY <1>0, <1>4 DEF Works, ReadMaster, ClearMaster, SetMaster,
     SetFdmax, RecvMessage, RecvEnd, RecvFails, Dispatch, Register, Release,
     CloseClient, ChangeStatus, UserInfo, ListUsers, AnswerList, Deliver,
     Goto, TypeOK, Accepting
<1>5. ASSUME NEW v \in Workers, v # w, Accept(v)
      PROVE  w \in Accepting /\ new_fd'[w] = new_fd[w]
  BY <1>0, <1>5 DEF Accept, Goto, TypeOK, Accepting
<1>6. CASE Accept(w)
  <2>1. PICK f \in Fds :
          /\ fdConn[f] = NoConn /\ backlog # <<>>
          /\ fdConn' = [fdConn EXCEPT ![f] = Head(backlog)]
          /\ new_fd' = [new_fd EXCEPT ![w] = f]
    BY <1>0, <1>6 DEF Accept, FreeFds, Goto, TypeOK
  <2>2. Head(backlog) \in Clients
    BY <2>1, HeadTail DEF TypeOK
  <2>3. w \in Busy
    BY <1>0, <1>6 DEF Accept, At, Busy
  <2>4. QED
    BY <1>0, <1>6, <2>1, <2>2, <2>3 DEF TypeOK
<1>7. QED
  BY NextCases, <1>0, <1>1, <1>2, <1>3, <1>4, <1>5, <1>6

(* Only the two closes free a descriptor, and each its own.                *)
LEMMA FdStep ==
  ASSUME TypeOK, PhaseInv, [Next]_vars, NEW f \in Fds, fdConn[f] # NoConn
  PROVE  \/ fdConn'[f] = fdConn[f]
         \/ \E v \in Busy : /\ RecvEnd(v) \/ CloseClient(v)
                            /\ running[v].fd = f /\ Subject(running[v]) = f
                            /\ GoesOn(v)
<1>1. ASSUME NEW w \in Workers, Accept(w) PROVE fdConn'[f] = fdConn[f]
  BY <1>1 DEF Accept, FreeFds, TypeOK
<1>2. ASSUME NEW w \in Workers, RecvMessage(w) PROVE fdConn'[f] = fdConn[f]
  BY <1>2 DEF RecvMessage
<1>3. ASSUME NEW w \in Workers, RecvEnd(w) \/ CloseClient(w)
      PROVE  /\ w \in Busy /\ GoesOn(w) /\ Subject(running[w]) = running[w].fd
             /\ f # running[w].fd => fdConn'[f] = fdConn[f]
  <2>1. Works(w) /\ w \in Busy /\ Subject(running[w]) = running[w].fd
    BY <1>3 DEF Works, Busy, RecvEnd, CloseClient, At, Subject, PhaseInv
  <2>2. running[w].fd \in Fds
    BY <1>3, AtJob, JobShape DEF RecvEnd, CloseClient, At, PhaseInv
  <2>3. fdConn' = [fdConn EXCEPT ![running[w].fd] = NoConn]
    BY <1>3, <2>2, ClosePeers DEF RecvEnd, CloseClient
  <2>4. GoesOn(w)
    BY <2>1, WorksGoesOn
  <2>5. QED
    BY <2>1, <2>2, <2>3, <2>4 DEF TypeOK
<1>4. ASSUME NEW c \in Clients, Connect(c) PROVE fdConn'[f] = fdConn[f]
  BY <1>4 DEF Connect
<1>5. QED
  BY WorldStep, <1>1, <1>2, <1>3, <1>4

(* A job that has something to do is about an open descriptor, unless it   *)
(* closed it and has yet to clear it.                                      *)
LEMMA JobOpen ==
  ASSUME TypeOK, PhaseInv, ReadyInv, OwnInv, NEW f \in Fds
  PROVE  /\ \A k \in DOMAIN queue : Subject(queue[k]) = f => fdConn[f] # NoConn
         /\ \A v \in Busy : Subject(running[v]) = f =>
              fdConn[f] # NoConn \/ v \in Clearing(f)
<1>1. ASSUME NEW j \in Pending, Subject(j) = f, Carries(j)
      PROVE  fdConn[f] # NoConn
  <2>1. j \in Jobs /\ j.p \in Messages /\ j.p.from \in Clients /\ j.fd = f
    BY <1>1, PendingJobs, JobShape, MessageShape DEF Carries, Subject
  <2>2. QED
    BY <1>1, <2>1 DEF OwnInv
<1>2. ASSUME NEW j \in Jobs, Subject(j) = f
      PROVE  Carries(j) \/ (j.run = "new_message_handler" /\ j.fd = f)
  BY <1>2, JobShape, FdsFacts DEF Carries, Subject
<1>3. ASSUME NEW k \in DOMAIN queue, Subject(queue[k]) = f
      PROVE  fdConn[f] # NoConn
  <2>1. queue[k] \in Pending /\ queue[k] \in Jobs
    BY PendingJobs
  <2>2. CASE queue[k].run = "new_message_handler"
    BY <1>2, <1>3, <2>1, <2>2, FdsFacts DEF ReadyInv, Ready, Open, Carries
  <2>3. QED
    BY <1>1, <1>2, <1>3, <2>1, <2>2
<1>4. ASSUME NEW v \in Busy, Subject(running[v]) = f,
             running[v].run = "new_message_handler"
      PROVE  fdConn[f] # NoConn \/ v \in Clearing(f)
  <2>1. v \in Workers /\ running[v] \in Jobs /\ running[v].fd = f
    BY <1>2, <1>4, PendingJobs DEF Carries
  <2>2. CASE step[v] = "begin"
    BY <1>4, <2>1, <2>2, FdsFacts DEF ReadyInv, Ready, Open
  <2>3. CASE step[v] # "begin"
    <3>1. step[v] \in {"clear", "remove"}
      BY <1>4, <2>1, <2>3 DEF Busy, TypeOK, Steps, PhaseInv, Accepting
    <3>2. running[v] = [run |-> "new_message_handler", fd |-> f]
      BY <1>4, <2>1, JobShape
    <3>3. QED
      BY <2>1, <3>1, <3>2 DEF Clearing
  <2>4. QED
    BY <2>2, <2>3
<1>5. QED
  BY <1>1, <1>2, <1>3, <1>4, PendingJobs

(* A descriptor that is being accepted was free, so no job was about it,   *)
(* but for one that has yet to clear it: the others are about open         *)
(* descriptors (JobOpen). main() adds none: those it has yet to scan are   *)
(* open.                                                                   *)
LEMMA AcceptStep ==
  ASSUME TypeOK, PhaseInv, ApartInv, AcceptInv, ScanInv, ReadyInv, OwnInv,
         [Next]_vars
  PROVE  AcceptInv'
<1> SUFFICES ASSUME NEW w \in Accepting', NEW f, f = new_fd'[w]
             PROVE  /\ fdConn'[f] # NoConn
                    /\ \A k \in DOMAIN queue' : Subject(queue'[k]) # f
                    /\ \A v \in Busy' : Subject(running'[v]) = f =>
                         v \in Clearing(f)'
  <2>1. ASSUME NEW w \in Accepting'
        PROVE  /\ fdConn'[new_fd'[w]] # NoConn
               /\ \A k \in DOMAIN queue' : Subject(queue'[k]) # new_fd'[w]
               /\ \A v \in Busy' : Subject(running'[v]) = new_fd'[w] =>
                    /\ v \in Workers /\ step'[v] \in {"clear", "remove"}
                    /\ running'[v] = [run |-> "new_message_handler",
                                      fd |-> new_fd'[w]]
    <3>1. PICK f : f = new_fd'[w]
      OBVIOUS
    <3>2. QED
      BY <3>1 DEF Clearing
  <2>2. QED
    BY <2>1 DEF AcceptInv, Subject, Clearing
<1>1. /\ f \in Fds /\ w \in Workers
      /\ \/ w \in Accepting /\ f = new_fd[w]
         \/ Accept(w) /\ w \in Busy /\ fdConn[f] = NoConn /\ fdConn'[f] # NoConn
  BY AcceptingStep DEF PhaseInv
<1>2. /\ \A k \in DOMAIN queue : Subject(queue[k]) # f
      /\ \A v \in Busy : Subject(running[v]) = f => v \in Clearing(f)
  BY <1>1, JobOpen DEF AcceptInv
<1>3. fdConn'[f] # NoConn
  <2>1. CASE fdConn[f] = NoConn
    BY <1>1, <2>1 DEF AcceptInv
  <2>2. CASE fdConn[f] # NoConn
    <3>1. \A v \in Busy : (RecvEnd(v) \/ CloseClient(v)) => v \notin Clearing(f)
      BY DEF RecvEnd, CloseClient, At, Clearing
    <3>2. QED
      BY <1>1, <1>2, <2>2, <3>1, FdStep
  <2>3. QED
    BY <2>1, <2>2
<1>4. ASSUME NEW k \in DOMAIN queue' PROVE Subject(queue'[k]) # f
  <2>1. CASE UNCHANGED <<queue, running, step>>
    BY <1>2, <2>1
  <2>2. CASE Scan
    <3>1. PICK g \in readfds, j \in Jobs :
           /\ i <= g /\ Subject(j) = g
           /\ queue' = Append(queue, j)
      BY <2>2, ScanEffect
    <3>2. ~Accept(w) /\ main = "scan"
      BY <2>2 DEF Scan, Accept, Goto, TypeOK, At, Pool!SubmitByCaller
    <3>3. g # f
      BY <1>1, <3>1, <3>2 DEF ScanInv, TypeOK
    <3>4. queue \in Seq(Jobs)
      BY DEF TypeOK, Pool!PoolTypeOK
    <3>5. (k \in DOMAIN queue /\ queue'[k] = queue[k]) \/ queue'[k] = j
      BY <3>1, <3>4, Indices
    <3>6. QED
      BY <1>2, <3>1, <3>3, <3>5
  <2>3. ASSUME NEW v \in Workers, StartJob(v) PROVE Subject(queue'[k]) # f
    BY <1>2, <2>3, StartEffect
  <2>4. ASSUME NEW v \in Workers, EndJob(v) PROVE Subject(queue'[k]) # f
    BY <1>2, <2>4, EndEffect
  <2>5. ASSUME NEW v \in Workers, GoesOn(v) PROVE Subject(queue'[k]) # f
    <3>1. CASE queue' = queue
      BY <1>2, <3>1
    <3>2. CASE queue' # queue
      <4>1. PICK j \in Jobs : /\ queue' = Append(queue, j) /\ Follows(v, j)
                              /\ Subject(j) = Subject(running[v])
        BY <2>5, <3>2, PendingOn
      <4>2. v \in Busy /\ v \notin Clearing(f)
        BY <2>5, <4>1 DEF GoesOn, Follows, RecvMessage, Dispatch, At, Clearing
      <4>3. queue \in Seq(Jobs)
        BY DEF TypeOK, Pool!PoolTypeOK
      <4>4. (k \in DOMAIN queue /\ queue'[k] = queue[k]) \/ queue'[k] = j
        BY <4>1, <4>3, Indices
      <4>5. QED
        BY <1>2, <4>1, <4>2, <4>4
    <3>3. QED
      BY <3>1, <3>2
  <2>6. QED
    BY JobsStep, <2>1, <2>2, <2>3, <2>4, <2>5
<1>5. ASSUME NEW v \in Busy', Subject(running'[v]) = f PROVE v \in Clearing(f)'
  <2>1. CASE UNCHANGED <<queue, running, step>>
    BY <1>2, <1>5, <2>1 DEF Busy, Clearing
  <2>2. CASE Scan
    BY <1>2, <1>5, <2>2, ScanEffect DEF Busy, Clearing
  <2>3. ASSUME NEW u \in Workers, StartJob(u) PROVE v \in Clearing(f)'
    <3>1. v # u
      BY <1>2, <1>5, <2>3, StartEffect
    <3>2. v \in Busy /\ running'[v] = running[v] /\ step'[v] = step[v]
      BY <1>5, <2>3, <3>1, StartEffect DEF Busy
    <3>3. QED
      BY <1>2, <1>5, <3>2 DEF Clearing
  <2>4. ASSUME NEW u \in Workers, EndJob(u) PROVE v \in Clearing(f)'
    <3>1. v \in Busy /\ running'[v] = running[v] /\ step'[v] = step[v]
      BY <1>5, <2>4, EndEffect DEF Busy
    <3>2. QED
      BY <1>2, <1>5, <3>1 DEF Clearing
  <2>5. ASSUME NEW u \in Workers, Works(u), GoesOn(u) PROVE v \in Clearing(f)'
    <3>1. v \in Busy /\ running' = running /\ (u # v => step'[v] = step[v])
      BY <1>5, <2>5 DEF GoesOn, Busy, TypeOK
    <3>2. v \in Clearing(f)
      BY <1>2, <1>5, <3>1
    <3>3. CASE u = v
      <4>1. /\ step[v] \in {"clear", "remove"}
            /\ running[v].run = "new_message_handler"
        BY <3>2 DEF Clearing
      <4>2. ReadMaster(v) \/ ClearMaster(v)
        BY <2>5, <3>3, <4>1 DEF Works, Accept, SetMaster, SetFdmax, RecvMessage,
           RecvEnd, RecvFails, Dispatch, Register, Release, CloseClient,
           ChangeStatus, UserInfo, ListUsers, AnswerList, Deliver, At, Switch
      <4>3. step'[v] \in {"remove", "return"}
        BY <4>1, <4>2, <3>1 DEF ReadMaster, ClearMaster, Goto, TypeOK, Busy
      <4>4. QED
        BY <1>5, <3>1, <3>2, <4>3 DEF Busy, Clearing
    <3>4. QED
      BY <3>1, <3>2, <3>3 DEF Clearing
  <2>6. QED
    BY JobsStep, <2>1, <2>2, <2>3, <2>4, <2>5
<1>6. QED
  BY <1>3, <1>4, <1>5

(* The workers leave the loop of main() alone.                             *)
LEMMA WorkerMain ==
  ASSUME NEW w \in Workers, StartJob(w) \/ EndJob(w) \/ Works(w)
  PROVE  main' \in {main, "killed"} /\ i' = i /\ readfds' \subseteq readfds
<1>1. CASE StartJob(w) \/ EndJob(w)
  BY <1>1 DEF StartJob, EndJob
<1>2. CASE Works(w)
  <2>1. main' \in {main, "killed"} /\ i' = i
    BY <1>2 DEF Works, ReadMaster, ClearMaster, Accept, SetMaster, SetFdmax,
       RecvMessage, RecvEnd, RecvFails, Dispatch, Register, Release,
       CloseClient, ChangeStatus, UserInfo, ListUsers, AnswerList, Deliver,
       Write
  <2>2. readfds' \subseteq readfds
    BY <1>2 DEF Works, ReadMaster, ClearMaster, Accept, SetMaster, SetFdmax,
       RecvMessage, RecvEnd, RecvFails, Dispatch, Register, Release,
       CloseClient, ChangeStatus, UserInfo, ListUsers, AnswerList, Deliver
  <2>3. QED
    BY <2>1, <2>2
<1>3. QED
  BY <1>1, <1>2

(* A job that runs is about a descriptor that main() has scanned.          *)
LEMMA ScanStep ==
  ASSUME TypeOK, PhaseInv, ConnInv, AcceptInv, ScanInv, [Next]_vars
  PROVE  ScanInv'
<1> SUFFICES ASSUME main' = "scan"
             PROVE  /\ \A j \in Pending' : Subject(j) < i'
                    /\ \A f \in readfds' : f >= i' =>
                         /\ Open(f)' /\ Readable(f)'
                         /\ \A w \in Accepting' : new_fd'[w] # f
  BY DEF ScanInv, Open, Readable, Subject
<1>1. CASE main = "scan"
  <2>1. /\ \A j \in Pending : Subject(j) < i
        /\ \A f \in readfds : f >= i =>
             Open(f) /\ Readable(f) /\ \A w \in Accepting : new_fd[w] # f
    BY <1>1 DEF ScanInv
  <2>2. ~Select /\ readfds' \subseteq readfds
    <3>1. CASE \E w \in Workers : StartJob(w) \/ EndJob(w) \/ Works(w)
      BY <3>1, <1>1, WorkerMain DEF Select
    <3>2. CASE \/ Select \/ SelectFails \/ Scan \/ WaitCall \/ WaitReturns
               \/ UNCHANGED vars
               \/ \E c \in Clients : Connect(c) \/ Send(c) \/ Die(c)
      BY <3>2, <1>1 DEF Select, SelectFails, Scan, WaitCall, WaitReturns, vars,
        Connect, Send, Die
    <3>3. QED
      BY NextCases, <3>1, <3>2
  <2>3. i' = i \/ (Scan /\ i' >= i)
    <3>1. CASE \E w \in Workers : StartJob(w) \/ EndJob(w) \/ Works(w)
      BY <3>1, WorkerMain
    <3>2. CASE \/ SelectFails \/ WaitCall \/ WaitReturns \/ UNCHANGED vars
               \/ \E c \in Clients : Connect(c) \/ Send(c) \/ Die(c)
      BY <3>2 DEF SelectFails, WaitCall, WaitReturns, vars, Connect, Send, Die
    <3>3. CASE Scan
      BY <3>3, ScanEffect DEF TypeOK
    <3>4. QED
      BY NextCases, <2>2, <3>1, <3>2, <3>3
  <2>4. i \in Nat /\ i' \in Nat /\ i' >= i
    BY <2>3, TypeStep DEF TypeOK
  <2>5. ASSUME NEW j \in Pending' PROVE Subject(j) < i'
    <3>0. \A x \in Pending : Subject(x) < i'
      <4>1. \A x \in Pending : Subject(x) \in Nat
        BY PendingJobs, JobShape, FdsFacts DEF Subject
      <4>2. QED
        BY <2>1, <2>4, <4>1
    <3>1. CASE UNCHANGED <<queue, running, step>>
      BY <3>0, <3>1 DEF Pending, Busy
    <3>2. CASE Scan
      <4>1. PICK g \in readfds, x \in Jobs :
             /\ g \in Nat /\ i' = g + 1 /\ Subject(x) = g
             /\ queue' = Append(queue, x) /\ UNCHANGED <<running, step>>
        BY <3>2, ScanEffect
      <4>2. j \in Pending \/ j = x
        BY <4>1, PendingAdd
      <4>3. QED
        BY <3>0, <4>1, <4>2
    <3>3. ASSUME NEW v \in Workers, StartJob(v) \/ EndJob(v)
          PROVE  Subject(j) < i'
      BY <3>0, <3>3, PendingStart, PendingEnd
    <3>4. ASSUME NEW v \in Workers, GoesOn(v) PROVE Subject(j) < i'
      <4>1. running[v] \in Pending
        BY <3>4 DEF GoesOn, Pending
      <4>2. j \in Pending \/ Subject(j) = Subject(running[v])
        BY <3>4, PendingOn
      <4>3. QED
        BY <3>0, <4>1, <4>2
    <3>5. QED
      BY JobsStep, <3>1, <3>2, <3>3, <3>4
  <2>6. ASSUME NEW f \in readfds', f >= i'
        PROVE  /\ Open(f)' /\ Readable(f)'
               /\ \A w \in Accepting' : new_fd'[w] # f
    <3>1. f \in readfds /\ f \in Fds \cup {listener} /\ f >= i
      BY <2>2, <2>4, <2>6, FdsFacts DEF TypeOK
    <3>2. Open(f) /\ Readable(f) /\ \A w \in Accepting : new_fd[w] # f
      BY <2>1, <3>1
    <3>3. \A w \in Busy : GoesOn(w) => Subject(running[w]) # f
      <4>1. \A w \in Busy : Subject(running[w]) < i
        BY <2>1 DEF Pending
      <4>2. \A w \in Busy : Subject(running[w]) \in Nat
        BY PendingJobs, JobShape, FdsFacts DEF Subject
      <4>3. QED
        BY <2>4, <3>1, <4>1, <4>2, FdsFacts
    <3>4. Open(f)' /\ Readable(f)'
      BY <3>1, <3>2, <3>3, StaysReadable
    <3>5. ASSUME NEW w \in Accepting' PROVE new_fd'[w] # f
      BY <3>2, AcceptingStep, FdsFacts DEF Open
    <3>6. QED
      BY <3>4, <3>5
  <2>7. QED
    BY <2>5, <2>6
<1>2. CASE main # "scan"
  <2>1. Select
    <3>1. CASE \E w \in Workers : StartJob(w) \/ EndJob(w) \/ Works(w)
      BY <3>1, <1>2, WorkerMain
    <3>2. CASE \/ SelectFails \/ Scan \/ WaitCall \/ WaitReturns
               \/ UNCHANGED vars
               \/ \E c \in Clients : Connect(c) \/ Send(c) \/ Die(c)
      BY <3>2, <1>2 DEF SelectFails, Scan, WaitCall, WaitReturns, vars,
        Connect, Send, Die
    <3>3. QED
      BY NextCases, <3>1, <3>2
  <2>2. queue = <<>> /\ \A w \in Workers : step[w] = "idle"
    BY <2>1 DEF Select, PhaseInv, Pool!Idle, Pool!NothingRuns
  <2>3. Pending' = {} /\ Accepting' = {}
    BY <2>1, <2>2 DEF Select, Pending, Busy, Accepting
  <2>4. \A f \in readfds' : Open(f)' /\ Readable(f)'
    BY <2>1 DEF Select, Watched, Open, Readable
  <2>5. QED
    BY <2>3, <2>4
<1>3. QED
  BY <1>1, <1>2

(* A job waits for what select() reported of its descriptor.               *)
LEMMA ReadyStep ==
  ASSUME TypeOK, PhaseInv, ApartInv, ConnInv, ScanInv, ReadyInv, [Next]_vars
  PROVE  ReadyInv'
<1>1. ASSUME NEW j \in Jobs, Ready(j),
             \A w \in Busy : GoesOn(w) => Subject(running[w]) # Subject(j)
      PROVE  Ready(j)'
  <2>1. CASE j.run = "new_connection_handler"
    <3>1. Subject(j) = listener /\ Open(listener) /\ Readable(listener)
      BY <1>1, <2>1 DEF Subject, Ready, Open, Readable
    <3>2. Readable(listener)'
      BY <1>1, <3>1, StaysReadable
    <3>3. QED
      BY <2>1, <3>2 DEF Ready, Readable
  <2>2. CASE j.run = "new_message_handler"
    <3>1. j.fd \in Fds /\ Subject(j) = j.fd /\ Open(j.fd) /\ Readable(j.fd)
      BY <1>1, <2>2, JobShape DEF Subject, Ready
    <3>2. Open(j.fd)' /\ Readable(j.fd)'
      BY <1>1, <3>1, StaysReadable
    <3>3. QED
      BY <2>2, <3>2 DEF Ready
  <2>3. QED
    BY <2>1, <2>2 DEF Ready
<1>2. ASSUME NEW j, NEW k \in DOMAIN queue', j = queue'[k] PROVE Ready(j)'
  <2>1. ASSUME NEW l \in DOMAIN queue, j = queue[l] PROVE Ready(j)'
    <3>1. j \in Jobs /\ Ready(j)
      BY <2>1, PendingJobs DEF ReadyInv
    <3>2. QED
      BY <1>1, <2>1, <3>1 DEF ApartInv
  <2>2. CASE queue' = queue
    BY <1>2, <2>1, <2>2
  <2>3. CASE Scan
    <3>1. PICK f \in readfds, x \in Jobs :
           /\ i <= f /\ Subject(x) = f /\ queue' = Append(queue, x)
           /\ x.run = "new_connection_handler" <=> f = listener
           /\ x.run = "new_message_handler" <=> f # listener
      BY <2>3, ScanEffect
    <3>2. queue \in Seq(Jobs)
      BY DEF TypeOK, Pool!PoolTypeOK
    <3>3. (k \in DOMAIN queue /\ queue'[k] = queue[k]) \/ j = x
      BY <1>2, <3>1, <3>2, Indices
    <3>4. Open(f) /\ Readable(f)
      BY <2>3, <3>1 DEF ScanInv, Scan, TypeOK
    <3>5. Ready(x)
      BY <3>1, <3>4 DEF Ready, Subject, Readable
    <3>6. \A w \in Busy : Subject(running[w]) # Subject(x)
      <4>1. \A w \in Busy : Subject(running[w]) < i
        BY <2>3 DEF Pending, ScanInv, Scan
      <4>2. \A w \in Busy : Subject(running[w]) \in Nat
        BY PendingJobs, JobShape, FdsFacts DEF Subject
      <4>3. QED
        BY <3>1, <4>1, <4>2, FdsFacts DEF TypeOK
    <3>7. QED
      BY <1>1, <1>2, <2>1, <3>1, <3>3, <3>5, <3>6
  <2>4. ASSUME NEW w \in Workers, StartJob(w) PROVE Ready(j)'
    BY <1>2, <2>1, <2>4, StartEffect
  <2>5. ASSUME NEW w \in Workers, EndJob(w) PROVE Ready(j)'
    BY <2>2, <2>5, EndEffect
  <2>6. ASSUME NEW w \in Workers, GoesOn(w), queue' # queue PROVE Ready(j)'
    <3>1. PICK x \in Jobs : queue' = Append(queue, x) /\ Carries(x)
      BY <2>6, PendingOn DEF Follows
    <3>2. queue \in Seq(Jobs)
      BY DEF TypeOK, Pool!PoolTypeOK
    <3>3. (k \in DOMAIN queue /\ queue'[k] = queue[k]) \/ j = x
      BY <1>2, <3>1, <3>2, Indices
    <3>4. j = x => Ready(j)'
      BY <3>1 DEF Ready, Carries
    <3>5. QED
      BY <1>2, <2>1, <3>3, <3>4
  <2>7. QED
    BY JobsStep, <2>2, <2>3, <2>4, <2>5, <2>6
<1>3. ASSUME NEW j, NEW w \in Workers, step'[w] = "begin", j = running'[w]
      PROVE  Ready(j)'
  <2>1. CASE step[w] = "begin" /\ running'[w] = running[w]
    <3>1. w \in Busy /\ j \in Jobs /\ Ready(j)
      BY <1>3, <2>1, PendingJobs DEF Busy, ReadyInv
    <3>2. \A v \in Busy : GoesOn(v) => v # w
      BY <1>3 DEF GoesOn, TypeOK
    <3>3. \A v \in Busy : GoesOn(v) => Subject(running[v]) # Subject(j)
      BY <1>3, <2>1, <3>1, <3>2 DEF ApartInv
    <3>4. QED
      BY <1>1, <3>1, <3>3
  <2>2. CASE StartJob(w)
    <3>1. 1 \in DOMAIN queue /\ j = queue[1]
      BY <1>3, <2>2, StartEffect
    <3>2. j \in Jobs /\ Ready(j)
      BY <3>1, PendingJobs DEF ReadyInv
    <3>3. QED
      BY <1>1, <3>1, <3>2 DEF ApartInv
  <2>3. CASE UNCHANGED <<queue, running, step>>
    BY <1>3, <2>1, <2>3
  <2>4. CASE Scan
    BY <1>3, <2>1, <2>4, ScanEffect
  <2>5. ASSUME NEW v \in Workers, StartJob(v), v # w PROVE Ready(j)'
    BY <1>3, <2>1, <2>5, StartEffect
  <2>6. ASSUME NEW v \in Workers, EndJob(v) PROVE Ready(j)'
    BY <1>3, <2>1, <2>6, EndEffect
  <2>7. ASSUME NEW v \in Workers, GoesOn(v) PROVE Ready(j)'
    <3>1. step[w] = "begin" /\ running' = running
      BY <1>3, <2>7 DEF GoesOn, TypeOK
    <3>2. QED
      BY <2>1, <3>1
  <2>8. QED
    BY JobsStep, <2>2, <2>3, <2>4, <2>5, <2>6, <2>7
<1>4. ASSUME NEW k \in DOMAIN queue' PROVE Ready(queue[k])'
  <2>1. PICK j : j = queue'[k]
    OBVIOUS
  <2>2. Ready(j)'
    BY <1>2, <2>1
  <2>3. QED
    BY <2>1, <2>2 DEF Ready, Open, Readable
<1>5. ASSUME NEW w \in Workers, step'[w] = "begin" PROVE Ready(running[w])'
  <2>1. PICK j : j = running'[w]
    OBVIOUS
  <2>2. Ready(j)'
    BY <1>3, <1>5, <2>1
  <2>3. QED
    BY <2>1, <2>2 DEF Ready, Open, Readable
<1>6. QED
  BY <1>4, <1>5 DEF ReadyInv

(* A socket is filled by its client, and emptied by the job that receives  *)
(* from it or by a close.                                                  *)
LEMMA InboxStep ==
  ASSUME TypeOK, PhaseInv, [Next]_vars, NEW c \in Clients
  PROVE  \/ inbox'[c] = inbox[c] /\ sent'[c] = sent[c]
         \/ /\ sent'[c] = sent[c] + 1 /\ UNCHANGED <<queue, running, step>>
            /\ \E m \in Messages : /\ m.from = c /\ m.n = sent[c] + 1
                                   /\ inbox'[c] = Append(inbox[c], m)
         \/ /\ inbox[c] # <<>> /\ inbox'[c] = Tail(inbox[c])
            /\ sent'[c] = sent[c]
            /\ \E w \in Workers : RecvMessage(w) /\ fdConn[running[w].fd] = c
         \/ inbox'[c] = <<>> /\ sent'[c] = sent[c]
<1>1. CASE \/ Select \/ SelectFails \/ Scan \/ WaitCall \/ WaitReturns
           \/ UNCHANGED vars
           \/ \E d \in Clients : Connect(d) \/ Die(d)
  BY <1>1 DEF Select, SelectFails, Scan, WaitCall, WaitReturns, vars, Connect,
     Die
<1>2. ASSUME NEW d \in Clients, Send(d), d # c
      PROVE  inbox'[c] = inbox[c] /\ sent'[c] = sent[c]
  BY <1>2 DEF Send, TypeOK
<1>3. ASSUME Send(c)
      PROVE  /\ sent'[c] = sent[c] + 1 /\ UNCHANGED <<queue, running, step>>
             /\ \E m \in Messages : /\ m.from = c /\ m.n = sent[c] + 1
                                    /\ inbox'[c] = Append(inbox[c], m)
  BY <1>3 DEF Send, TypeOK
<1>4. ASSUME NEW w \in Workers,
             \/ StartJob(w) \/ EndJob(w) \/ ReadMaster(w) \/ ClearMaster(w)
             \/ Accept(w) \/ SetMaster(w) \/ SetFdmax(w) \/ RecvFails(w)
             \/ Dispatch(w) \/ Release(w) \/ ChangeStatus(w) \/ ListUsers(w)
      PROVE  inbox'[c] = inbox[c] /\ sent'[c] = sent[c]
  BY <1>4 DEF StartJob, EndJob, ReadMaster, ClearMaster, Accept, SetMaster,
     SetFdmax, RecvFails, Dispatch, Release, ChangeStatus, ListUsers
<1>5. ASSUME NEW w \in Workers,
             Register(w) \/ UserInfo(w) \/ AnswerList(w) \/ Deliver(w)
      PROVE  inbox'[c] = inbox[c] /\ sent'[c] = sent[c]
  BY <1>5 DEF Register, UserInfo, AnswerList, Deliver, Write
<1>6. ASSUME NEW w \in Workers, RecvMessage(w)
      PROVE  \/ inbox'[c] = inbox[c] /\ sent'[c] = sent[c]
             \/ /\ inbox[c] # <<>> /\ inbox'[c] = Tail(inbox[c])
                /\ sent'[c] = sent[c]
                /\ fdConn[running[w].fd] = c
  BY <1>6 DEF RecvMessage, Received, TypeOK
<1>7. ASSUME NEW w \in Workers, RecvEnd(w) \/ CloseClient(w)
      PROVE  inbox'[c] \in {inbox[c], <<>>} /\ sent'[c] = sent[c]
  BY <1>7 DEF RecvEnd, CloseClient, Close, TypeOK
<1>8. QED
  BY NextCases, <1>1, <1>2, <1>3, <1>4, <1>5, <1>6, <1>7 DEF Works

(* The jobs that carry messages after a step carried them before, or were  *)
(* just made from the first message of a socket.                           *)
LEMMA CarriedStep ==
  ASSUME TypeOK, PhaseInv, OwnInv, [Next]_vars, NEW j \in Pending', Carries(j)
  PROVE  /\ j \in Jobs
         /\ \/ /\ j \in Pending
            \/ /\ UNCHANGED <<inbox, fdConn>>
               /\ \E x \in Pending : Carries(x) /\ x.p = j.p /\ x.fd = j.fd
            \/ \E c \in Clients : /\ fdConn[j.fd] = c /\ fdConn' = fdConn
                                  /\ inbox[c] # <<>> /\ j.p = Head(inbox[c])
                                  /\ inbox' = [inbox EXCEPT ![c] = Tail(@)]
<1>1. CASE UNCHANGED <<queue, running, step>>
  BY <1>1, PendingJobs DEF Pending, Busy
<1>2. CASE Scan
  BY <1>2, ScanEffect, PendingAdd, PendingJobs
<1>3. ASSUME NEW w \in Workers, StartJob(w) \/ EndJob(w) PROVE j \in Pending
  BY <1>3, PendingStart, PendingEnd
<1>4. ASSUME NEW w \in Workers, GoesOn(w), j \notin Pending
      PROVE  /\ j \in Jobs
             /\ \/ /\ UNCHANGED <<inbox, fdConn>>
                   /\ \E x \in Pending : Carries(x) /\ x.p = j.p /\ x.fd = j.fd
                \/ \E c \in Clients : /\ fdConn[j.fd] = c /\ fdConn' = fdConn
                                      /\ inbox[c] # <<>> /\ j.p = Head(inbox[c])
                                      /\ inbox' = [inbox EXCEPT ![c] = Tail(@)]
  <2>1. Follows(w, j) /\ j \in Jobs
    BY <1>4, PendingOn
  <2>2. running[w] \in Pending /\ j.fd = running[w].fd /\ j.fd \in Fds
    BY <1>4, <2>1, PendingJobs, JobShape DEF GoesOn, Follows, Carries
  <2>3. CASE RecvMessage(w) /\ j.p = Head(inbox[fdConn[j.fd]])
    BY <2>1, <2>2, <2>3 DEF RecvMessage, Received, TypeOK
  <2>4. CASE Dispatch(w) /\ Carries(running[w]) /\ j.p = running[w].p
    BY <2>1, <2>2, <2>4 DEF Dispatch
  <2>5. QED
    BY <2>1, <2>3, <2>4 DEF Follows
<1>5. QED
  BY JobsStep, PendingJobs, <1>1, <1>2, <1>3, <1>4

(* A message moves from the socket of its sender to a job about the        *)
(* descriptor of that connection, and only the job itself can close it.    *)
LEMMA OwnStep ==
  ASSUME TypeOK, PhaseInv, ApartInv, OwnInv, [Next]_vars
  PROVE  OwnInv'
<1>1. ASSUME NEW c \in Clients, NEW k \in DOMAIN inbox'[c]
      PROVE  inbox'[c][k].from = c
  <2>1. /\ inbox[c] \in Seq(Messages)
        /\ \A l \in DOMAIN inbox[c] : inbox[c][l].from = c
    BY DEF TypeOK, OwnInv
  <2>2. CASE inbox'[c] = inbox[c]
    BY <1>1, <2>1, <2>2
  <2>3. CASE \E m \in Messages : m.from = c /\ inbox'[c] = Append(inbox[c], m)
    <3>1. PICK m \in Messages : m.from = c /\ inbox'[c] = Append(inbox[c], m)
      BY <2>3
    <3>2. \/ k \in DOMAIN inbox[c] /\ inbox'[c][k] = inbox[c][k]
          \/ inbox'[c][k] = m
      BY <1>1, <2>1, <3>1, Indices
    <3>3. QED
      BY <2>1, <3>1, <3>2
  <2>4. CASE inbox[c] # <<>> /\ inbox'[c] = Tail(inbox[c])
    <3>1. k + 1 \in DOMAIN inbox[c] /\ inbox'[c][k] = inbox[c][k + 1]
      BY <1>1, <2>1, <2>4, HeadTail
    <3>2. QED
      BY <2>1, <3>1
  <2>5. CASE inbox'[c] = <<>>
    BY <1>1, <2>5
  <2>6. QED
    BY InboxStep, <2>2, <2>3, <2>4, <2>5
<1>2. ASSUME NEW j \in Pending', Carries(j) PROVE fdConn'[j.fd] = j.p.from
  <2>1. j \in Jobs /\ j.fd \in Fds /\ j.p.from \in Clients /\ Subject(j) = j.fd
    BY <1>2, CarriedStep, JobShape, MessageShape DEF Carries, Subject
  <2>2. CASE j \in Pending
    <3>1. fdConn[j.fd] = j.p.from
      BY <1>2, <2>2 DEF OwnInv
    <3>2. ASSUME NEW v \in Busy, RecvEnd(v) \/ CloseClient(v), GoesOn(v),
                 Subject(running[v]) = j.fd
          PROVE  FALSE
      <4>1. v \in Workers /\ running[v] = j
        BY <2>1, <2>2, <3>2, PendingJobs, PendingOne
      <4>2. ~RecvEnd(v)
        BY <1>2, <4>1 DEF RecvEnd, At, Carries
      <4>3. queue' = queue /\ step'[v] = "return"
        BY <3>2, <4>1, <4>2 DEF CloseClient, Goto, TypeOK
      <4>4. QED
        BY <1>2, <3>2, <4>1, <4>3, PendingGone
    <3>3. QED
      BY <2>1, <3>1, <3>2, FdStep
  <2>3. CASE \E x \in Pending : /\ Carries(x) /\ x.p = j.p /\ x.fd = j.fd
                                /\ fdConn' = fdConn
    BY <2>3 DEF OwnInv
  <2>4. CASE \E c \in Clients : /\ fdConn[j.fd] = c /\ fdConn' = fdConn
                                /\ inbox[c] # <<>> /\ j.p = Head(inbox[c])
    <3>1. PICK c \in Clients : /\ fdConn[j.fd] = c /\ fdConn' = fdConn
                               /\ inbox[c] # <<>> /\ j.p = Head(inbox[c])
      BY <2>4
    <3>2. 1 \in DOMAIN inbox[c] /\ Head(inbox[c]) = inbox[c][1]
      BY <3>1, HeadTail DEF TypeOK
    <3>3. QED
      BY <3>1, <3>2 DEF OwnInv
  <2>5. QED
    BY <1>2, <2>2, <2>3, <2>4, CarriedStep
<1>3. QED
  BY <1>1, <1>2 DEF OwnInv, Carries

(* fdmax grows over a descriptor before the job that set it in master      *)
(* returns; no update of master drops the listener.                        *)
LEMMA FdmaxStep ==
  ASSUME TypeOK, PhaseInv, FdmaxInv, [Next]_vars
  PROVE  FdmaxInv'
<1>0. /\ fdmax \in Nat
      /\ \A f \in master : f \in Nat
      /\ \A w \in Workers : \A f \in word[w] : f \in Nat
      /\ \A w \in Accepting : new_fd[w] \in Nat
  <2>1. \A f \in Fds \cup {listener} : f \in Nat
    BY FdsFacts
  <2>2. \A w \in Workers : word[w] \subseteq Fds \cup {listener}
    BY DEF TypeOK
  <2>3. QED
    BY <2>1, <2>2 DEF TypeOK, PhaseInv
<1>1. CASE \/ Select \/ SelectFails \/ Scan \/ WaitCall \/ WaitReturns
           \/ UNCHANGED vars
           \/ \E c \in Clients : Connect(c) \/ Send(c) \/ Die(c)
  <2>1. UNCHANGED <<master, word, step, fdmax, new_fd>>
    BY <1>1 DEF Select, SelectFails, Scan, WaitCall, WaitReturns, vars,
       Connect, Send, Die
  <2>2. QED
    BY <2>1 DEF FdmaxInv, Covered
<1>2. ASSUME NEW w \in Workers, step[w] # "fdmax", fdmax' = fdmax,
             \A v \in Workers \ {w} : /\ new_fd'[v] = new_fd[v]
                                      /\ step'[v] = step[v]
      PROVE  \A f : Covered(f) => Covered(f)'
  BY <1>2 DEF Covered
<1>3. ASSUME NEW w \in Workers,
             \/ StartJob(w) \/ EndJob(w) \/ Accept(w)
             \/ RecvMessage(w) \/ RecvEnd(w) \/ RecvFails(w) \/ Dispatch(w)
             \/ Register(w) \/ Release(w) \/ CloseClient(w) \/ ChangeStatus(w)
             \/ UserInfo(w) \/ ListUsers(w) \/ AnswerList(w) \/ Deliver(w)
      PROVE  FdmaxInv'
  <2>1. /\ step[w] # "fdmax" /\ step'[w] \notin {"add", "remove"}
        /\ UNCHANGED <<master, fdmax>>
    BY <1>3, StartEffect, EndEffect DEF Accept, RecvMessage,
       RecvEnd, RecvFails, Dispatch, Register, Release, CloseClient,
       ChangeStatus, UserInfo, ListUsers, AnswerList, Deliver, At, Switch,
       Goto, TypeOK, StartJob, EndJob, Pool!Start, PhaseInv
  <2>2. \A v \in Workers \ {w} : /\ new_fd'[v] = new_fd[v]
                                 /\ step'[v] = step[v] /\ word'[v] = word[v]
    BY <1>3 DEF StartJob, EndJob, Accept, RecvMessage,
       RecvEnd, RecvFails, Dispatch, Register, Release, CloseClient,
       ChangeStatus, UserInfo, ListUsers, AnswerList, Deliver, Goto, TypeOK
  <2>3. \A f : Covered(f) => Covered(f)'
    BY <1>2, <2>1, <2>2
  <2>4. QED
    BY <2>1, <2>2, <2>3 DEF FdmaxInv
<1>4. ASSUME NEW w \in Workers, ReadMaster(w) PROVE FdmaxInv'
  <2>1. /\ step[w] # "fdmax" /\ UNCHANGED <<master, fdmax, new_fd>>
        /\ word'[w] = master
        /\ \A v \in Workers \ {w} : step'[v] = step[v] /\ word'[v] = word[v]
    BY <1>4 DEF ReadMaster, Goto, TypeOK
  <2>2. \A f : Covered(f) => Covered(f)'
    BY <1>2, <2>1
  <2>3. QED
    BY <2>1, <2>2 DEF FdmaxInv
<1>5. ASSUME NEW w \in Workers, ClearMaster(w) PROVE FdmaxInv'
  <2>1. /\ step[w] = "remove" /\ UNCHANGED <<fdmax, new_fd, word>>
        /\ master' = word[w] \ {running[w].fd}
        /\ step'[w] \notin {"add", "remove"}
        /\ \A v \in Workers \ {w} : step'[v] = step[v]
    BY <1>5 DEF ClearMaster, Cleared, Goto, TypeOK
  <2>2. running[w].fd # listener
    <3>1. running[w].run # "new_connection_handler" /\ step[w] # "idle"
      BY <2>1 DEF PhaseInv
    <3>2. QED
      BY <3>1, AtJob, JobShape, FdsFacts
  <2>3. \A f : Covered(f) => Covered(f)'
    BY <1>2, <2>1
  <2>4. QED
    BY <2>1, <2>2, <2>3 DEF FdmaxInv
<1>6. ASSUME NEW w \in Workers, SetMaster(w) PROVE FdmaxInv'
  <2>1. /\ step[w] = "add" /\ UNCHANGED <<fdmax, new_fd, word>>
        /\ master' = word[w] \cup {new_fd[w]}
        /\ step'[w] = "fdmax"
        /\ \A v \in Workers \ {w} : step'[v] = step[v]
    BY <1>6 DEF SetMaster, Goto, TypeOK
  <2>2. Covered(new_fd[w])'
    BY <2>1 DEF Covered
  <2>3. \A f : Covered(f) => Covered(f)'
    BY <1>2, <2>1
  <2>4. QED
    BY <2>1, <2>2, <2>3 DEF FdmaxInv, Covered
<1>7. ASSUME NEW w \in Workers, SetFdmax(w) PROVE FdmaxInv'
  <2>1. /\ step[w] = "fdmax" /\ UNCHANGED <<master, new_fd, word>>
        /\ fdmax' = (IF new_fd[w] > fdmax THEN new_fd[w] ELSE fdmax)
        /\ step'[w] = "return"
        /\ \A v \in Workers \ {w} : step'[v] = step[v]
    BY <1>7 DEF SetFdmax, NewMax, Goto, TypeOK
  <2>2. new_fd[w] \in Nat
    BY <1>0, <2>1 DEF Accepting
  <2>3. \A f \in Nat : Covered(f) => Covered(f)'
    BY <1>0, <2>1, <2>2 DEF Covered
  <2>4. QED
    BY <1>0, <2>1, <2>3 DEF FdmaxInv
<1>8. QED
  BY NextCases, <1>1, <1>3, <1>4, <1>5, <1>6, <1>7 DEF Works

(* master follows the connections as long as no update of it is lost.      *)
LEMMA MasterStep ==
  ASSUME TypeOK, PhaseInv, ApartInv, AcceptInv, MasterInv, [Next]_vars
  PROVE  MasterInv'
<1> SUFFICES ASSUME ~lost', NEW f \in Fds
             PROVE  /\ Clearing(f)' # {} => fdConn'[f] = NoConn
                    /\ f \in master' <=>
                         \/ Clearing(f)' # {}
                         \/ /\ fdConn'[f] # NoConn
                            /\ Setting(f)' = {} /\ Closing(f)' = {}
  BY DEF MasterInv
<1> DEFINE Goal == /\ Clearing(f)' # {} => fdConn'[f] = NoConn
                   /\ f \in master' <=>
                         \/ Clearing(f)' # {}
                         \/ /\ fdConn'[f] # NoConn
                            /\ Setting(f)' = {} /\ Closing(f)' = {}
<1>0. ASSUME ~lost
      PROVE  /\ Clearing(f) # {} => fdConn[f] = NoConn
             /\ f \in master <=>
                  \/ Clearing(f) # {}
                  \/ fdConn[f] # NoConn /\ Setting(f) = {} /\ Closing(f) = {}
  BY <1>0 DEF MasterInv
<1>1. ASSUME ~lost, f \in master' <=> f \in master, fdConn'[f] = fdConn[f],
             Clearing(f)' = Clearing(f), Setting(f)' = Setting(f),
             Closing(f)' = Closing(f)
      PROVE  Goal
  BY <1>0, <1>1
<1>2. CASE \/ Select \/ SelectFails \/ Scan \/ WaitCall \/ WaitReturns
           \/ UNCHANGED vars
           \/ \E c \in Clients : Connect(c) \/ Send(c) \/ Die(c)
  <2>1. UNCHANGED <<master, lost, step, new_fd, running, fdConn>>
    BY <1>2 DEF Select, SelectFails, Scan, WaitCall, WaitReturns, vars,
       Connect, Send, Die, Pool!SubmitByCaller, Pool!Wait, Pool!WaitReturns
  <2>2. QED
    BY <1>1, <2>1 DEF Clearing, Setting, Closing
<1>3. ASSUME NEW w \in Workers,
             \/ StartJob(w) \/ EndJob(w) \/ ReadMaster(w) \/ SetFdmax(w)
             \/ RecvMessage(w) \/ RecvFails(w) \/ Dispatch(w)
             \/ Register(w) \/ Release(w) \/ ChangeStatus(w)
             \/ UserInfo(w) \/ ListUsers(w) \/ AnswerList(w) \/ Deliver(w)
      PROVE  Goal
  <2>1. UNCHANGED <<master, lost, fdConn>>
    BY <1>3 DEF StartJob, EndJob, ReadMaster, SetFdmax, RecvMessage, RecvFails,
       Dispatch, Register, Release, ChangeStatus, UserInfo, ListUsers,
       AnswerList, Deliver, Write
  <2>2. \A v \in Workers \ {w} : /\ step'[v] = step[v]
                                 /\ running'[v] = running[v]
                                 /\ new_fd'[v] = new_fd[v]
    BY <1>3, StartEffect, EndEffect DEF ReadMaster, SetFdmax, RecvMessage,
       RecvFails, Dispatch, Register, Release, ChangeStatus, UserInfo,
       ListUsers, AnswerList, Deliver, Goto, TypeOK, Pool!SubmitByJob
  <2>3. /\ step[w] \in {"set", "add"} <=> step'[w] \in {"set", "add"}
        /\ step[w] \in {"set", "add"} => new_fd'[w] = new_fd[w]
        /\ step[w] # "close" /\ step'[w] # "close"
    <3>1. CASE StartJob(w)
      <4>1. step[w] = "idle"
        BY <3>1 DEF StartJob, Pool!Start, PhaseInv
      <4>2. QED
        BY <3>1, <4>1, StartEffect
    <3>2. CASE EndJob(w)
      BY <3>2, EndEffect
    <3>3. CASE ReadMaster(w)
      BY <3>3 DEF ReadMaster, Goto, TypeOK
    <3>4. CASE SetFdmax(w) \/ AnswerList(w)
      BY <3>4 DEF SetFdmax, AnswerList, Goto, TypeOK
    <3>5. CASE \/ RecvMessage(w) \/ RecvFails(w) \/ Dispatch(w)
               \/ Register(w) \/ Release(w) \/ ChangeStatus(w)
               \/ UserInfo(w) \/ ListUsers(w) \/ Deliver(w)
      BY <3>5 DEF RecvMessage, RecvFails, Dispatch, Register, Release,
         ChangeStatus, UserInfo, ListUsers, Deliver, Goto, TypeOK, At, Switch
    <3>6. QED
      BY <1>3, <3>1, <3>2, <3>3, <3>4, <3>5
  <2>4. w \in Clearing(f)' <=> w \in Clearing(f)
    <3>1. CASE ReadMaster(w)
      BY <3>1 DEF ReadMaster, Goto, TypeOK, Clearing
    <3>2. CASE ~ReadMaster(w)
      <4>1. step[w] \notin {"clear", "remove"}
        BY <1>3, <3>2 DEF StartJob, Pool!Start, PhaseInv, EndJob, SetFdmax,
           RecvMessage, RecvFails, Dispatch, Register, Release, ChangeStatus,
           UserInfo, ListUsers, AnswerList, Deliver, At, Switch
      <4>2. \/ step'[w] \notin {"clear", "remove"}
            \/ running'[w].run = "switch_protocol_handler"
        BY <1>3, <3>2, StartEffect, EndEffect DEF SetFdmax,
           RecvMessage, RecvFails, Dispatch, Register, Release, ChangeStatus,
           UserInfo, ListUsers, AnswerList, Deliver, At, Switch, Goto, TypeOK
      <4>3. QED
        BY <4>1, <4>2 DEF Clearing
    <3>3. QED
      BY <3>1, <3>2
  <2>5. Clearing(f)' = Clearing(f)
    BY <2>2, <2>4 DEF Clearing
  <2>6. Setting(f)' = Setting(f)
    BY <2>2, <2>3 DEF Setting
  <2>7. Closing(f)' = Closing(f)
    BY <2>2, <2>3 DEF Closing
  <2>8. QED
    BY <1>1, <2>1, <2>5, <2>6, <2>7
<1>4. ASSUME NEW w \in Workers, Accept(w) PROVE Goal
  <2>1. /\ master' = master /\ running' = running /\ ~lost
        /\ step[w] = "begin" /\ step'[w] \in {"set", "return"}
        /\ \A v \in Workers \ {w} : /\ step'[v] = step[v]
                                    /\ new_fd'[v] = new_fd[v]
    BY <1>4 DEF Accept, Goto, TypeOK, At
  <2>2. Clearing(f)' = Clearing(f) /\ Closing(f)' = Closing(f)
    BY <2>1 DEF Clearing, Closing
  <2>3. CASE step'[w] = "set" /\ new_fd'[w] = f
    <3>1. /\ fdConn[f] = NoConn /\ lost' = (lost \/ AboutToClear(f))
          /\ backlog # <<>>
          /\ fdConn' = [fdConn EXCEPT ![f] = Head(backlog)]
      BY <1>4, <2>3 DEF Accept, FreeFds, Goto, TypeOK
    <3>2. Clearing(f) = {}
      BY <3>1 DEF AboutToClear, Clearing
    <3>3. w \in Setting(f)'
      BY <2>3 DEF Setting
    <3>4. f \notin master
      BY <1>0, <2>1, <3>1, <3>2
    <3>5. QED
      BY <2>1, <2>2, <3>2, <3>3, <3>4
  <2>4. CASE ~(step'[w] = "set" /\ new_fd'[w] = f)
    <3>1. fdConn'[f] = fdConn[f]
      BY <1>4, <2>4 DEF Accept, FreeFds, Goto, TypeOK
    <3>2. Setting(f)' = Setting(f)
      BY <2>1, <2>4 DEF Setting
    <3>3. QED
      BY <1>1, <2>1, <2>2, <3>1, <3>2
  <2>5. QED
    BY <2>3, <2>4
<1>5. ASSUME NEW w \in Workers, SetMaster(w) PROVE Goal
  <2>1. /\ master' = master \cup {new_fd[w]} /\ ~lost
        /\ UNCHANGED <<running, new_fd, fdConn>>
        /\ step[w] = "add" /\ step'[w] = "fdmax"
        /\ \A v \in Workers \ {w} : step'[v] = step[v]
    BY <1>5 DEF SetMaster, Undoes, Goto, TypeOK
  <2>2. Clearing(f)' = Clearing(f) /\ Closing(f)' = Closing(f)
    BY <2>1 DEF Clearing, Closing
  <2>3. CASE new_fd[w] = f
    <3>1. w \in Accepting /\ w \in Busy
      BY <2>1 DEF Accepting, Busy
    <3>2. fdConn[f] # NoConn
      BY <2>3, <3>1 DEF AcceptInv
    <3>3. ASSUME NEW v \in Setting(f)' PROVE FALSE
      <4>1. v # w /\ v \in Accepting /\ v \in Busy
        BY <2>1, <3>3 DEF Setting, Accepting, Busy
      <4>2. Subject(running[v]) = Subject(running[w])
        BY <3>1, <4>1 DEF PhaseInv, Subject
      <4>3. QED
        BY <3>1, <4>1, <4>2 DEF ApartInv
    <3>4. ASSUME NEW v \in Closing(f) PROVE FALSE
      <4>1. v \in Busy /\ Subject(running[v]) = f /\ step[v] = "close"
        BY <3>4 DEF Closing, Busy, Subject, PhaseInv
      <4>2. v \in Clearing(f)
        BY <2>3, <3>1, <4>1 DEF AcceptInv
      <4>3. QED
        BY <4>1, <4>2 DEF Clearing
    <3>5. QED
      BY <1>0, <2>1, <2>2, <2>3, <3>2, <3>3, <3>4
  <2>4. CASE new_fd[w] # f
    <3>1. Setting(f)' = Setting(f)
      BY <2>1, <2>4 DEF Setting
    <3>2. QED
      BY <1>1, <2>1, <2>2, <2>4, <3>1
  <2>5. QED
    BY <2>3, <2>4
<1>6. ASSUME NEW w \in Workers, step[w] \notin {"idle", "return"},
             Subject(running[w]) = f, NEW v \in Clearing(f) \cup Closing(f)
      PROVE  v = w
  <2>1. v \in Workers /\ step[v] \notin {"idle", "return"} /\ running[v].fd = f
        /\ running[v].run # "new_connection_handler"
    BY <1>6 DEF Clearing, Closing, PhaseInv
  <2>2. QED
    BY <1>6, <2>1 DEF ApartInv, Subject, Busy
<1>7. ASSUME NEW w \in Workers, ClearMaster(w) PROVE Goal
  <2>1. /\ master' = master \ {running[w].fd} /\ ~lost
        /\ UNCHANGED <<running, new_fd, fdConn>>
        /\ step[w] = "remove"
        /\ step'[w] = IF running[w].run = "new_message_handler" THEN "return"
                                                               ELSE "close"
        /\ \A v \in Workers \ {w} : step'[v] = step[v]
    BY <1>7 DEF ClearMaster, Cleared, Undoes, Goto, TypeOK
  <2>2. Setting(f)' = Setting(f)
    BY <2>1 DEF Setting
  <2>3. /\ running[w] \in Jobs /\ Subject(running[w]) = running[w].fd
        /\ running[w].run = "new_message_handler" =>
             running[w] = [run |-> "new_message_handler", fd |-> running[w].fd]
    BY <2>1, AtJob, JobShape DEF PhaseInv, Subject
  <2>4. CASE running[w].fd = f /\ running[w].run = "new_message_handler"
    <3>1. w \in Clearing(f) /\ w \notin Clearing(f)'
      BY <2>1, <2>3, <2>4 DEF Clearing
    <3>2. Clearing(f)' = {}
      BY <1>6, <2>1, <2>3, <2>4, <3>1 DEF Clearing
    <3>3. QED
      BY <1>0, <2>1, <2>4, <3>1, <3>2
  <2>5. CASE running[w].fd = f /\ running[w].run # "new_message_handler"
    <3>1. w \notin Clearing(f) /\ w \in Closing(f)'
      BY <2>1, <2>5 DEF Clearing, Closing
    <3>2. Clearing(f)' = {}
      BY <1>6, <2>1, <2>3, <2>5, <3>1 DEF Clearing
    <3>3. QED
      BY <2>1, <2>5, <3>1, <3>2
  <2>6. CASE running[w].fd # f
    <3>1. Clearing(f)' = Clearing(f) /\ Closing(f)' = Closing(f)
      BY <2>1, <2>6 DEF Clearing, Closing
    <3>2. QED
      BY <1>1, <2>1, <2>2, <2>6, <3>1
  <2>7. QED
    BY <2>4, <2>5, <2>6
<1>8. ASSUME NEW w \in Workers, RecvEnd(w) PROVE Goal
  <2>1. /\ master' = master /\ ~lost /\ UNCHANGED <<running, new_fd>>
        /\ step[w] = "begin" /\ step'[w] = "clear"
        /\ running[w].run = "new_message_handler"
        /\ fdConn[running[w].fd] # NoConn
        /\ fdConn' = [fdConn EXCEPT ![running[w].fd] = NoConn]
        /\ \A v \in Workers \ {w} : step'[v] = step[v]
    BY <1>8 DEF RecvEnd, Close, Goto, TypeOK, At
  <2>2. Setting(f)' = Setting(f) /\ Closing(f)' = Closing(f)
    BY <2>1 DEF Setting, Closing
  <2>3. /\ running[w] \in Jobs /\ Subject(running[w]) = running[w].fd
        /\ running[w] = [run |-> "new_message_handler", fd |-> running[w].fd]
    BY <2>1, AtJob, JobShape DEF Subject
  <2>4. CASE running[w].fd = f
    <3>1. w \in Clearing(f)' /\ fdConn'[f] = NoConn
      BY <2>1, <2>3, <2>4 DEF Clearing, TypeOK
    <3>2. Closing(f) = {}
      BY <1>6, <2>1, <2>3, <2>4 DEF Closing
    <3>3. ASSUME NEW v \in Setting(f) PROVE FALSE
      <4>1. v \in Accepting /\ new_fd[v] = f /\ w \in Busy
        BY <2>1, <3>3 DEF Setting, Accepting, Busy
      <4>2. w \in Clearing(f)
        BY <2>3, <2>4, <4>1 DEF AcceptInv
      <4>3. QED
        BY <2>1, <4>2 DEF Clearing
    <3>4. f \in master
      BY <1>0, <2>1, <2>4, <3>2, <3>3
    <3>5. QED
      BY <2>1, <3>1, <3>4
  <2>5. CASE running[w].fd # f
    <3>1. Clearing(f)' = Clearing(f)
      BY <2>1, <2>3, <2>5 DEF Clearing
    <3>2. fdConn'[f] = fdConn[f]
      BY <2>1, <2>5 DEF TypeOK
    <3>3. QED
      BY <1>1, <2>1, <2>2, <3>1, <3>2
  <2>6. QED
    BY <2>4, <2>5
<1>9. ASSUME NEW w \in Workers, CloseClient(w) PROVE Goal
  <2>1. /\ master' = master /\ ~lost /\ UNCHANGED <<running, new_fd>>
        /\ step[w] = "close" /\ step'[w] = "return"
        /\ running[w].run = "switch_protocol_handler"
        /\ fdConn' = [fdConn EXCEPT ![running[w].fd] = NoConn]
        /\ \A v \in Workers \ {w} : step'[v] = step[v]
    BY <1>9 DEF CloseClient, Close, Goto, TypeOK, PhaseInv
  <2>2. Setting(f)' = Setting(f) /\ Clearing(f)' = Clearing(f)
    BY <2>1 DEF Setting, Clearing
  <2>3. running[w] \in Jobs /\ Subject(running[w]) = running[w].fd
    BY <2>1, AtJob DEF Subject
  <2>4. CASE running[w].fd = f
    <3>1. w \in Closing(f) /\ fdConn'[f] = NoConn
      BY <2>1, <2>4 DEF Closing, TypeOK
    <3>2. Clearing(f) = {}
      BY <1>6, <2>1, <2>3, <2>4 DEF Clearing
    <3>3. f \notin master
      BY <1>0, <2>1, <3>1, <3>2
    <3>4. QED
      BY <2>1, <2>2, <3>1, <3>2, <3>3
  <2>5. CASE running[w].fd # f
    <3>1. Closing(f)' = Closing(f)
      BY <2>1, <2>5 DEF Closing
    <3>2. fdConn'[f] = fdConn[f]
      BY <2>1, <2>5 DEF TypeOK
    <3>3. QED
      BY <1>1, <2>1, <2>2, <3>1, <3>2
  <2>6. QED
    BY <2>4, <2>5
<1>10. QED
  BY NextCases, <1>2, <1>3, <1>4, <1>5, <1>7, <1>8, <1>9 DEF Works

-----------------------------------------------------------------------------
(* The order of the messages.                                              *)

(* What a job writes to a connection answers or forwards the message it    *)
(* carries, and is the last thing the job does.                            *)
LEMMA OutboxStep ==
  ASSUME TypeOK, PhaseInv, [Next]_vars, NEW c \in Clients,
         outbox'[c] # outbox[c]
  PROVE  \E w \in Busy, m \in Answers :
           /\ GoesOn(w) /\ Carries(running[w])
           /\ m.from = running[w].p.from /\ m.n = running[w].p.n
           /\ outbox'[c] = Append(outbox[c], m)
           /\ queue' = queue /\ step'[w] = "return"
           /\ UNCHANGED <<inbox, sent>>
<1>1. CASE \/ Select \/ SelectFails \/ Scan \/ WaitCall \/ WaitReturns
           \/ UNCHANGED vars
           \/ \E d \in Clients : Connect(d) \/ Send(d) \/ Die(d)
  BY <1>1 DEF Select, SelectFails, Scan, WaitCall, WaitReturns, vars, Connect,
     Send, Die
<1>2. ASSUME NEW w \in Workers,
             \/ StartJob(w) \/ EndJob(w) \/ ReadMaster(w) \/ ClearMaster(w)
             \/ Accept(w) \/ SetMaster(w) \/ SetFdmax(w)
             \/ RecvMessage(w) \/ RecvEnd(w) \/ RecvFails(w)
             \/ Dispatch(w) \/ Release(w) \/ CloseClient(w) \/ ChangeStatus(w)
             \/ ListUsers(w)
      PROVE  FALSE
  BY <1>2 DEF StartJob, EndJob, ReadMaster, ClearMaster, Accept, SetMaster,
     SetFdmax, RecvMessage, RecvEnd, RecvFails, Dispatch, Release,
     CloseClient, ChangeStatus, ListUsers, Close
<1>3. ASSUME NEW w \in Workers, NEW fd \in Fds, NEW m \in Answers, Write(fd, m)
      PROVE  /\ outbox'[c] = Append(outbox[c], m)
             /\ UNCHANGED <<inbox, sent>>
  BY <1>3 DEF Write, TypeOK
<1>4. ASSUME NEW w \in Workers,
             Register(w) \/ UserInfo(w) \/ AnswerList(w) \/ Deliver(w)
      PROVE  \E v \in Busy, m \in Answers :
               /\ GoesOn(v) /\ Carries(running[v])
               /\ m.from = running[v].p.from /\ m.n = running[v].p.n
               /\ outbox'[c] = Append(outbox[c], m)
               /\ queue' = queue /\ step'[v] = "return"
               /\ UNCHANGED <<inbox, sent>>
  <2> DEFINE p == running[w].p
  <2>1. /\ w \in Busy /\ running[w].run = "switch_protocol_handler"
        /\ queue' = queue /\ step'[w] = "return"
    BY <1>4 DEF Register, UserInfo, AnswerList, Deliver, At, Switch, Busy,
       PhaseInv, Goto, TypeOK
  <2>2. GoesOn(w)
    BY <1>4, WorksGoesOn DEF Works
  <2>3. Carries(running[w]) /\ running[w].fd \in Fds /\ p \in Messages
    BY <2>1, SwitchShape DEF Busy
  <2>4. ASSUME NEW fd \in Fds, NEW m \in Answers, Write(fd, m),
               m.from = p.from, m.n = p.n
        PROVE  \E v \in Busy, x \in Answers :
                 /\ GoesOn(v) /\ Carries(running[v])
                 /\ x.from = running[v].p.from /\ x.n = running[v].p.n
                 /\ outbox'[c] = Append(outbox[c], x)
                 /\ queue' = queue /\ step'[v] = "return"
                 /\ UNCHANGED <<inbox, sent>>
    BY <1>3, <2>1, <2>2, <2>3, <2>4
  <2>5. CASE Register(w)
    <3>1. Write(running[w].fd, Answer(p, "01"))
      BY <2>5 DEF Register
    <3>2. Answer(p, "01") \in Answers
      BY <2>3, AnswerShape
    <3>3. Answer(p, "01").from = p.from /\ Answer(p, "01").n = p.n
      BY DEF Answer
    <3>4. QED
      BY <2>3, <2>4, <3>1, <3>2, <3>3
  <2>6. CASE UserInfo(w)
    <3>1. /\ client_map[p.user] # NoEntry
          /\ Write(running[w].fd, StatusAnswer(p, client_map[p.user].status))
      BY <2>6 DEF UserInfo
    <3>2. client_map[p.user].status \in {"0", "1"}
      BY <2>3, <3>1, MessageShape DEF TypeOK
    <3>3. StatusAnswer(p, client_map[p.user].status) \in Answers
      BY <2>3, <3>2, AnswerShape
    <3>4. /\ StatusAnswer(p, client_map[p.user].status).from = p.from
          /\ StatusAnswer(p, client_map[p.user].status).n = p.n
      BY DEF StatusAnswer
    <3>5. QED
      BY <2>3, <2>4, <3>1, <3>3, <3>4
  <2>7. CASE AnswerList(w)
    <3>1. Write(running[w].fd, ListAnswer(p, clients_list[w]))
      BY <2>7 DEF AnswerList
    <3>2. ListAnswer(p, clients_list[w]) \in Answers
      BY <2>3, AnswerShape DEF TypeOK
    <3>3. /\ ListAnswer(p, clients_list[w]).from = p.from
          /\ ListAnswer(p, clients_list[w]).n = p.n
      BY DEF ListAnswer
    <3>4. QED
      BY <2>3, <2>4, <3>1, <3>2, <3>3
  <2>8. CASE Deliver(w)
    <3>1. /\ client_map[p.user] # NoEntry
          /\ Write(client_map[p.user].fd, Answer(p, "08"))
      BY <2>8 DEF Deliver
    <3>2. client_map[p.user].fd \in Fds
      BY <2>3, <3>1, MessageShape DEF TypeOK
    <3>3. Answer(p, "08") \in Answers
      BY <2>3, AnswerShape
    <3>4. Answer(p, "08").from = p.from /\ Answer(p, "08").n = p.n
      BY DEF Answer
    <3>5. QED
      BY <2>4, <3>1, <3>2, <3>3, <3>4
  <2>9. QED
    BY <1>4, <2>5, <2>6, <2>7, <2>8
<1>5. QED
  BY NextCases, <1>1, <1>2, <1>4 DEF Works

(* Message n of client c was sent, and before all that waits in its        *)
(* socket.                                                                 *)
Past(c, n) ==
  n <= sent[c] /\ \A k \in DOMAIN inbox[c] : n < inbox[c][k].n

(* It stays so: what a client sends later has a higher number.             *)
LEMMA PastStep ==
  ASSUME TypeOK, PhaseInv, [Next]_vars, NEW c \in Clients, NEW n \in Nat,
         Past(c, n)
  PROVE  n <= sent'[c] /\ \A k \in DOMAIN inbox'[c] : n < inbox'[c][k].n
<1>1. sent[c] \in Nat /\ inbox[c] \in Seq(Messages)
  BY DEF TypeOK, Numbers
<1>2. sent'[c] \in {sent[c], sent[c] + 1}
  BY InboxStep
<1>3. ASSUME NEW k \in DOMAIN inbox'[c] PROVE n < inbox'[c][k].n
  <2>1. CASE inbox'[c] = inbox[c]
    BY <1>3, <2>1 DEF Past
  <2>2. CASE \E m \in Messages : /\ m.n = sent[c] + 1
                                 /\ inbox'[c] = Append(inbox[c], m)
    <3>1. PICK m \in Messages : /\ m.n = sent[c] + 1
                                /\ inbox'[c] = Append(inbox[c], m)
      BY <2>2
    <3>2. \/ k \in DOMAIN inbox[c] /\ inbox'[c][k] = inbox[c][k]
          \/ inbox'[c][k] = m
      BY <1>1, <1>3, <3>1, Indices
    <3>3. n < m.n
      BY <1>1, <3>1 DEF Past
    <3>4. QED
      BY <3>2, <3>3 DEF Past
  <2>3. CASE inbox[c] # <<>> /\ inbox'[c] = Tail(inbox[c])
    <3>1. k + 1 \in DOMAIN inbox[c] /\ inbox'[c][k] = inbox[c][k + 1]
      BY <1>1, <1>3, <2>3, HeadTail
    <3>2. QED
      BY <3>1 DEF Past
  <2>4. CASE inbox'[c] = <<>>
    BY <1>3, <2>4
  <2>5. QED
    BY InboxStep, <2>1, <2>2, <2>3, <2>4
<1>4. n <= sent'[c]
  BY <1>1, <1>2 DEF Past
<1>5. QED
  BY <1>3, <1>4

(* The messages in a socket stay in the order they were sent.              *)
LEMMA InboxOrder ==
  ASSUME TypeOK, PhaseInv, OrderInv, [Next]_vars, NEW c \in Clients
  PROVE  /\ \A k \in DOMAIN inbox'[c] : inbox'[c][k].n <= sent'[c]
         /\ \A k, l \in DOMAIN inbox'[c] :
              k < l => inbox'[c][k].n < inbox'[c][l].n
<1>1. sent[c] \in Nat /\ inbox[c] \in Seq(Messages)
  BY DEF TypeOK, Numbers
<1>2. /\ Len(inbox[c]) \in Nat /\ DOMAIN inbox[c] = 1..Len(inbox[c])
      /\ \A k \in DOMAIN inbox[c] : inbox[c][k].n \in Nat
  BY <1>1, LenProperties, ElementOfSeq, MessageShape
<1>3. /\ \A k \in DOMAIN inbox[c] : inbox[c][k].n <= sent[c]
      /\ \A k, l \in DOMAIN inbox[c] : k < l => inbox[c][k].n < inbox[c][l].n
  BY DEF OrderInv
<1>4. CASE inbox'[c] = inbox[c] /\ sent'[c] = sent[c]
  BY <1>3, <1>4
<1>5. CASE /\ sent'[c] = sent[c] + 1
           /\ \E m \in Messages : /\ m.n = sent[c] + 1
                                  /\ inbox'[c] = Append(inbox[c], m)
  <2>1. PICK m \in Messages : /\ m.n = sent[c] + 1
                              /\ inbox'[c] = Append(inbox[c], m)
    BY <1>5
  <2>2. /\ DOMAIN inbox'[c] = 1..(Len(inbox[c]) + 1)
        /\ inbox'[c][Len(inbox[c]) + 1] = m
        /\ \A k \in 1..Len(inbox[c]) : inbox'[c][k] = inbox[c][k]
    BY <1>1, <2>1, Indices
  <2>3. \A k \in DOMAIN inbox'[c] :
          \/ k \in DOMAIN inbox[c] /\ inbox'[c][k] = inbox[c][k]
          \/ k = Len(inbox[c]) + 1 /\ inbox'[c][k] = m
    BY <1>2, <2>2
  <2>4. \A k \in DOMAIN inbox[c] : inbox[c][k].n < m.n
    BY <1>1, <1>2, <1>3, <2>1
  <2>5. ASSUME NEW k \in DOMAIN inbox'[c] PROVE inbox'[c][k].n <= sent'[c]
    BY <1>1, <1>2, <1>3, <1>5, <2>1, <2>3, <2>5
  <2>6. ASSUME NEW k \in DOMAIN inbox'[c], NEW l \in DOMAIN inbox'[c], k < l
        PROVE  inbox'[c][k].n < inbox'[c][l].n
    <3>1. k \in DOMAIN inbox[c] /\ inbox'[c][k] = inbox[c][k]
      BY <1>2, <2>3, <2>6
    <3>2. QED
      BY <1>3, <2>3, <2>4, <2>6, <3>1
  <2>7. QED
    BY <2>5, <2>6
<1>6. CASE inbox[c] # <<>> /\ inbox'[c] = Tail(inbox[c]) /\ sent'[c] = sent[c]
  <2>1. \A k \in DOMAIN inbox'[c] : /\ k \in Nat /\ k + 1 \in DOMAIN inbox[c]
                                    /\ inbox'[c][k] = inbox[c][k + 1]
    BY <1>1, <1>6, HeadTail
  <2>2. QED
    BY <1>3, <1>6, <2>1
<1>7. CASE inbox'[c] = <<>> /\ sent'[c] = sent[c]
  BY <1>7
<1>8. QED
  BY InboxStep, <1>4, <1>5, <1>6, <1>7

(* Messages go from the socket to a job and from the job to an outbox, and *)
(* at each of the two places those of one sender keep their order.         *)
LEMMA OrderStep ==
  ASSUME TypeOK, PhaseInv, ApartInv, ConnInv, OwnInv, OrderInv, [Next]_vars
  PROVE  OrderInv'
<1>1. ASSUME NEW j \in Pending', Carries(j)
      PROVE  /\ j \in Jobs /\ j.p \in Messages /\ j.p.n \in Nat
             /\ j.p.from \in Clients /\ j.fd \in Fds /\ Subject(j) = j.fd
             /\ \/ j \in Pending
                \/ UNCHANGED inbox /\ \E x \in Pending : Carries(x) /\ x.p = j.p
                \/ /\ inbox[j.p.from] # <<>> /\ j.p = inbox[j.p.from][1]
                   /\ inbox'[j.p.from] = Tail(inbox[j.p.from])
  <2>1. j \in Jobs
    BY <1>1, CarriedStep
  <2>2. /\ j.p \in Messages /\ j.p.n \in Nat /\ j.p.from \in Clients
        /\ j.fd \in Fds /\ Subject(j) = j.fd
    BY <1>1, <2>1, JobShape, MessageShape DEF Carries, Subject
  <2>3. ASSUME NEW c \in Clients, inbox[c] # <<>>, j.p = Head(inbox[c]),
               inbox' = [inbox EXCEPT ![c] = Tail(@)]
        PROVE  /\ inbox[j.p.from] # <<>> /\ j.p = inbox[j.p.from][1]
               /\ inbox'[j.p.from] = Tail(inbox[j.p.from])
    <3>1. 1 \in DOMAIN inbox[c] /\ j.p = inbox[c][1]
      BY <2>3, HeadTail DEF TypeOK
    <3>2. j.p.from = c
      BY <3>1 DEF OwnInv
    <3>3. QED
      BY <2>3, <3>1, <3>2 DEF TypeOK
  <2>4. QED
    BY <1>1, <2>1, <2>2, <2>3, CarriedStep
<1>2. ASSUME NEW x \in Pending, Carries(x) PROVE Past(x.p.from, x.p.n)
  BY <1>2 DEF OrderInv, Past
<1>3. ASSUME NEW j \in Pending', Carries(j)
      PROVE  /\ j.p.n <= sent'[j.p.from]
             /\ \A k \in DOMAIN inbox'[j.p.from] :
                  j.p.n < inbox'[j.p.from][k].n
  <2>1. CASE j \in Pending
    BY <1>1, <1>2, <1>3, <2>1, PastStep
  <2>2. CASE \E x \in Pending : Carries(x) /\ x.p = j.p
    <3>1. Past(j.p.from, j.p.n)
      BY <1>2, <2>2
    <3>2. j.p.from \in Clients /\ j.p.n \in Nat
      BY <1>1, <1>3
    <3>3. QED
      BY <3>1, <3>2, PastStep
  <2>3. CASE /\ inbox[j.p.from] # <<>> /\ j.p = inbox[j.p.from][1]
             /\ inbox'[j.p.from] = Tail(inbox[j.p.from])
    <3>0. PICK c \in Clients : c = j.p.from
      BY <1>1, <1>3
    <3>1. inbox[c] \in Seq(Messages) /\ sent[c] \in Nat
      BY DEF TypeOK, Numbers
    <3>2. /\ 1 \in DOMAIN inbox[c]
          /\ \A k \in DOMAIN inbox'[c] : /\ k + 1 \in DOMAIN inbox[c]
                                         /\ 1 < k + 1
                                         /\ inbox'[c][k] = inbox[c][k + 1]
      <4>1. inbox[c] # <<>> /\ inbox'[c] = Tail(inbox[c])
        BY <2>3, <3>0
      <4>2. QED
        BY <3>1, <4>1, HeadTail
    <3>3. j.p.n <= sent[c] /\ \A k \in DOMAIN inbox'[c] : j.p.n < inbox'[c][k].n
      BY <2>3, <3>0, <3>1, <3>2 DEF OrderInv
    <3>4. sent'[c] \in {sent[c], sent[c] + 1}
      BY <3>1, InboxStep
    <3>5. j.p.n <= sent'[c]
      BY <1>1, <1>3, <3>1, <3>3, <3>4
    <3>6. QED
      BY <3>0, <3>3, <3>5
  <2>4. QED
    BY <1>1, <1>3, <2>1, <2>2, <2>3
<1>4. ASSUME NEW c \in Clients, NEW k \in DOMAIN outbox[c]
      PROVE  /\ outbox[c][k].n \in Nat /\ outbox[c][k].from \in Clients
             /\ Past(outbox[c][k].from, outbox[c][k].n)
  <2>1. outbox[c][k] \in Answers
    BY <1>4, LenProperties, ElementOfSeq DEF TypeOK
  <2>2. outbox[c][k].n \in Nat /\ outbox[c][k].from \in Clients
    BY <2>1 DEF Answers, Numbers
  <2>3. QED
    BY <2>2 DEF OrderInv, Past
<1>5. ASSUME NEW c \in Clients, NEW k \in DOMAIN outbox[c]
      PROVE  LET m == outbox[c][k]
             IN  /\ m.n <= sent'[m.from]
                 /\ \A l \in DOMAIN inbox'[m.from] : m.n < inbox'[m.from][l].n
                 /\ \A j \in Pending' :
                      Carries(j) /\ j.p.from = m.from => m.n < j.p.n
  <2> DEFINE m == outbox[c][k]
  <2>1. /\ m.n \in Nat /\ m.from \in Clients /\ Past(m.from, m.n)
        /\ \A x \in Pending : Carries(x) /\ x.p.from = m.from => m.n < x.p.n
    BY <1>4 DEF OrderInv
  <2>2. /\ m.n <= sent'[m.from]
        /\ \A l \in DOMAIN inbox'[m.from] : m.n < inbox'[m.from][l].n
    BY <2>1, PastStep
  <2>3. ASSUME NEW j \in Pending', Carries(j), j.p.from = m.from
        PROVE  m.n < j.p.n
    <3>1. CASE \E x \in Pending : Carries(x) /\ x.p = j.p
      BY <2>1, <2>3, <3>1
    <3>2. CASE inbox[m.from] # <<>> /\ j.p = inbox[m.from][1]
      <4>1. 1 \in DOMAIN inbox[m.from]
        BY <2>1, <3>2, HeadTail DEF TypeOK
      <4>2. QED
        BY <2>1, <3>2, <4>1 DEF Past
    <3>3. QED
      BY <1>1, <2>3, <3>1, <3>2
  <2>4. QED
    BY <2>2, <2>3
<1>6. ASSUME NEW c \in Clients, outbox'[c] # outbox[c]
      PROVE  \E m \in Answers :
               /\ m.from \in Clients /\ outbox'[c] = Append(outbox[c], m)
               /\ m.n <= sent'[m.from]
               /\ \A l \in DOMAIN inbox'[m.from] : m.n < inbox'[m.from][l].n
               /\ \A j \in Pending' :
                    Carries(j) /\ j.p.from = m.from => m.n < j.p.n
               /\ \A k \in DOMAIN outbox[c] :
                    outbox[c][k].from = m.from => outbox[c][k].n < m.n
  <2>1. PICK w \in Busy, m \in Answers :
           /\ GoesOn(w) /\ Carries(running[w])
           /\ m.from = running[w].p.from /\ m.n = running[w].p.n
           /\ outbox'[c] = Append(outbox[c], m)
           /\ queue' = queue /\ step'[w] = "return"
           /\ UNCHANGED <<inbox, sent>>
    BY <1>6, OutboxStep
  <2>2. /\ running[w] \in Pending /\ running[w] \in Jobs /\ w \in Workers
        /\ running[w].fd \in Fds /\ Subject(running[w]) = running[w].fd
        /\ m.from \in Clients /\ Past(m.from, m.n)
    BY <1>2, <2>1, PendingJobs, JobShape, MessageShape DEF Carries, Subject
  <2>3. /\ m.n <= sent'[m.from]
        /\ \A l \in DOMAIN inbox'[m.from] : m.n < inbox'[m.from][l].n
    BY <2>1, <2>2 DEF Past
  <2>4. ASSUME NEW j \in Pending', Carries(j), j.p.from = m.from PROVE FALSE
    <3>1. j \in Pending /\ Subject(j) # Subject(running[w])
      BY <2>1, <2>2, <2>4, PendingGone
    <3>2. fdConn[j.fd] = m.from /\ fdConn[running[w].fd] = m.from
      BY <2>1, <2>2, <2>4, <3>1 DEF OwnInv
    <3>3. j.fd \in Fds /\ Subject(j) = j.fd /\ m.from # NoConn
      BY <1>1, <2>2, <2>4
    <3>4. j.fd = running[w].fd
      BY <2>2, <3>2, <3>3 DEF ConnInv
    <3>5. QED
      BY <2>2, <3>1, <3>3, <3>4
  <2>5. ASSUME NEW k \in DOMAIN outbox[c], outbox[c][k].from = m.from
        PROVE  outbox[c][k].n < m.n
    BY <2>1, <2>2, <2>5 DEF OrderInv
  <2>6. QED
    BY <2>1, <2>2, <2>3, <2>4, <2>5
<1>7. ASSUME NEW c \in Clients, outbox'[c] # outbox[c], NEW m \in Answers,
             outbox'[c] = Append(outbox[c], m)
      PROVE  /\ Len(outbox[c]) \in Nat /\ DOMAIN outbox[c] = 1..Len(outbox[c])
             /\ \A k \in DOMAIN outbox'[c] :
                  \/ k \in DOMAIN outbox[c] /\ outbox'[c][k] = outbox[c][k]
                  \/ k = Len(outbox[c]) + 1 /\ outbox'[c][k] = m
  <2>1. outbox[c] \in Seq(Answers)
    BY DEF TypeOK
  <2>2. /\ Len(outbox[c]) \in Nat /\ DOMAIN outbox[c] = 1..Len(outbox[c])
        /\ DOMAIN outbox'[c] = 1..(Len(outbox[c]) + 1)
        /\ outbox'[c][Len(outbox[c]) + 1] = m
        /\ \A k \in 1..Len(outbox[c]) : outbox'[c][k] = outbox[c][k]
    BY <1>7, <2>1, Indices
  <2>3. QED
    BY <2>2
<1>8. ASSUME NEW c \in Clients, NEW k \in DOMAIN outbox'[c]
      PROVE  LET m == outbox'[c][k]
             IN  /\ m.n <= sent'[m.from]
                 /\ \A l \in DOMAIN inbox'[m.from] : m.n < inbox'[m.from][l].n
                 /\ \A j \in Pending' :
                      Carries(j) /\ j.p.from = m.from => m.n < j.p.n
  <2>1. CASE outbox'[c] = outbox[c]
    BY <1>5, <1>8, <2>1
  <2>2. CASE outbox'[c] # outbox[c]
    <3>1. PICK m \in Answers :
               /\ outbox'[c] = Append(outbox[c], m)
               /\ m.n <= sent'[m.from]
               /\ \A l \in DOMAIN inbox'[m.from] : m.n < inbox'[m.from][l].n
               /\ \A j \in Pending' :
                    Carries(j) /\ j.p.from = m.from => m.n < j.p.n
      BY <1>6, <2>2
    <3>2. \/ k \in DOMAIN outbox[c] /\ outbox'[c][k] = outbox[c][k]
          \/ outbox'[c][k] = m
      BY <1>7, <1>8, <2>2, <3>1
    <3>3. QED
      BY <1>5, <3>1, <3>2
  <2>3. QED
    BY <2>1, <2>2
<1>9. ASSUME NEW c \in Clients,
             NEW k \in DOMAIN outbox'[c], NEW l \in DOMAIN outbox'[c],
             k < l, outbox'[c][k].from = outbox'[c][l].from
      PROVE  outbox'[c][k].n < outbox'[c][l].n
  <2>1. CASE outbox'[c] = outbox[c]
    BY <1>9, <2>1 DEF OrderInv, InOrder
  <2>2. CASE outbox'[c] # outbox[c]
    <3>1. PICK m \in Answers :
               /\ outbox'[c] = Append(outbox[c], m)
               /\ \A x \in DOMAIN outbox[c] :
                    outbox[c][x].from = m.from => outbox[c][x].n < m.n
      BY <1>6, <2>2
    <3>2. /\ k \in DOMAIN outbox[c] /\ outbox'[c][k] = outbox[c][k]
          /\ \/ l \in DOMAIN outbox[c] /\ outbox'[c][l] = outbox[c][l]
             \/ outbox'[c][l] = m
      BY <1>7, <1>9, <2>2, <3>1
    <3>3. QED
      BY <1>9, <3>1, <3>2 DEF OrderInv, InOrder
  <2>3. QED
    BY <2>1, <2>2
<1>10. QED
  BY <1>3, <1>8, <1>9, InboxOrder DEF OrderInv, InOrder, Carries

-----------------------------------------------------------------------------
(* The inductive invariant holds.                                          *)

(* The server starts in the invariant: no job, no connection, only the     *)
(* listener in master.                                                     *)
LEMMA InitInv == ASSUME Init PROVE IInv
<1> USE DEF Init, Pool!PoolInit
<1>1. TypeOK
  <2>1. queue \in Seq(Jobs) /\ backlog \in Seq(Clients)
    BY EmptySeq
  <2>2. inbox \in [Clients -> Seq(Messages)]
    BY EmptySeq
  <2>3. outbox \in [Clients -> Seq(Answers)]
    BY EmptySeq
  <2>4. /\ running \in [Workers -> Jobs \cup {NoJob}]
        /\ caller \in {"app", "waiting", "closing", "closed"}
    OBVIOUS
  <2>5. Pool!PoolTypeOK
    BY <2>1, <2>4 DEF Pool!PoolTypeOK
  <2>6. i \in 0..(MaxFd + 1)
    OBVIOUS
  <2>7. step \in [Workers -> Steps] /\ peer \in [Clients -> PeerStates]
    BY DEF Steps, PeerStates
  <2>8. /\ client_map \in [Users -> [fd : Fds, status : {"0", "1"},
                                     from : Clients] \cup {NoEntry}]
        /\ new_fd \in [Workers -> Fds \cup {0}]
        /\ word \in [Workers -> SUBSET (Fds \cup {listener})]
        /\ clients_list \in [Workers -> SUBSET Users]
        /\ fdConn \in [Fds -> Clients \cup {NoConn}]
        /\ sent \in [Clients -> Numbers \cup {0}]
    OBVIOUS
  <2>9. QED
    BY <2>1, <2>2, <2>3, <2>5, <2>6, <2>7, <2>8 DEF TypeOK
<1>2. DOMAIN queue = {} /\ DOMAIN backlog = {} /\ Busy = {} /\ Pending = {}
      /\ Accepting = {}
  BY DEF Busy, Pending, Accepting
<1>3. /\ \A c \in Clients : DOMAIN inbox[c] = {} /\ DOMAIN outbox[c] = {}
      /\ \A w \in Workers : step[w] = "idle" /\ running[w] = NoJob
      /\ \A f \in Fds : fdConn[f] = NoConn
  OBVIOUS
<1>4. PhaseInv
  BY <1>2, <1>3 DEF PhaseInv, Pool!Idle, Pool!NothingRuns
<1>5. ApartInv /\ AcceptInv /\ ScanInv
  BY <1>2 DEF ApartInv, AcceptInv, ScanInv
<1>6. ConnInv
  BY <1>2, <1>3 DEF ConnInv
<1>7. ReadyInv /\ OwnInv
  BY <1>2, <1>3 DEF ReadyInv, OwnInv
<1>8. FdmaxInv
  BY <1>3 DEF FdmaxInv, Covered, listener
<1>9. MasterInv
  BY <1>3, FdsFacts DEF MasterInv, Clearing, Setting, Closing
<1>10. OrderInv
  BY <1>2, <1>3 DEF OrderInv, InOrder
<1>11. QED
  BY <1>1, <1>4, <1>5, <1>6, <1>7, <1>8, <1>9, <1>10 DEF IInv

(* Every step of main(), a worker, a client or the kernel keeps it.        *)
LEMMA NextInv == ASSUME IInv, [Next]_vars PROVE IInv'
<1> USE DEF IInv
<1>1. TypeOK' /\ PhaseInv'
  BY TypeStep, PhaseStep
<1>2. ApartInv' /\ ConnInv'
  BY ApartStep, ConnStep
<1>3. AcceptInv' /\ ScanInv'
  BY AcceptStep, ScanStep
<1>4. ReadyInv' /\ OwnInv'
  BY ReadyStep, OwnStep
<1>5. FdmaxInv' /\ MasterInv'
  BY FdmaxStep, MasterStep
<1>6. OrderInv'
  BY OrderStep
<1>7. QED
  BY <1>1, <1>2, <1>3, <1>4, <1>5, <1>6

(* The inductive invariant is an invariant of the server.                  *)
THEOREM Invariance == Spec => []IInv
<1>1. Init => IInv
  BY InitInv
<1>2. IInv /\ [Next]_vars => IInv'
  BY NextInv
<1>3. QED
  BY <1>1, <1>2, PTL DEF Spec

-----------------------------------------------------------------------------
(* What it says of the server.                                             *)

(* Every variable of the server keeps its type.                            *)
THEOREM TypeCorrect == Spec => []TypeOK
<1>1. IInv => TypeOK
  BY DEF IInv
<1>2. QED
  BY <1>1, Invariance, PTL

(* A set without two different elements has at most one.                   *)
LEMMA AtMostOne ==
  ASSUME NEW S, \A x, y \in S : x = y
  PROVE  Cardinality(S) \in {0, 1} /\ (S = {} => Cardinality(S) = 0)
<1>1. CASE S = {}
  BY <1>1, FS_EmptySet
<1>2. CASE S # {}
  <2>1. PICK x \in S : TRUE
    BY <1>2
  <2>2. S = {x}
    BY <2>1
  <2>3. QED
    BY <1>2, <2>2, FS_Singleton
<1>3. QED
  BY <1>1, <1>2

(* At most one job, queued or executing, is about a descriptor, however    *)
(* many workers and connections there are: no two workers receive on one   *)
(* socket, and no message of a client overtakes the one before it.         *)
THEOREM OneJobEach == Spec => []OneJobPerFd
<1>1. ASSUME IInv PROVE OneJobPerFd
  <2>1. SUFFICES ASSUME NEW f \in Fds
                 PROVE
                   Cardinality({k \in DOMAIN queue : Concerns(queue[k], f)})
                   + Cardinality({w \in Busy : Concerns(running[w], f)}) <= 1
    BY DEF OneJobPerFd
  <2> DEFINE K == {k \in DOMAIN queue : Concerns(queue[k], f)}
             W == {w \in Busy : Concerns(running[w], f)}
  <2>2. /\ \A k \in K : k \in DOMAIN queue /\ Subject(queue[k]) = f
        /\ \A w \in W : w \in Busy /\ Subject(running[w]) = f
    BY DEF Concerns, Subject
  <2>3. /\ \A k, l \in K : k = l
        /\ \A v, w \in W : v = w
        /\ K = {} \/ W = {}
    BY <1>1, <2>2 DEF IInv, ApartInv
  <2> HIDE DEF K, W
  <2>4. /\ Cardinality(K) \in {0, 1} /\ (K = {} => Cardinality(K) = 0)
        /\ Cardinality(W) \in {0, 1} /\ (W = {} => Cardinality(W) = 0)
    BY <2>3, AtMostOne
  <2>5. Cardinality(K) + Cardinality(W) <= 1
    BY <2>3, <2>4
  <2>6. QED
    BY <2>5 DEF K, W
<1>2. QED
  BY <1>1, Invariance, PTL

(* The descriptor of a message that is carried out is open on the          *)
(* connection it came from, although other jobs close and open             *)
(* descriptors: an answer, or the close of a 02, hits no other client.     *)
THEOREM AnswersHome == Spec => []OwnDescriptor
<1>1. ASSUME IInv PROVE OwnDescriptor
  <2>1. ASSUME NEW j \in Pending, "p" \in DOMAIN j PROVE fdConn[j.fd] = j.p.from
    <3>1. Carries(j)
      BY <1>1, <2>1, PendingJobs, JobShape DEF IInv
    <3>2. QED
      BY <1>1, <2>1, <3>1 DEF IInv, OwnInv
  <2>2. QED
    BY <2>1 DEF OwnDescriptor, Pending
<1>2. QED
  BY <1>1, Invariance, PTL

(* What select() reported is still there when the job runs: no worker      *)
(* blocks in accept() or recv().                                           *)
THEOREM NoJobBlocks == Spec => []NeverBlocks
<1>1. ASSUME IInv PROVE NeverBlocks
  <2>1. ASSUME NEW w \in Busy, step[w] = "begin" PROVE Ready(running[w])
    BY <1>1, <2>1 DEF IInv, ReadyInv, Busy
  <2>2. QED
    BY <2>1 DEF NeverBlocks, Ready
<1>2. QED
  BY <1>1, Invariance, PTL

(* At every select, when no job runs, fdmax covers master and master has   *)
(* the listener: the concurrent updates of either never hide a descriptor. *)
THEOREM SelectCovers == Spec => []FdmaxCovers
<1>1. ASSUME IInv, main = "select" PROVE \A w \in Workers : step[w] = "idle"
  BY <1>1 DEF IInv, PhaseInv, Pool!Idle, Pool!NothingRuns
<1>2. ASSUME IInv PROVE FdmaxCovers
  BY <1>1, <1>2 DEF IInv, FdmaxInv, FdmaxCovers, Covered
<1>3. QED
  BY <1>2, Invariance, PTL

(* As long as no update of master was undone by another job and no         *)
(* descriptor was accepted again before its FD_CLR, master is the set of   *)
(* the open connections at every select.                                   *)
THEOREM OnlyLostUpdates == Spec => []MasterExact
<1>1. ASSUME IInv, main = "select" PROVE \A w \in Workers : step[w] = "idle"
  BY <1>1 DEF IInv, PhaseInv, Pool!Idle, Pool!NothingRuns
<1>2. ASSUME IInv, main = "select", ~lost
      PROVE  master = {listener} \cup {f \in Fds : fdConn[f] # NoConn}
  <2>1. master \subseteq Fds \cup {listener} /\ listener \in master
    BY <1>2 DEF IInv, TypeOK, FdmaxInv
  <2>2. \A f \in Fds : Clearing(f) = {} /\ Setting(f) = {} /\ Closing(f) = {}
    BY <1>1, <1>2 DEF Clearing, Setting, Closing
  <2>3. \A f \in Fds : f \in master <=> fdConn[f] # NoConn
    BY <1>2, <2>2 DEF IInv, MasterInv
  <2>4. QED
    BY <2>1, <2>3
<1>3. ASSUME IInv PROVE MasterExact
  BY <1>2, <1>3 DEF MasterExact
<1>4. QED
  BY <1>3, Invariance, PTL

(* What reaches a client from one sender arrives once and in the order it  *)
(* was sent, for any number of workers that carry the messages out.        *)
THEOREM DeliveredInOrder == Spec => []InOrder
<1>1. IInv => InOrder
  BY DEF IInv, OrderInv
<1>2. QED
  BY <1>1, Invariance, PTL

=============================================================================
