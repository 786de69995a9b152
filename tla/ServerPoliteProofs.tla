-------------------------- MODULE ServerPoliteProofs --------------------------
(***************************************************************************)
(* What the server owes to clients that end with a 02 only, MayDie = {},   *)
(* for any number of them and whatever their names, also the same ones: a  *)
(* message reaches the user it names, and lists hold connected users.  The *)
(* reason is that an entry of client_map never outlives its connection: a  *)
(* client that has gone sent a 02, which is carried out, and takes the     *)
(* entry away, before the end of file can be read.                         *)
(***************************************************************************)
EXTENDS ServerProofs

USE ServerAssumption, JobAssumption
USE DEF pool, mainVars, sets, map, locals, world

(* The messages of c the server has not finished with: those that wait in  *)
(* the socket and the one a job carries.                                   *)
UnderWay(c) ==
  {inbox[c][k] : k \in DOMAIN inbox[c]}
  \cup {j.p : j \in {x \in Pending : Carries(x) /\ x.p.from = c}}

Sends(c, accion) == \E m \in UnderWay(c) : m.accion = accion

Registered(c) ==
  \E u \in Users : client_map[u] # NoEntry /\ client_map[u].from = c

(* An entry holds the descriptor of the client that registered it, under   *)
(* its name.                                                               *)
EntryInv ==
  \A u \in Users : client_map[u] # NoEntry =>
    /\ fdConn[client_map[u].fd] = client_map[u].from
    /\ Name[client_map[u].from] = u

(* A client registers and leaves under its own name, and registers first.  *)
MeantInv ==
  \A c \in Clients : \A m \in UnderWay(c) :
    /\ m.accion \in {"00", "02"} => m.user = Name[c]
    /\ m.accion = "00" => m.n = 1

(* A client that has gone but has, or may still get, an entry has a 02     *)
(* under way.                                                              *)
Gone(c) == peer[c] \in {"fin", "rst", "dead"}

LeaveInv ==
  \A c \in Clients :
    Gone(c) /\ (Registered(c) \/ Sends(c, "00")) => Sends(c, "02")

(* Once a 02 has taken the entry away its client has none, until the       *)
(* descriptor is closed; only a 06 answers after the unlock.               *)
Releasing(w) ==
  /\ step[w] \in {"clear", "remove", "close"}
  /\ running[w].run = "switch_protocol_handler"

HandlerInv ==
  \A w \in Workers :
    /\ Releasing(w) => ~Registered(running[w].p.from)
    /\ step[w] = "write" => running[w].p.accion = "06"

(* The server closes a connection after all its messages.                  *)
OpenInv ==
  \A c \in Clients : Registered(c) \/ UnderWay(c) # {} => peer[c] # "closed"

PoliteInv ==
  /\ EntryInv /\ MeantInv /\ LeaveInv /\ HandlerInv /\ OpenInv
  /\ ReachesTheNamed

-----------------------------------------------------------------------------
(* Entries.                                                                *)

(* The fields of an entry.                                                 *)
LEMMA EntryShape ==
  ASSUME TypeOK, NEW u \in Users, client_map[u] # NoEntry
  PROVE  client_map[u].fd \in Fds /\ client_map[u].from \in Clients
BY DEF TypeOK

(* What a job that carries a message out knows of it.                      *)
LEMMA CarriedFacts ==
  ASSUME IInv, NEW w \in Workers,
         running[w].run = "switch_protocol_handler",
         step[w] \notin {"idle", "return"}
  PROVE  /\ w \in Busy /\ running[w] \in Pending /\ Carries(running[w])
         /\ running[w].fd \in Fds /\ Subject(running[w]) = running[w].fd
         /\ running[w].p \in Messages /\ running[w].p.user \in Users
         /\ running[w].p.from \in Clients
         /\ fdConn[running[w].fd] = running[w].p.from
         /\ running[w].p \in UnderWay(running[w].p.from)
<1>1. /\ TypeOK /\ PhaseInv /\ OwnInv /\ w \in Busy
      /\ Subject(running[w]) = running[w].fd
  BY DEF IInv, Busy, Subject
<1>2. /\ Carries(running[w]) /\ running[w] \in Pending
      /\ running[w].fd \in Fds
      /\ running[w].p \in Messages /\ running[w].p.user \in Users
      /\ running[w].p.from \in Clients
  BY <1>1, SwitchShape, PendingJobs
<1>3. fdConn[running[w].fd] = running[w].p.from
  BY <1>1, <1>2 DEF OwnInv
<1>4. running[w].p \in UnderWay(running[w].p.from)
  BY <1>2 DEF UnderWay
<1>5. QED
  BY <1>1, <1>2, <1>3, <1>4

(* Two jobs that carry messages of one client are one job.                 *)
LEMMA CarriedOne ==
  ASSUME IInv, NEW x \in Pending, Carries(x), NEW y \in Pending,
         Subject(y) = y.fd, y.fd \in Fds, fdConn[y.fd] = x.p.from
  PROVE  x = y
<1>1. TypeOK /\ PhaseInv /\ ApartInv /\ ConnInv /\ OwnInv
  BY DEF IInv
<1>2. /\ x \in Jobs /\ x.fd \in Fds /\ Subject(x) = x.fd
      /\ x.p.from \in Clients
  BY <1>1, PendingJobs, JobShape, MessageShape DEF Carries, Subject
<1>3. fdConn[x.fd] = fdConn[y.fd] /\ fdConn[x.fd] # NoConn
  BY <1>1, <1>2 DEF OwnInv
<1>4. x.fd = y.fd
  BY <1>1, <1>2, <1>3 DEF ConnInv
<1>5. QED
  BY <1>1, <1>2, <1>4, PendingOne

(* Only a 00 makes an entry, and a 03 keeps its descriptor and its client. *)
LEMMA MapStep ==
  ASSUME TypeOK, PhaseInv, [Next]_vars, NEW u \in Users,
         client_map'[u] # NoEntry
  PROVE  \/ /\ client_map[u] # NoEntry
            /\ client_map'[u].fd = client_map[u].fd
            /\ client_map'[u].from = client_map[u].from
         \/ \E w \in Workers :
              /\ Register(w) /\ running[w].p.user = u
              /\ client_map'[u].fd = running[w].fd
              /\ client_map'[u].from = running[w].p.from
<1>1. CASE \/ Select \/ SelectFails \/ Scan \/ WaitCall \/ WaitReturns
           \/ UNCHANGED vars
           \/ \E c \in Clients : Connect(c) \/ Send(c) \/ Die(c)
  BY <1>1 DEF Select, SelectFails, Scan, WaitCall, WaitReturns, vars, Connect,
     Send, Die
<1>2. ASSUME NEW w \in Workers,
             \/ StartJob(w) \/ EndJob(w) \/ ReadMaster(w) \/ ClearMaster(w)
             \/ Accept(w) \/ SetMaster(w) \/ SetFdmax(w)
             \/ RecvMessage(w) \/ RecvEnd(w) \/ RecvFails(w)
             \/ Dispatch(w) \/ CloseClient(w) \/ UserInfo(w) \/ ListUsers(w)
             \/ AnswerList(w) \/ Deliver(w)
      PROVE  client_map' = client_map
  BY <1>2 DEF StartJob, EndJob, ReadMaster, ClearMaster, Accept, SetMaster,
     SetFdmax, RecvMessage, RecvEnd, RecvFails, Dispatch, CloseClient,
     UserInfo, ListUsers, AnswerList, Deliver
<1>3. ASSUME NEW w \in Workers, Release(w)
      PROVE  client_map'[u] = client_map[u]
  BY <1>3 DEF Release, Removed, TypeOK
<1>4. ASSUME NEW w \in Workers, ChangeStatus(w)
      PROVE  /\ client_map[u] # NoEntry
             /\ client_map'[u].fd = client_map[u].fd
             /\ client_map'[u].from = client_map[u].from
  BY <1>4 DEF ChangeStatus, TypeOK
<1>5. ASSUME NEW w \in Workers, Register(w), client_map'[u] # client_map[u]
      PROVE  /\ running[w].p.user = u
             /\ client_map'[u].fd = running[w].fd
             /\ client_map'[u].from = running[w].p.from
  BY <1>5 DEF Register, TypeOK
<1>6. QED
  BY NextCases, <1>1, <1>2, <1>3, <1>4, <1>5 DEF Works

(* A client is registered by the job that carries its 00.                  *)
LEMMA RegisteredStep ==
  ASSUME IInv, [Next]_vars, NEW c \in Clients, Registered(c)'
  PROVE  \/ Registered(c)
         \/ \E w \in Workers : /\ Register(w) /\ running[w].p.from = c
                               /\ running[w].p.accion = "00"
                               /\ step[w] = "begin"
                               /\ running[w].run = "switch_protocol_handler"
<1>1. TypeOK /\ PhaseInv
  BY DEF IInv
<1>2. PICK u \in Users : client_map'[u] # NoEntry /\ client_map'[u].from = c
  BY DEF Registered
<1>3. ASSUME NEW w \in Workers, Register(w)
      PROVE  /\ running[w].p.accion = "00" /\ step[w] = "begin"
             /\ running[w].run = "switch_protocol_handler"
  BY <1>3 DEF Register, Switch, At
<1>4. QED
  BY <1>1, <1>2, <1>3, MapStep DEF Registered

-----------------------------------------------------------------------------
(* Connections.                                                            *)

(* The two jobs that close a connection, about the descriptor it is on.    *)
Closes(w, c) ==
  /\ RecvEnd(w) \/ CloseClient(w)
  /\ fdConn[running[w].fd] = c

(* A job that closes is about a descriptor; what it closes is on no        *)
(* descriptor afterwards, and its socket is empty.                         *)
LEMMA ClosesEffect ==
  ASSUME IInv, NEW w \in Workers, RecvEnd(w) \/ CloseClient(w)
  PROVE  /\ running[w].fd \in Fds /\ Subject(running[w]) = running[w].fd
         /\ w \in Busy /\ running[w] \in Pending
         /\ fdConn[running[w].fd] \in Clients
         /\ \A g \in Fds : fdConn'[g] # fdConn[running[w].fd]
         /\ peer'[fdConn[running[w].fd]] = "closed"
         /\ inbox'[fdConn[running[w].fd]] = <<>>
         /\ \A d \in Clients : d # fdConn[running[w].fd] =>
              inbox'[d] = inbox[d] /\ peer'[d] = peer[d]
<1> DEFINE f == running[w].fd
<1>1. TypeOK /\ PhaseInv /\ ConnInv /\ OwnInv
  BY DEF IInv
<1>2. w \in Busy /\ Subject(running[w]) = f
  BY <1>1 DEF RecvEnd, CloseClient, At, Busy, Subject, PhaseInv
<1>3. f \in Fds /\ running[w] \in Pending
  BY <1>1, <1>2, PendingJobs, JobShape DEF RecvEnd, CloseClient, At, PhaseInv
<1>4. fdConn[f] \in Clients
  <2>1. CASE RecvEnd(w)
    BY <1>1, <1>3, <2>1 DEF RecvEnd, TypeOK
  <2>2. CASE CloseClient(w)
    BY <1>1, <2>2, CarriedFacts DEF CloseClient, PhaseInv
  <2>3. QED
    BY <2>1, <2>2
<1>5. Close(f)
  BY DEF RecvEnd, CloseClient
<1>6. QED
  BY <1>1, <1>2, <1>3, <1>4, <1>5 DEF Close, ConnInv, TypeOK

(* How the other end of a connection changes: by its client, who goes only *)
(* with a 02, by what the server reads or writes, and by a close.          *)
LEMMA PeerStep ==
  ASSUME MayDie = {}, IInv, [Next]_vars, NEW c \in Clients
  PROVE  /\ Gone(c)' => Gone(c) \/ (peer[c] = "open" /\ Sends(c, "02")')
         /\ peer'[c] = "closed" =>
              peer[c] = "closed" \/ \E w \in Workers : Closes(w, c)
<1>0. TypeOK /\ PhaseInv
  BY DEF IInv
<1> DEFINE P == /\ Gone(c)' => Gone(c)
                /\ peer'[c] = "closed" => peer[c] = "closed"
<1> USE DEF Gone
<1>1. CASE \/ Select \/ SelectFails \/ Scan \/ WaitCall \/ WaitReturns
           \/ UNCHANGED vars
  BY <1>1 DEF Select, SelectFails, Scan, WaitCall, WaitReturns, vars
<1>2. ASSUME NEW d \in Clients, Connect(d) \/ Die(d) PROVE P
  BY <1>0, <1>2 DEF Connect, Die, TypeOK
<1>3. ASSUME NEW d \in Clients, Send(d), d # c PROVE P
  BY <1>0, <1>3 DEF Send, TypeOK
<1>4. ASSUME Send(c), Gone(c)'
      PROVE  peer[c] = "open" /\ Sends(c, "02")'
  <2>1. PICK m \in Messages :
           /\ inbox' = [inbox EXCEPT ![c] = Append(@, m)]
           /\ \/ m.accion # "02" /\ peer' = peer
              \/ m.accion = "02"
    BY <1>4 DEF Send
  <2>2. peer[c] = "open" /\ m.accion = "02"
    BY <1>4, <2>1 DEF Send
  <2>3. inbox[c] \in Seq(Messages)
    BY <1>0 DEF TypeOK
  <2>4. inbox'[c] = Append(inbox[c], m)
    BY <1>0, <2>1 DEF TypeOK
  <2>5. /\ Len(inbox[c]) + 1 \in DOMAIN inbox'[c]
        /\ inbox'[c][Len(inbox[c]) + 1] = m
    BY <2>3, <2>4, Indices
  <2>6. m \in UnderWay(c)'
    BY <2>5 DEF UnderWay
  <2>7. QED
    BY <2>2, <2>6 DEF Sends
<1>5. ASSUME Send(c), peer'[c] = "closed" PROVE peer[c] = "closed"
  BY <1>0, <1>5 DEF Send, TypeOK
<1>6. ASSUME NEW w \in Workers,
             \/ StartJob(w) \/ EndJob(w) \/ ReadMaster(w) \/ ClearMaster(w)
             \/ Accept(w) \/ SetMaster(w) \/ SetFdmax(w)
             \/ RecvMessage(w) \/ Dispatch(w) \/ Release(w)
             \/ ChangeStatus(w) \/ ListUsers(w)
      PROVE  P
  BY <1>6 DEF StartJob, EndJob, ReadMaster, ClearMaster, Accept, SetMaster,
     SetFdmax, RecvMessage, Dispatch, Release, ChangeStatus, ListUsers
<1>7. ASSUME NEW w \in Workers, RecvFails(w) PROVE P
  BY <1>0, <1>7 DEF RecvFails, TypeOK
<1>8. ASSUME NEW w \in Workers, RecvEnd(w) \/ CloseClient(w)
      PROVE  P \/ (peer'[c] = "closed" /\ Closes(w, c))
  BY <1>8, ClosesEffect DEF Closes
<1>9. ASSUME NEW fd, NEW m, Write(fd, m) PROVE P
  BY <1>0, <1>9 DEF Write, TypeOK
<1>10. ASSUME NEW w \in Workers,
              Register(w) \/ UserInfo(w) \/ AnswerList(w) \/ Deliver(w)
       PROVE  P
  <2>1. UNCHANGED peer \/ \E fd, m : Write(fd, m)
    BY <1>10 DEF Register, UserInfo, AnswerList, Deliver
  <2>2. QED
    BY <1>9, <2>1
<1>11. QED
  BY <1>0, NextCases, <1>1, <1>2, <1>3, <1>4, <1>5, <1>6, <1>7, <1>8, <1>10
     DEF Works

-----------------------------------------------------------------------------
(* Messages under way.                                                     *)

(* Only the client that sends it brings a message under way.               *)
LEMMA SentStep ==
  ASSUME [Next]_vars, NEW c \in Clients, sent'[c] # sent[c]
  PROVE  \E d \in Clients : Send(d)
<1>1. CASE \/ Select \/ SelectFails \/ Scan \/ WaitCall \/ WaitReturns
           \/ UNCHANGED vars
           \/ \E d \in Clients : Connect(d) \/ Die(d)
  BY <1>1 DEF Select, SelectFails, Scan, WaitCall, WaitReturns, vars, Connect,
     Die
<1>2. ASSUME NEW w \in Workers, StartJob(w) \/ EndJob(w) \/ Works(w)
      PROVE  sent' = sent
  BY <1>2 DEF Works, StartJob, EndJob, ReadMaster, ClearMaster, Accept,
     SetMaster, SetFdmax, RecvMessage, RecvEnd, RecvFails, Dispatch, Register,
     Release, CloseClient, ChangeStatus, UserInfo, ListUsers, AnswerList,
     Deliver, Close, Write
<1>3. QED
  BY NextCases, <1>1, <1>2

(* A message is sent under the client's own name where the protocol wants  *)
(* it, and the 00 first.                                                   *)
SentBy(c, m) ==
  /\ Send(c)
  /\ m.accion \in {"00", "02"} => m.user = Name[c]
  /\ m.accion = "00" => m.n = 1

LEMMA NewUnderWay ==
  ASSUME IInv, [Next]_vars, NEW c \in Clients, NEW m \in UnderWay(c)'
  PROVE  m \in UnderWay(c) \/ SentBy(c, m)
<1>0. /\ TypeOK /\ PhaseInv /\ OwnInv
      /\ inbox[c] \in Seq(Messages) /\ sent[c] \in Nat
  BY DEF IInv, TypeOK, Numbers
<1>1. ASSUME NEW k \in DOMAIN inbox'[c], m = inbox'[c][k]
      PROVE  m \in UnderWay(c) \/ SentBy(c, m)
  <2>1. CASE inbox'[c] = inbox[c]
    BY <1>1, <2>1 DEF UnderWay
  <2>2. CASE sent'[c] = sent[c] + 1
    <3>1. PICK d \in Clients : Send(d)
      BY <1>0, <2>2, SentStep
    <3>2. d = c
      BY <1>0, <2>2, <3>1 DEF Send, TypeOK
    <3>3. PICK x \in Messages :
             /\ x.n = sent[c] + 1
             /\ x.accion = "00" <=> sent[c] = 0
             /\ x.accion \in {"00", "02", "03", "06"} => x.user = Name[c]
             /\ inbox' = [inbox EXCEPT ![c] = Append(@, x)]
      BY <3>1, <3>2 DEF Send
    <3>4. inbox'[c] = Append(inbox[c], x)
      BY <1>0, <3>3 DEF TypeOK
    <3>5. (k \in DOMAIN inbox[c] /\ m = inbox[c][k]) \/ m = x
      BY <1>0, <1>1, <3>4, Indices
    <3>6. SentBy(c, x)
      BY <1>0, <3>1, <3>2, <3>3 DEF SentBy
    <3>7. QED
      BY <3>5, <3>6 DEF UnderWay
  <2>3. CASE inbox[c] # <<>> /\ inbox'[c] = Tail(inbox[c])
    <3>1. k + 1 \in DOMAIN inbox[c] /\ m = inbox[c][k + 1]
      BY <1>0, <1>1, <2>3, HeadTail
    <3>2. QED
      BY <3>1 DEF UnderWay
  <2>4. CASE inbox'[c] = <<>>
    BY <1>1, <2>4
  <2>5. QED
    BY <1>0, <2>1, <2>2, <2>3, <2>4, InboxStep
<1>2. ASSUME NEW j \in Pending', Carries(j), j.p.from = c, m = j.p
      PROVE  m \in UnderWay(c)
  <2>1. CASE \E x \in Pending : Carries(x) /\ x.p = j.p
    BY <1>2, <2>1 DEF UnderWay
  <2>2. ASSUME NEW d \in Clients, inbox[d] # <<>>, j.p = Head(inbox[d])
        PROVE  m \in UnderWay(c)
    <3>1. 1 \in DOMAIN inbox[d] /\ j.p = inbox[d][1]
      BY <1>0, <2>2, HeadTail DEF TypeOK
    <3>2. d = c
      BY <1>0, <1>2, <3>1 DEF OwnInv
    <3>3. QED
      BY <1>2, <3>1, <3>2 DEF UnderWay
  <2>3. QED
    BY <1>0, <1>2, <2>1, <2>2, CarriedStep
<1>3. QED
  BY <1>1, <1>2 DEF UnderWay, Carries


(* The sockets change by what clients send, by recv() and by a close.      *)
LEMMA InboxKept ==
  ASSUME IInv, [Next]_vars, NEW c \in Clients, NEW k \in DOMAIN inbox[c]
  PROVE  \/ inbox[c][k] \in UnderWay(c)'
         \/ \E w \in Workers : Closes(w, c)
<1> DEFINE m == inbox[c][k]
<1>0. TypeOK /\ PhaseInv /\ OwnInv /\ inbox[c] \in Seq(Messages)
  BY DEF IInv, TypeOK
<1>1. CASE inbox'[c] = inbox[c]
  BY <1>1 DEF UnderWay
<1>2. CASE \E x \in Messages : inbox'[c] = Append(inbox[c], x)
  <2>1. PICK x \in Messages : inbox'[c] = Append(inbox[c], x)
    BY <1>2
  <2>2. k \in DOMAIN inbox'[c] /\ inbox'[c][k] = inbox[c][k]
    BY <1>0, <2>1, Indices
  <2>3. QED
    BY <2>2 DEF UnderWay
<1>3. ASSUME NEW w \in Workers, RecvMessage(w), fdConn[running[w].fd] = c
      PROVE  m \in UnderWay(c)'
  <2>1. inbox[c] # <<>> /\ inbox'[c] = Tail(inbox[c])
    BY <1>0, <1>3 DEF RecvMessage, Received, TypeOK
  <2>2. CASE k = 1
    <3>1. PICK j : /\ j.run = "new_protocol_handler"
                   /\ j.p = Head(inbox[c])
                   /\ queue' = Append(queue, j)
                   /\ j = [run |-> "new_protocol_handler",
                           fd |-> running[w].fd, p |-> Head(inbox[c])]
      BY <1>3 DEF RecvMessage, Pool!SubmitByJob
    <3>2. running[w].fd \in Fds /\ Head(inbox[c]) \in Messages
          /\ Head(inbox[c]) = m
      BY <1>0, <1>3, <2>1, <2>2, AtJob, JobShape, HeadTail
         DEF RecvMessage, At
    <3>3. j \in Jobs /\ queue \in Seq(Jobs)
      BY <1>0, <3>1, <3>2 DEF Jobs, TypeOK, Pool!PoolTypeOK
    <3>4. Len(queue) + 1 \in DOMAIN queue' /\ queue'[Len(queue) + 1] = j
      BY <3>1, <3>3, Indices
    <3>5. j \in Pending'
      BY <3>4 DEF Pending
    <3>6. j.p.from = c /\ Carries(j) /\ j.p = m
      BY <1>0, <3>1, <3>2 DEF OwnInv, Carries
    <3>7. QED
      BY <3>5, <3>6 DEF UnderWay, Carries
  <2>3. CASE k # 1
    <3>1. k - 1 \in DOMAIN inbox'[c] /\ inbox'[c][k - 1] = m
      BY <1>0, <2>1, <2>3, HeadTail
    <3>2. QED
      BY <3>1 DEF UnderWay
  <2>4. QED
    BY <2>2, <2>3
<1>4. ASSUME inbox'[c] # inbox[c], inbox'[c] = <<>>
      PROVE  \E w \in Workers : Closes(w, c) \/ RecvMessage(w)
  <2>1. ASSUME NEW d \in Clients, Send(d) PROVE FALSE
    <3>1. PICK x \in Messages : inbox' = [inbox EXCEPT ![d] = Append(@, x)]
      BY <2>1 DEF Send
    <3>2. d = c /\ inbox'[c] = Append(inbox[c], x)
      BY <1>0, <1>4, <3>1 DEF TypeOK
    <3>3. QED
      BY <1>0, <1>4, <3>2, Indices, EmptySeq
  <2>2. CASE \/ Select \/ SelectFails \/ Scan \/ WaitCall \/ WaitReturns
             \/ UNCHANGED vars
             \/ \E d \in Clients : Connect(d) \/ Die(d)
    BY <1>4, <2>2 DEF Select, SelectFails, Scan, WaitCall, WaitReturns, vars,
       Connect, Die
  <2>3. ASSUME NEW w \in Workers, RecvEnd(w) \/ CloseClient(w)
        PROVE  Closes(w, c)
    BY <1>4, <2>3, ClosesEffect DEF Closes
  <2>4. ASSUME NEW w \in Workers, StartJob(w) \/ EndJob(w) \/ Works(w)
        PROVE  RecvMessage(w) \/ RecvEnd(w) \/ CloseClient(w)
    BY <1>4, <2>4 DEF Works, StartJob, EndJob, ReadMaster, ClearMaster, Accept,
       SetMaster, SetFdmax, RecvFails, Dispatch, Register, Release,
       ChangeStatus, UserInfo, ListUsers, AnswerList, Deliver, Write
  <2>5. QED
    BY NextCases, <2>1, <2>2, <2>3, <2>4
<1>5. ASSUME NEW w \in Workers, RecvMessage(w), inbox'[c] # inbox[c]
      PROVE  fdConn[running[w].fd] = c
  BY <1>0, <1>5 DEF RecvMessage, Received, TypeOK
<1>6. CASE /\ inbox'[c] = Tail(inbox[c])
           /\ \E w \in Workers : RecvMessage(w) /\ fdConn[running[w].fd] = c
  BY <1>3, <1>6
<1>7. QED
  BY <1>0, <1>1, <1>2, <1>3, <1>4, <1>5, <1>6, InboxStep

(* A job that carries a 02 carries it until it is done: the handlers of    *)
(* the other messages leave it alone.                                      *)
LEMMA LeaveCarried ==
  ASSUME IInv, HandlerInv, [Next]_vars, NEW j \in Pending, Carries(j),
         j.p.accion = "02"
  PROVE  \/ j.p \in UnderWay(j.p.from)'
         \/ \E w \in Workers :
              /\ running[w] = j
              /\ Closes(w, j.p.from) \/ (Release(w) /\ step'[w] = "return")
<1>0. /\ TypeOK /\ PhaseInv /\ queue \in Seq(Jobs)
      /\ Len(queue) \in Nat /\ DOMAIN queue = 1..Len(queue)
  BY LenProperties DEF IInv, TypeOK, Pool!PoolTypeOK
<1>1. ASSUME j \in Pending' PROVE j.p \in UnderWay(j.p.from)'
  BY <1>1 DEF UnderWay, Carries
<1>2. CASE UNCHANGED <<queue, running, step>>
  BY <1>1, <1>2 DEF Pending, Busy
<1>3. CASE Scan
  BY <1>0, <1>1, <1>3, ScanEffect, PendingAdd
<1>4. ASSUME NEW w \in Workers, StartJob(w) PROVE j \in Pending'
  <2>1. ASSUME NEW k \in DOMAIN queue, j = queue[k] PROVE j \in Pending'
    <3>1. CASE k = 1
      BY <1>0, <1>4, <2>1, <3>1, StartEffect DEF Pending
    <3>2. CASE k # 1
      <4>1. k - 1 \in DOMAIN queue' /\ queue'[k - 1] = j
        BY <1>0, <1>4, <2>1, <3>2, StartEffect
      <4>2. QED
        BY <4>1 DEF Pending
    <3>3. QED
      BY <3>1, <3>2
  <2>2. ASSUME NEW v \in Busy, j = running[v] PROVE j \in Pending'
    <3>1. v \in Busy' /\ running'[v] = j
      BY <1>0, <1>4, <2>2, StartEffect DEF Busy
    <3>2. QED
      BY <3>1 DEF Pending
  <2>3. QED
    BY <2>1, <2>2 DEF Pending
<1>5. ASSUME NEW w \in Workers, EndJob(w) PROVE j \in Pending'
  <2>1. ASSUME NEW v \in Busy PROVE v \in Busy' /\ running'[v] = running[v]
    BY <1>0, <1>5, <2>1, EndEffect DEF Busy
  <2>2. queue' = queue
    BY <1>0, <1>5, EndEffect
  <2>3. QED
    BY <2>1, <2>2 DEF Pending
<1>6. ASSUME NEW w \in Workers, GoesOn(w), Works(w), j \notin Pending'
      PROVE  \/ j.p \in UnderWay(j.p.from)'
             \/ /\ running[w] = j
                /\ \/ Closes(w, j.p.from)
                   \/ Release(w) /\ step'[w] = "return"
  <2>1. running' = running /\ w \in Busy
        /\ \A v \in Workers \ {w} : step'[v] = step[v]
    BY <1>0, <1>6 DEF GoesOn, TypeOK
  <2>2. ASSUME NEW k \in DOMAIN queue
        PROVE  k \in DOMAIN queue' /\ queue'[k] = queue[k]
    BY <1>0, <1>6, <2>2, Indices DEF GoesOn
  <2>3. j = running[w] /\ step'[w] \in {"idle", "return"}
    <3>1. ~\E k \in DOMAIN queue : queue[k] = j
      BY <1>6, <2>2 DEF Pending
    <3>2. PICK v \in Busy : running[v] = j
      BY <3>1 DEF Pending
    <3>3. v \notin Busy'
      BY <1>6, <2>1, <3>2 DEF Pending
    <3>4. QED
      BY <2>1, <3>2, <3>3 DEF Busy
  <2>4. CASE Dispatch(w)
    <3>1. queue' = Append(queue, NextJob(j))
      BY <2>3, <2>4 DEF Dispatch, Pool!SubmitByJob
    <3>2. j \in Jobs /\ j.run = "new_protocol_handler"
      BY <1>0, <2>3, <2>4, PendingJobs DEF Dispatch, At
    <3>3. NextJob(j) \in Jobs /\ Carries(NextJob(j)) /\ NextJob(j).p = j.p
      BY <3>2 DEF NextJob, Jobs, Carries
    <3>4. Len(queue) + 1 \in DOMAIN queue'
          /\ queue'[Len(queue) + 1] = NextJob(j)
      BY <1>0, <3>1, <3>3, Indices
    <3>5. NextJob(j) \in Pending'
      BY <3>4 DEF Pending
    <3>6. QED
      BY <3>3, <3>5 DEF UnderWay, Carries
  <2>5. CASE CloseClient(w)
    <3>1. fdConn[running[w].fd] = j.p.from
      BY <1>0, <2>3, <2>5, CarriedFacts DEF CloseClient, PhaseInv
    <3>2. QED
      BY <2>3, <2>5, <3>1 DEF Closes
  <2>6. CASE Release(w)
    BY <1>0, <2>3, <2>6 DEF Release, Goto, TypeOK
  <2>7. ASSUME \/ ReadMaster(w) \/ ClearMaster(w) \/ Accept(w) \/ SetMaster(w)
               \/ SetFdmax(w) \/ RecvMessage(w) \/ RecvEnd(w) \/ RecvFails(w)
        PROVE  FALSE
    BY <1>0, <2>3, <2>7 DEF ReadMaster, ClearMaster, Accept, SetMaster,
       SetFdmax, RecvMessage, RecvEnd, RecvFails, At, Goto, Carries, PhaseInv,
       Accepting, TypeOK
  <2>8. ASSUME \/ Register(w) \/ ChangeStatus(w) \/ UserInfo(w)
               \/ ListUsers(w) \/ AnswerList(w) \/ Deliver(w)
        PROVE  FALSE
    BY <1>0, <2>3, <2>8 DEF Register, ChangeStatus, UserInfo, ListUsers,
       AnswerList, Deliver, Switch, HandlerInv
  <2>9. QED
    BY <1>6, <2>4, <2>5, <2>6, <2>7, <2>8 DEF Works
<1>7. QED
  BY <1>0, <1>1, <1>2, <1>3, <1>4, <1>5, <1>6, JobsStep


(* What happens to a 02 that was under way.                                *)
LEMMA LeaveKept ==
  ASSUME IInv, HandlerInv, [Next]_vars, NEW c \in Clients, Sends(c, "02")
  PROVE  \/ Sends(c, "02")'
         \/ \E w \in Workers : Closes(w, c)
         \/ \E w \in Workers : /\ Release(w) /\ step'[w] = "return"
                               /\ running[w].p.from = c
<1>1. PICK m \in UnderWay(c) : m.accion = "02"
  BY DEF Sends
<1>2. CASE \E k \in DOMAIN inbox[c] : m = inbox[c][k]
  BY <1>1, <1>2, InboxKept DEF Sends
<1>3. CASE \E j \in Pending : Carries(j) /\ j.p.from = c /\ j.p = m
  BY <1>1, <1>3, LeaveCarried DEF Sends
<1>4. QED
  BY <1>2, <1>3 DEF UnderWay

-----------------------------------------------------------------------------
(* The conjuncts of the invariant.                                         *)

(* A client keeps sending under its name.                                  *)
LEMMA MeantStep ==
  ASSUME IInv, MeantInv, [Next]_vars
  PROVE  MeantInv'
<1>1. ASSUME NEW c \in Clients, NEW m \in UnderWay(c)'
      PROVE  /\ m.accion \in {"00", "02"} => m.user = Name[c]
             /\ m.accion = "00" => m.n = 1
  BY <1>1, NewUnderWay DEF MeantInv, SentBy
<1>2. QED
  BY <1>1 DEF MeantInv

(* The close of a descriptor leaves no entry with it: its client sent a    *)
(* 02, or the job that closes carries it, so the entry went before.        *)
LEMMA EntryStep ==
  ASSUME IInv, EntryInv, MeantInv, LeaveInv, HandlerInv, [Next]_vars
  PROVE  EntryInv'
<1>0. TypeOK /\ PhaseInv /\ OwnInv /\ ConnInv
  BY DEF IInv
<1>1. ASSUME NEW u \in Users, client_map[u] # NoEntry
      PROVE  /\ fdConn'[client_map[u].fd] = client_map[u].from
             /\ Name[client_map[u].from] = u
  <2> DEFINE f == client_map[u].fd
             c == client_map[u].from
  <2>1. f \in Fds /\ c \in Clients /\ fdConn[f] = c /\ Name[c] = u
    BY <1>0, <1>1, EntryShape DEF EntryInv
  <2>2. Registered(c)
    BY <1>1 DEF Registered
  <2> HIDE DEF f, c
  <2>3. ASSUME NEW v \in Busy, CloseClient(v), running[v].fd = f PROVE FALSE
    <3>1. v \in Workers /\ running[v].p.from = c /\ Releasing(v)
      BY <1>0, <2>1, <2>3, CarriedFacts
         DEF CloseClient, PhaseInv, Busy, Releasing
    <3>2. QED
      BY <2>2, <3>1 DEF HandlerInv
  <2>4. ASSUME NEW v \in Busy, RecvEnd(v), running[v].fd = f PROVE FALSE
    <3>1. inbox[c] = <<>> /\ Gone(c)
      BY <2>1, <2>4 DEF RecvEnd, Gone
    <3>2. PICK m \in UnderWay(c) : m.accion = "02"
      BY <2>1, <2>2, <3>1 DEF LeaveInv, Sends
    <3>3. PICK j \in Pending : Carries(j) /\ j.p.from = c
      BY <3>1, <3>2 DEF UnderWay
    <3>4. running[v] \in Pending /\ Subject(running[v]) = f
      BY <1>0, <2>4, PendingJobs DEF RecvEnd, At, Subject
    <3>5. j = running[v]
      BY <2>1, <2>4, <3>3, <3>4, CarriedOne
    <3>6. QED
      BY <2>4, <3>3, <3>5 DEF RecvEnd, At, Carries
  <2>5. fdConn'[f] = c
    BY <1>0, <2>1, <2>3, <2>4, FdStep
  <2>6. QED
    BY <2>1, <2>5 DEF f, c
<1>2. ASSUME NEW w \in Workers, Register(w)
      PROVE  /\ fdConn'[running[w].fd] = running[w].p.from
             /\ Name[running[w].p.from] = running[w].p.user
  <2>1. /\ running[w].run = "switch_protocol_handler" /\ step[w] = "begin"
        /\ running[w].p.accion = "00" /\ fdConn' = fdConn
    BY <1>2 DEF Register, Switch, At, Write
  <2>2. /\ fdConn[running[w].fd] = running[w].p.from
        /\ running[w].p.from \in Clients
        /\ running[w].p \in UnderWay(running[w].p.from)
    BY <2>1, CarriedFacts
  <2>3. QED
    BY <2>1, <2>2 DEF MeantInv
<1>3. QED
  BY <1>0, <1>1, <1>2, MapStep DEF EntryInv

(* What a client that goes leaves behind: the 02 that it sent last takes   *)
(* its entry away, and there is no 00 after it.                            *)
LEMMA LeaveStep ==
  ASSUME MayDie = {}, IInv, EntryInv, MeantInv, LeaveInv, HandlerInv,
         [Next]_vars
  PROVE  LeaveInv'
<1>0. TypeOK /\ PhaseInv /\ ApartInv /\ ConnInv /\ OwnInv /\ OrderInv
  BY DEF IInv
<1> SUFFICES ASSUME NEW c \in Clients, Gone(c)',
                    Registered(c)' \/ Sends(c, "00")'
             PROVE  Sends(c, "02")'
  BY DEF LeaveInv
<1>1. CASE ~Gone(c)
  BY <1>1, PeerStep
<1>2. CASE Gone(c)
  <2>1. ASSUME NEW m \in UnderWay(c)' PROVE m \in UnderWay(c)
    BY <1>2, NewUnderWay DEF SentBy, Send, Gone
  <2>2. Registered(c) \/ Sends(c, "00")
    <3>1. CASE Sends(c, "00")'
      BY <2>1, <3>1 DEF Sends
    <3>2. ASSUME NEW w \in Workers, running[w].p.from = c, step[w] = "begin",
                 running[w].p.accion = "00",
                 running[w].run = "switch_protocol_handler"
          PROVE  Sends(c, "00")
      BY <3>2, CarriedFacts DEF Sends
    <3>3. CASE Registered(c)'
      BY <3>2, <3>3, RegisteredStep
    <3>4. QED
      BY <3>1, <3>3
  <2>3. Sends(c, "02")
    BY <1>2, <2>2 DEF LeaveInv
  <2>4. ASSUME NEW w \in Workers, Closes(w, c) PROVE FALSE
    BY <2>4, ClosesEffect DEF Closes, Gone
  <2>5. ASSUME NEW w \in Workers, Release(w), step'[w] = "return",
               running[w].p.from = c
        PROVE  FALSE
    <3> DEFINE p == running[w].p
    <3>1. /\ running[w].run = "switch_protocol_handler" /\ step[w] = "begin"
          /\ p.accion = "02"
      BY <2>5 DEF Release, Switch, At
    <3>2. /\ client_map[p.user] = NoEntry
          /\ UNCHANGED <<client_map, inbox, fdConn, queue>>
      BY <1>0, <2>5 DEF Release, Goto, TypeOK
    <3>3. /\ w \in Busy /\ running[w] \in Pending /\ Carries(running[w])
          /\ running[w].fd \in Fds /\ Subject(running[w]) = running[w].fd
          /\ p \in Messages /\ fdConn[running[w].fd] = c /\ p \in UnderWay(c)
      BY <2>5, <3>1, CarriedFacts
    <3>4. p.user = Name[c] /\ p.n \in Nat \ {0}
      <4>1. p.n \in Nat \ {0}
        BY <3>3 DEF Messages, Numbers
      <4>2. QED
        BY <3>1, <3>3, <4>1 DEF MeantInv
    <3>5. ~Registered(c)'
      BY <1>0, <3>2, <3>4 DEF Registered, EntryInv
    <3>6. ASSUME NEW m \in UnderWay(c)', m.accion = "00" PROVE FALSE
      <4>1. m.n = 1
        BY <2>1, <3>6 DEF MeantInv
      <4>2. ASSUME NEW k \in DOMAIN inbox[c], m = inbox[c][k] PROVE FALSE
        <5>1. p.n < m.n
          BY <1>0, <2>5, <3>3, <4>2 DEF OrderInv
        <5>2. QED
          BY <3>4, <4>1, <5>1
      <4>3. ASSUME NEW j \in Pending', Carries(j), j.p.from = c PROVE FALSE
        <5>1. GoesOn(w)
          BY <1>0, <2>5, WorksGoesOn DEF Works
        <5>2. j \in Pending /\ Subject(j) # Subject(running[w])
          BY <1>0, <2>5, <3>2, <4>3, <5>1, PendingGone
        <5>3. j = running[w]
          BY <3>3, <4>3, <5>2, CarriedOne
        <5>4. QED
          BY <5>2, <5>3
      <4>4. QED
        BY <3>2, <4>2, <4>3 DEF UnderWay, Carries
    <3>7. QED
      BY <3>5, <3>6 DEF Sends
  <2>6. QED
    BY <2>3, <2>4, <2>5, LeaveKept
<1>3. QED
  BY <1>1, <1>2


(* How a job gets to the steps of HandlerInv.                              *)
LEMMA HandlerCases ==
  ASSUME IInv, [Next]_vars, NEW w \in Workers
  PROVE  /\ Releasing(w)' =>
              \/ Releasing(w) /\ running'[w] = running[w]
              \/ Release(w) /\ running'[w] = running[w]
         /\ step'[w] = "write" =>
              \/ step[w] = "write" /\ running'[w] = running[w]
              \/ ListUsers(w) /\ running'[w] = running[w]
<1>0. TypeOK /\ PhaseInv
  BY DEF IInv
<1> USE DEF Releasing
<1>1. CASE UNCHANGED <<queue, running, step>> \/ Scan
  BY <1>0, <1>1, ScanEffect
<1>2. ASSUME NEW v \in Workers, StartJob(v) \/ EndJob(v), v # w
      PROVE  running'[w] = running[w] /\ step'[w] = step[w]
  BY <1>0, <1>2, StartEffect, EndEffect
<1>3. CASE StartJob(w) \/ EndJob(w)
  BY <1>0, <1>3, StartEffect, EndEffect
<1>4. ASSUME NEW v \in Workers, GoesOn(v), v # w
      PROVE  running'[w] = running[w] /\ step'[w] = step[w]
  BY <1>0, <1>4 DEF GoesOn, TypeOK
<1>5. ASSUME Works(w), GoesOn(w)
      PROVE  /\ running'[w] = running[w]
             /\ Releasing(w)' => Releasing(w) \/ Release(w)
             /\ step'[w] = "write" => ListUsers(w)
  BY <1>0, <1>5 DEF GoesOn, Works, ReadMaster, ClearMaster, Accept, SetMaster,
     SetFdmax, RecvMessage, RecvEnd, RecvFails, Dispatch, Register, Release,
     CloseClient, ChangeStatus, UserInfo, ListUsers, AnswerList, Deliver,
     At, Switch, Goto, TypeOK
<1>6. QED
  BY <1>0, <1>1, <1>2, <1>3, <1>4, <1>5, JobsStep

(* The 02 takes the entry of its client, and no other job of that client   *)
(* makes one before the descriptor is closed.                              *)
LEMMA HandlerStep ==
  ASSUME IInv, EntryInv, MeantInv, HandlerInv, [Next]_vars
  PROVE  HandlerInv'
<1>0. TypeOK /\ PhaseInv /\ ApartInv
  BY DEF IInv
<1> SUFFICES ASSUME NEW w \in Workers, NEW c, c = running[w].p.from
             PROVE  /\ Releasing(w)' => ~Registered(c)'
                    /\ step'[w] = "write" => running'[w].p.accion = "06"
  BY HandlerCases DEF HandlerInv, Registered
<1>1. ASSUME Releasing(w), Registered(c)' PROVE FALSE
  <2>1. /\ w \in Busy /\ running[w] \in Pending /\ c \in Clients
        /\ running[w].fd \in Fds /\ Subject(running[w]) = running[w].fd
        /\ fdConn[running[w].fd] = c
    BY <1>1, CarriedFacts DEF Releasing
  <2>2. ~Registered(c)
    BY <1>1 DEF HandlerInv
  <2>3. PICK v \in Workers : /\ running[v].p.from = c /\ step[v] = "begin"
                             /\ running[v].run = "switch_protocol_handler"
    BY <1>1, <2>1, <2>2, RegisteredStep
  <2>4. /\ v \in Busy /\ running[v] \in Pending /\ Carries(running[v])
    BY <2>3, CarriedFacts
  <2>5. running[v] = running[w]
    BY <2>1, <2>3, <2>4, CarriedOne
  <2>6. v = w
    BY <1>0, <2>1, <2>4, <2>5 DEF ApartInv
  <2>7. QED
    BY <1>1, <2>3, <2>6 DEF Releasing
<1>2. ASSUME Release(w), Releasing(w)', Registered(c)' PROVE FALSE
  <2> DEFINE p == running[w].p
  <2>1. /\ running[w].run = "switch_protocol_handler" /\ step[w] = "begin"
        /\ p.accion = "02" /\ client_map' = Removed(p.user)
    BY <1>0, <1>2 DEF Release, Switch, At, Releasing, Goto, TypeOK
  <2>2. c \in Clients /\ p \in UnderWay(c) /\ p.user \in Users
    BY <2>1, CarriedFacts
  <2>3. p.user = Name[c]
    BY <2>1, <2>2 DEF MeantInv
  <2>4. PICK u \in Users : client_map'[u] # NoEntry /\ client_map'[u].from = c
    BY <1>2 DEF Registered
  <2>5. u # p.user /\ client_map[u] # NoEntry /\ client_map[u].from = c
    BY <1>0, <2>1, <2>2, <2>4 DEF Removed, TypeOK
  <2>6. QED
    BY <2>3, <2>5 DEF EntryInv
<1>3. ListUsers(w) => running[w].p.accion = "06"
  BY DEF ListUsers, Switch
<1>4. QED
  BY <1>1, <1>2, <1>3, HandlerCases DEF HandlerInv

(* A connection is closed after its last message, and not while its client *)
(* is registered.                                                          *)
LEMMA OpenStep ==
  ASSUME MayDie = {}, IInv, EntryInv', OpenInv, [Next]_vars
  PROVE  OpenInv'
<1>0. /\ TypeOK /\ PhaseInv /\ ApartInv /\ OwnInv
      /\ TypeOK' /\ PhaseInv' /\ OwnInv'
  BY NextInv, OwnStep DEF IInv
<1> SUFFICES ASSUME NEW c \in Clients, peer'[c] = "closed",
                    Registered(c)' \/ UnderWay(c)' # {}
             PROVE  FALSE
  BY DEF OpenInv
<1>1. CASE peer[c] = "closed"
  <2>1. ~Registered(c) /\ UnderWay(c) = {}
    BY <1>1 DEF OpenInv
  <2>2. ASSUME NEW m \in UnderWay(c)' PROVE FALSE
    BY <1>1, <2>1, <2>2, NewUnderWay DEF SentBy, Send
  <2>3. ASSUME NEW w \in Workers, running[w].p.from = c, step[w] = "begin",
               running[w].run = "switch_protocol_handler"
        PROVE  FALSE
    BY <2>1, <2>3, CarriedFacts
  <2>4. QED
    BY <2>1, <2>2, <2>3, RegisteredStep
<1>2. ASSUME NEW w \in Workers, Closes(w, c) PROVE FALSE
  <2>1. inbox'[c] = <<>> /\ \A g \in Fds : fdConn'[g] # c
    BY <1>2, ClosesEffect DEF Closes
  <2>2. ASSUME NEW j \in Pending', Carries(j), j.p.from = c PROVE FALSE
    <3>1. fdConn'[j.fd] = c
      BY <1>0, <2>2 DEF OwnInv, Carries
    <3>2. j.fd \in Fds
      BY <1>0, <2>2, CarriedStep, JobShape DEF Carries
    <3>3. QED
      BY <2>1, <3>1, <3>2
  <2>3. ASSUME NEW u \in Users, client_map'[u] # NoEntry,
               client_map'[u].from = c
        PROVE  FALSE
    <3>1. client_map'[u].fd \in Fds
      BY <1>0, <2>3 DEF TypeOK
    <3>2. QED
      BY <2>1, <2>3, <3>1 DEF EntryInv
  <2>4. QED
    BY <2>1, <2>2, <2>3 DEF Registered, UnderWay, Carries
<1>3. QED
  BY <1>1, <1>2, PeerStep


(* Only the handler of an 08 writes one, to the descriptor in the entry of *)
(* the name it is for.                                                     *)
LEMMA DeliveredStep ==
  ASSUME IInv, [Next]_vars, NEW c \in Clients, NEW k \in DOMAIN outbox'[c],
         outbox'[c][k].accion = "08"
  PROVE  \/ k \in DOMAIN outbox[c] /\ outbox'[c][k] = outbox[c][k]
         \/ LET u == outbox'[c][k].user
            IN  /\ u \in Users /\ client_map[u] # NoEntry
                /\ fdConn[client_map[u].fd] = c
<1>0. TypeOK /\ PhaseInv /\ outbox[c] \in Seq(Answers)
  BY DEF IInv, TypeOK
<1>1. CASE outbox'[c] = outbox[c]
  BY <1>1
<1>2. ASSUME NEW m \in Answers, outbox'[c] = Append(outbox[c], m)
      PROVE  \/ k \in DOMAIN outbox[c] /\ outbox'[c][k] = outbox[c][k]
             \/ outbox'[c][k] = m
  BY <1>0, <1>2, Indices
<1>3. ASSUME NEW fd, NEW m, Write(fd, m), outbox'[c] # outbox[c]
      PROVE  fdConn[fd] = c /\ outbox'[c] = Append(outbox[c], m)
  BY <1>0, <1>3 DEF Write, TypeOK
<1>4. ASSUME NEW w \in Workers, outbox'[c] # outbox[c],
             Register(w) \/ UserInfo(w) \/ AnswerList(w) \/ Deliver(w)
      PROVE  \/ k \in DOMAIN outbox[c] /\ outbox'[c][k] = outbox[c][k]
             \/ LET u == outbox'[c][k].user
                IN  /\ u \in Users /\ client_map[u] # NoEntry
                    /\ fdConn[client_map[u].fd] = c
  <2> DEFINE p == running[w].p
  <2>0. p \in Messages /\ p.user \in Users
    BY <1>0, <1>4, CarriedFacts DEF Register, UserInfo, AnswerList, Deliver,
       Switch, At, PhaseInv
  <2>1. CASE Register(w)
    <3>1. Write(running[w].fd, Answer(p, "01"))
      BY <1>4, <2>1 DEF Register
    <3>2. Answer(p, "01") \in Answers /\ Answer(p, "01").accion = "01"
      BY <2>0, AnswerShape DEF Answer
    <3>3. QED
      BY <1>2, <1>3, <1>4, <3>1, <3>2
  <2>2. CASE UserInfo(w)
    <3>1. /\ client_map[p.user] # NoEntry
          /\ Write(running[w].fd, StatusAnswer(p, client_map[p.user].status))
      BY <1>4, <2>2 DEF UserInfo
    <3>2. client_map[p.user].status \in {"0", "1"}
      BY <1>0, <2>0, <3>1 DEF TypeOK
    <3>3. PICK m \in Answers :
             /\ m.accion = "05"
             /\ Write(running[w].fd, m)
      BY <2>0, <3>1, <3>2, AnswerShape DEF StatusAnswer
    <3>4. QED
      BY <1>2, <1>3, <1>4, <3>3
  <2>3. CASE AnswerList(w)
    <3>1. PICK m \in Answers :
             /\ m.accion = "07"
             /\ Write(running[w].fd, m)
      BY <1>0, <2>0, <2>3, AnswerShape DEF AnswerList, ListAnswer, TypeOK
    <3>2. QED
      BY <1>2, <1>3, <1>4, <3>1
  <2>4. CASE Deliver(w)
    <3>1. PICK m \in Answers :
             /\ m.user = p.user
             /\ client_map[p.user] # NoEntry
             /\ Write(client_map[p.user].fd, m)
      BY <1>4, <2>0, <2>4, AnswerShape DEF Deliver, Answer
    <3>2. QED
      BY <1>2, <1>3, <1>4, <2>0, <3>1
  <2>5. QED
    BY <1>4, <2>1, <2>2, <2>3, <2>4
<1>5. CASE \/ Select \/ SelectFails \/ Scan \/ WaitCall \/ WaitReturns
           \/ UNCHANGED vars
           \/ \E d \in Clients : Connect(d) \/ Send(d) \/ Die(d)
  BY <1>5 DEF Select, SelectFails, Scan, WaitCall, WaitReturns, vars, Connect,
     Send, Die
<1>6. ASSUME NEW w \in Workers, outbox' # outbox,
             StartJob(w) \/ EndJob(w) \/ Works(w)
      PROVE  Register(w) \/ UserInfo(w) \/ AnswerList(w) \/ Deliver(w)
  BY <1>6 DEF Works, StartJob, EndJob, ReadMaster, ClearMaster, Accept,
     SetMaster, SetFdmax, RecvMessage, RecvEnd, RecvFails, Dispatch, Release,
     CloseClient, ChangeStatus, ListUsers, Close
<1>7. QED
  BY NextCases, <1>1, <1>4, <1>5, <1>6

(* An 08 goes to the client that registered the name: the entry of a name  *)
(* is that of a client who uses it.                                        *)
LEMMA ReachesStep ==
  ASSUME IInv, EntryInv, ReachesTheNamed, [Next]_vars
  PROVE  ReachesTheNamed'
<1>1. ASSUME NEW c \in Clients, NEW k \in DOMAIN outbox'[c],
             outbox'[c][k].accion = "08"
      PROVE  outbox'[c][k].user = Name[c]
  BY <1>1, DeliveredStep DEF ReachesTheNamed, EntryInv
<1>2. QED
  BY <1>1 DEF ReachesTheNamed

-----------------------------------------------------------------------------
(* The theorems.                                                           *)

(* The server starts with an empty map, and nothing was sent.              *)
LEMMA PoliteInit == ASSUME Init PROVE PoliteInv
<1>1. /\ \A u \in Users : client_map[u] = NoEntry
      /\ \A c \in Clients : inbox[c] = <<>> /\ outbox[c] = <<>>
      /\ \A c \in Clients : peer[c] = "none"
      /\ \A w \in Workers : step[w] = "idle"
      /\ queue = <<>>
  BY DEF Init, Pool!PoolInit
<1>2. Pending = {}
  BY <1>1 DEF Pending, Busy
<1>3. \A c \in Clients : UnderWay(c) = {} /\ ~Registered(c)
  BY <1>1, <1>2 DEF UnderWay, Registered
<1>4. EntryInv /\ MeantInv /\ LeaveInv /\ OpenInv
  BY <1>1, <1>3 DEF EntryInv, MeantInv, LeaveInv, OpenInv, Gone
<1>5. HandlerInv /\ ReachesTheNamed
  BY <1>1 DEF HandlerInv, Releasing, ReachesTheNamed
<1>6. QED
  BY <1>4, <1>5 DEF PoliteInv

(* With IInv it is kept by every step if no client dies.                   *)
LEMMA PoliteNext ==
  ASSUME MayDie = {}, IInv, PoliteInv, [Next]_vars
  PROVE  PoliteInv'
<1> USE DEF PoliteInv
<1>1. EntryInv' /\ MeantInv'
  BY EntryStep, MeantStep
<1>2. LeaveInv' /\ HandlerInv'
  BY LeaveStep, HandlerStep
<1>3. OpenInv' /\ ReachesTheNamed'
  BY <1>1, OpenStep, ReachesStep
<1>4. QED
  BY <1>1, <1>2, <1>3

(* If clients leave with a 02 only, the entries of client_map are those of *)
(* connections that are open, each under the name of its client.           *)
THEOREM PoliteInvariance == ASSUME MayDie = {} PROVE Spec => []PoliteInv
<1>1. Init => PoliteInv
  BY PoliteInit
<1>2. IInv /\ PoliteInv /\ [Next]_vars => PoliteInv'
  BY PoliteNext
<1>3. QED
  BY <1>1, <1>2, Invariance, PTL DEF Spec

(* README.md:61, 08: if clients leave with a 02 only, a message reaches    *)
(* the client that uses the name of its destination, or nobody.            *)
THEOREM PoliteMessages ==
  ASSUME MayDie = {} PROVE Spec => []ReachesTheNamed
<1>1. PoliteInv => ReachesTheNamed
  BY DEF PoliteInv
<1>2. QED
  BY <1>1, PoliteInvariance, PTL

(* README.md:48, 06: if clients leave with a 02 only, a list names users   *)
(* whose connection the server has not closed.                             *)
THEOREM PoliteLists == ASSUME MayDie = {} PROVE Spec => ListsConnected
<1>1. ASSUME IInv, PoliteInv, [Next]_vars,
             NEW w \in Workers, step[w] # "write", step'[w] = "write",
             NEW u \in clients_list'[w]
      PROVE  peer[client_map[u].from] # "closed"
  <2>1. ListUsers(w)
    BY <1>1, HandlerCases
  <2>2. u \in Users /\ client_map[u] # NoEntry
    BY <1>1, <2>1 DEF ListUsers, IInv, TypeOK
  <2>3. client_map[u].from \in Clients /\ Registered(client_map[u].from)
    BY <1>1, <2>2, EntryShape DEF Registered, IInv
  <2>4. QED
    BY <1>1, <2>3 DEF PoliteInv, OpenInv
<1>2. IInv /\ PoliteInv /\ [Next]_vars =>
       [\A w \in Workers : step[w] # "write" /\ step'[w] = "write" =>
          \A u \in clients_list'[w] : peer[client_map[u].from] # "closed"]_vars
  BY <1>1
<1>3. QED
  BY <1>2, Invariance, PoliteInvariance, PTL DEF Spec, ListsConnected

=============================================================================
