-------------------------------- MODULE Server --------------------------------
(***************************************************************************)
(* The chat server of src/server.c: main() selects on the listener and the *)
(* connections, hands what is ready to the jobs of the thread pool and     *)
(* waits for all of them; the jobs accept connections, receive messages    *)
(* and carry out the protocol.  The pool is the contract JobPool, which    *)
(* ThreadPool implements.                                                  *)
(*                                                                         *)
(* A job is split where another thread can see or change what it uses:     *)
(* FD_SET and FD_CLR on master read a word of the set and write it back,   *)
(* without a lock, and all descriptors here share that word.  Between its  *)
(* lock and unlock of hashmap_lock a job is one step, unless it closes a   *)
(* connection there.  FD_CLR on readfds is one step, a data race that no   *)
(* one can observe: it only clears bits main has already scanned.          *)
(*                                                                         *)
(* The kernel and the clients are modelled as far as the server sees them. *)
(* A message is one frame of BUFFER bytes, which one write of client.c     *)
(* sends and one recv returns; the fields of the protocol are records, and *)
(* a write to a connected client does not block.  Names are at most 24     *)
(* bytes long: new_protocol_handler then reads descriptor 0 for every user *)
(* (it casts the map element, whose bytes 24..27 are the end of the name), *)
(* which is never in readfds, so protocol_queue stays empty.               *)
(***************************************************************************)
EXTENDS Naturals, Sequences, FiniteSets

CONSTANTS
  Workers,    \* the threads of the pool
  NoJob,      \* what an idle worker runs
  Clients,    \* the connections; each client program connects once
  Users,      \* the names
  Name,       \* Name[c]: the name the client of connection c has chosen
  MaxFd,      \* the highest descriptor the process may open
  Actions,    \* the messages clients send after 00, a subset of "02".."08"
  MaxSent,    \* MaxSent[c]: how many messages client c sends, 00 included
  MayDie,     \* the clients that may end without 02
  NoConn,     \* the connection of a closed descriptor
  NoEntry,    \* the map entry of a name that is not registered
  NoWorker    \* the holder of a free lock

listener == 3
Fds == (listener + 1)..MaxFd

ASSUME ServerAssumption ==
  /\ Name \in [Clients -> Users]
  /\ MaxFd \in Nat /\ MaxFd > listener
  /\ Actions \subseteq {"02", "03", "04", "06", "08"}
  /\ MaxSent \in [Clients -> Nat]
  /\ MayDie \subseteq Clients
  /\ NoConn \notin Clients
  /\ NoWorker \notin Workers

Numbers == UNION {1..MaxSent[c] : c \in Clients}

(* user is the name the server looks up: p->usuario2 of an 08, p->usuario  *)
(* of the others.  n numbers the messages of a client.                     *)
Messages ==
  [accion : {"00"} \cup Actions, user : Users, status : {"0", "1"},
   from : Clients, n : Numbers]

(* What the server writes: 01, 05 and 07 answer message n of from, 08      *)
(* forwards it to user.                                                    *)
Answers ==
  [accion : {"01", "08"}, user : Users, from : Clients, n : Numbers]
  \cup [accion : {"05"}, user : Users, from : Clients, n : Numbers,
        status : {"0", "1"}]
  \cup [accion : {"07"}, user : Users, from : Clients, n : Numbers,
        list : SUBSET Users]

Jobs ==
  [run : {"new_connection_handler"}]
  \cup [run : {"new_message_handler"}, fd : Fds]
  \cup [run : {"new_protocol_handler", "switch_protocol_handler"}, fd : Fds,
        p : Messages]

ASSUME JobAssumption == NoJob \notin Jobs

VARIABLES
  queue, running, caller,   \* the pool: see JobPool
  main,          \* where main() is; "killed" and "failed": the process ended
  i,             \* main's loop variable
  master, readfds, fdmax,
  lost,          \* history: an update of master was lost
  client_map,    \* [Users -> entries]: descriptor, status, who registered
  hashmap_lock,  \* the worker that holds it
  step,          \* step[w]: where the job of worker w is
  new_fd,        \* new_fd[w]: the local of new_connection_handler
  word,          \* word[w]: master as FD_SET or FD_CLR read it
  clients_list,  \* clients_list[w]: what a 06 found in the map
  fdConn,        \* the connection each descriptor is open on
  backlog,       \* connections not yet accepted
  peer,          \* the other end of each connection
  inbox,         \* messages the server has not received yet
  outbox,        \* what the server wrote to each connection
  sent           \* how many messages each client has sent

pool   == <<queue, running, caller>>
mainVars == <<main, i>>
sets   == <<master, readfds, fdmax, lost>>
map    == <<client_map, hashmap_lock>>
locals == <<new_fd, word, clients_list>>
world  == <<fdConn, backlog, peer, inbox, outbox, sent>>
vars == <<pool, mainVars, sets, map, step, locals, world>>

Pool == INSTANCE JobPool

Steps == {"idle", "begin", "set", "add", "fdmax", "clear", "remove", "close",
          "write", "return"}

(* "fin": the client closed in order; "rst": it reset the connection and   *)
(* the error was not reported yet; "dead": every further write raises      *)
(* SIGPIPE; "closed": by the server.                                       *)
PeerStates == {"none", "open", "fin", "rst", "dead", "closed"}

TypeOK ==
  /\ Pool!PoolTypeOK
  /\ main \in {"select", "scan", "wait", "killed", "failed"}
  /\ i \in 0..(MaxFd + 1)
  /\ master \in SUBSET (Fds \cup {listener})
  /\ readfds \in SUBSET (Fds \cup {listener})
  /\ fdmax \in Fds \cup {listener}
  /\ lost \in BOOLEAN
  /\ client_map \in [Users -> [fd : Fds, status : {"0", "1"}, from : Clients]
                              \cup {NoEntry}]
  /\ hashmap_lock \in Workers \cup {NoWorker}
  /\ step \in [Workers -> Steps]
  /\ new_fd \in [Workers -> Fds \cup {0}]
  /\ word \in [Workers -> SUBSET (Fds \cup {listener})]
  /\ clients_list \in [Workers -> SUBSET Users]
  /\ fdConn \in [Fds -> Clients \cup {NoConn}]
  /\ backlog \in Seq(Clients)
  /\ peer \in [Clients -> PeerStates]
  /\ inbox \in [Clients -> Seq(Messages)]
  /\ outbox \in [Clients -> Seq(Answers)]
  /\ sent \in [Clients -> Numbers \cup {0}]

Init ==
  /\ Pool!PoolInit
  /\ main = "select" /\ i = 0
  /\ master = {listener} /\ readfds = {} /\ fdmax = listener
  /\ lost = FALSE
  /\ client_map = [u \in Users |-> NoEntry]
  /\ hashmap_lock = NoWorker
  /\ step = [w \in Workers |-> "idle"]
  /\ new_fd = [w \in Workers |-> 0]
  /\ word = [w \in Workers |-> {}]
  /\ clients_list = [w \in Workers |-> {}]
  /\ fdConn = [f \in Fds |-> NoConn]
  /\ backlog = <<>>
  /\ peer = [c \in Clients |-> "none"]
  /\ inbox = [c \in Clients |-> <<>>]
  /\ outbox = [c \in Clients |-> <<>>]
  /\ sent = [c \in Clients |-> 0]

-----------------------------------------------------------------------------
(* The system calls of the server.                                         *)

Ended == main \in {"killed", "failed"}

Readable(f) ==
  IF f = listener
    THEN backlog # <<>>
    ELSE inbox[fdConn[f]] # <<>> \/ peer[fdConn[f]] # "open"

Open(f) == f # listener => fdConn[f] # NoConn

(* close(fd): what was not received is lost.                               *)
Close(fd) ==
  /\ fdConn' = [fdConn EXCEPT ![fd] = NoConn]
  /\ peer' = [peer EXCEPT ![fdConn[fd]] = "closed"]
  /\ inbox' = [inbox EXCEPT ![fdConn[fd]] = <<>>]
  /\ UNCHANGED <<backlog, outbox, sent>>

(* write(fd, m): it reaches whoever fd is open on now.  The first write    *)
(* after the client has gone is lost, one after its reset arrived raises   *)
(* SIGPIPE, which nothing in the server handles.                           *)
Write(fd, m) ==
  LET c == fdConn[fd]
  IN  /\ \/ c = NoConn /\ UNCHANGED <<main, peer, outbox>>
         \/ /\ c # NoConn /\ peer[c] = "open"
            /\ outbox' = [outbox EXCEPT ![c] = Append(@, m)]
            /\ UNCHANGED <<main, peer>>
         \/ /\ c # NoConn /\ peer[c] = "fin"
            /\ \E s \in {"fin", "dead"} : peer' = [peer EXCEPT ![c] = s]
            /\ UNCHANGED <<main, outbox>>
         \/ /\ c # NoConn /\ peer[c] = "rst"
            /\ peer' = [peer EXCEPT ![c] = "dead"]
            /\ UNCHANGED <<main, outbox>>
         \/ /\ c # NoConn /\ peer[c] = "dead"
            /\ main' = "killed"
            /\ UNCHANGED <<peer, outbox>>
      /\ UNCHANGED <<fdConn, backlog, inbox, sent>>

-----------------------------------------------------------------------------
(* main()                                                                  *)

(* select() looks at the descriptors of the set up to fdmax.               *)
Watched == {f \in master : f <= fdmax}

(* readfds = master; select()                                              *)
Select ==
  /\ main = "select"
  /\ \A f \in Watched : Open(f)
  /\ \E f \in Watched : Readable(f)
  /\ readfds' = {f \in Watched : Readable(f)}
  /\ main' = "scan" /\ i' = 0
  /\ UNCHANGED <<pool, master, fdmax, lost, map, step, locals, world>>

(* select() returns -1 for a closed descriptor in the set; main returns 6. *)
SelectFails ==
  /\ main = "select"
  /\ \E f \in Watched : ~Open(f)
  /\ main' = "failed"
  /\ UNCHANGED <<pool, i, sets, map, step, locals, world>>

(* Mutated: the loop ends before fdmax.                                    *)
UnscannedShort == {f \in readfds : i <= f /\ f < fdmax}

Unscanned == {f \in readfds : i <= f /\ f <= fdmax}

(* The next descriptor for which FD_ISSET holds.                           *)
Scan ==
  /\ main = "scan"
  /\ \E f \in Unscanned :
       /\ \A g \in Unscanned : f <= g
       /\ i' = f + 1
       /\ Pool!SubmitByCaller(IF f = listener
                                THEN [run |-> "new_connection_handler"]
                                ELSE [run |-> "new_message_handler", fd |-> f])
  /\ UNCHANGED <<main, sets, map, step, locals, world>>

(* Mutated: thpool_wait() is left out.                                     *)
WaitSkipped ==
  /\ main = "scan" /\ Unscanned = {}
  /\ main' = "select"
  /\ UNCHANGED <<pool, i, sets, map, step, locals, world>>

(* The scan ends, protocol_queue is empty: thpool_wait().                  *)
WaitCall ==
  /\ main = "scan" /\ Unscanned = {}
  /\ main' = "wait"
  /\ Pool!Wait
  /\ UNCHANGED <<i, sets, map, step, locals, world>>

WaitReturns ==
  /\ main = "wait"
  /\ main' = "select"
  /\ Pool!WaitReturns
  /\ UNCHANGED <<i, sets, map, step, locals, world>>

MainStep == Select \/ SelectFails \/ Scan \/ WaitCall \/ WaitReturns

-----------------------------------------------------------------------------
(* The workers.  At(w, run, s): worker w executes job run and is at s.     *)

At(w, run, s) == step[w] = s /\ running[w].run = run

(* No thread moves once the process has ended.                             *)
Goto(w, s) == ~Ended /\ step' = [step EXCEPT ![w] = s]

StartJob(w) ==
  /\ Pool!Start(w)
  /\ Goto(w, "begin")
  /\ UNCHANGED <<mainVars, sets, map, locals, world>>

EndJob(w) ==
  /\ step[w] = "return"
  /\ Pool!Finish(w)
  /\ Goto(w, "idle")
  /\ new_fd' = [new_fd EXCEPT ![w] = 0]
  /\ word' = [word EXCEPT ![w] = {}]
  /\ clients_list' = [clients_list EXCEPT ![w] = {}]
  /\ UNCHANGED <<mainVars, sets, map, world>>

(* The word written back by w undoes an update made since w read it.       *)
Undoes(w) == word[w] # master

(* Mutated: the bit stays set.                                             *)
ClearedNot(w) == word[w]

Cleared(w) == word[w] \ {running[w].fd}

(* FD_CLR(fd, &master) writes the word back; a 02 goes on to close(fd).    *)
ClearMaster(w) ==
  /\ step[w] = "remove"
  /\ master' = Cleared(w)
  /\ lost' = (lost \/ Undoes(w))
  /\ Goto(w, IF running[w].run = "new_message_handler" THEN "return"
                                                       ELSE "close")
  /\ UNCHANGED <<pool, mainVars, readfds, fdmax, map, locals, world>>

(* FD_SET or FD_CLR on master reads the word.                              *)
ReadMaster(w) ==
  /\ \/ step[w] = "set" /\ Goto(w, "add")
     \/ step[w] = "clear" /\ Goto(w, "remove")
  /\ word' = [word EXCEPT ![w] = master]
  /\ UNCHANGED <<pool, mainVars, sets, map, new_fd, clients_list, world>>

-----------------------------------------------------------------------------
(* new_connection_handler                                                  *)

(* Closed at the end of file, and not cleared in master yet.               *)
AboutToClear(f) ==
  \E w \in Workers : /\ step[w] \in {"clear", "remove"}
                     /\ running[w] = [run |-> "new_message_handler", fd |-> f]

FreeFds == {f \in Fds : fdConn[f] = NoConn}

(* accept(), which blocks while there is no connection and fails when no   *)
(* descriptor is free.                                                     *)
Accept(w) ==
  /\ At(w, "new_connection_handler", "begin")
  /\ backlog # <<>>
  /\ \/ \E f \in FreeFds :
          /\ \A g \in FreeFds : f <= g
          /\ fdConn' = [fdConn EXCEPT ![f] = Head(backlog)]
          /\ backlog' = Tail(backlog)
          /\ new_fd' = [new_fd EXCEPT ![w] = f]
          /\ lost' = (lost \/ AboutToClear(f))
          /\ Goto(w, "set")
     \/ /\ FreeFds = {}
        /\ Goto(w, "return")
        /\ UNCHANGED <<new_fd, lost, fdConn, backlog>>
  /\ UNCHANGED <<pool, mainVars, master, readfds, fdmax, map, word,
                 clients_list, peer, inbox, outbox, sent>>

(* FD_SET(new_fd, &master) writes the word back.                           *)
SetMaster(w) ==
  /\ step[w] = "add"
  /\ master' = word[w] \cup {new_fd[w]}
  /\ lost' = (lost \/ Undoes(w))
  /\ Goto(w, "fdmax")
  /\ UNCHANGED <<pool, mainVars, readfds, fdmax, map, locals, world>>

(* Mutated: no comparison; one too many, as select() wants it.             *)
NewMaxAlways(fd) == fd
NewMaxAbove(fd) == IF fd >= fdmax THEN fd + 1 ELSE fdmax

(* fdmax, once fd is in the set.                                           *)
NewMax(fd) == IF fd > fdmax THEN fd ELSE fdmax

SetFdmax(w) ==
  /\ step[w] = "fdmax"
  /\ fdmax' = NewMax(new_fd[w])
  /\ Goto(w, "return")
  /\ UNCHANGED <<pool, mainVars, master, readfds, lost, map, locals, world>>

-----------------------------------------------------------------------------
(* new_message_handler: recv() blocks while nothing can be read.           *)

(* Mutated: the message stays in the socket.                               *)
ReceivedPeek(c) == inbox

(* The sockets once a message of c was received.                           *)
Received(c) == [inbox EXCEPT ![c] = Tail(@)]

(* A message: the protocol job is added, readfds cleared.                  *)
RecvMessage(w) ==
  LET fd == running[w].fd
      c == fdConn[fd]
  IN  /\ At(w, "new_message_handler", "begin")
      /\ c # NoConn /\ inbox[c] # <<>>
      /\ inbox' = Received(c)
      /\ Pool!SubmitByJob(w, [run |-> "new_protocol_handler", fd |-> fd,
                              p |-> Head(inbox[c])])
      /\ readfds' = readfds \ {fd}
      /\ Goto(w, "return")
      /\ UNCHANGED <<mainVars, master, fdmax, lost, map, locals, fdConn,
                     backlog, peer, outbox, sent>>

(* End of file: close, and only then FD_CLR on both sets.                  *)
RecvEnd(w) ==
  LET fd == running[w].fd
      c == fdConn[fd]
  IN  /\ At(w, "new_message_handler", "begin")
      /\ c # NoConn /\ inbox[c] = <<>> /\ peer[c] \in {"fin", "dead"}
      /\ Close(fd)
      /\ readfds' = readfds \ {fd}
      /\ Goto(w, "clear")
      /\ UNCHANGED <<pool, mainVars, master, fdmax, lost, map, locals>>

(* recv() returns -1: the connection is kept.                              *)
RecvFails(w) ==
  LET fd == running[w].fd
      c == fdConn[fd]
  IN  /\ At(w, "new_message_handler", "begin")
      /\ c # NoConn /\ inbox[c] = <<>> /\ peer[c] = "rst"
      /\ peer' = [peer EXCEPT ![c] = "dead"]
      /\ readfds' = readfds \ {fd}
      /\ Goto(w, "return")
      /\ UNCHANGED <<pool, mainVars, master, fdmax, lost, map, locals, fdConn,
                     backlog, inbox, outbox, sent>>

-----------------------------------------------------------------------------
(* Mutated: the job is added again, under its own name.                    *)
NextJobSame(job) == job

(* The job that carries a message out.                                     *)
NextJob(job) == [job EXCEPT !.run = "switch_protocol_handler"]

(* new_protocol_handler: an 08 to a name that is not in client_map, which  *)
(* is read without hashmap_lock, is dropped; all else goes on.             *)
Dispatch(w) ==
  LET job == running[w]
  IN  /\ At(w, "new_protocol_handler", "begin")
      /\ IF job.p.accion = "08" /\ client_map[job.p.user] = NoEntry
           THEN UNCHANGED pool
           ELSE Pool!SubmitByJob(w, NextJob(job))
      /\ Goto(w, "return")
      /\ UNCHANGED <<mainVars, sets, map, locals, world>>

-----------------------------------------------------------------------------
(* switch_protocol_handler, one action per message.                        *)

Switch(w, accion) ==
  /\ At(w, "switch_protocol_handler", "begin")
  /\ running[w].p.accion = accion
  /\ hashmap_lock = NoWorker

Answer(p, accion) ==
  [accion |-> accion, user |-> p.user, from |-> p.from, n |-> p.n]
StatusAnswer(p, status) ==
  [accion |-> "05", user |-> p.user, from |-> p.from, n |-> p.n,
   status |-> status]
ListAnswer(p, list) ==
  [accion |-> "07", user |-> p.user, from |-> p.from, n |-> p.n,
   list |-> list]

MayRegister(u) == client_map[u] = NoEntry

(* 00: register the name, or answer 01 if it is taken.                     *)
Register(w) ==
  LET p == running[w].p
  IN  /\ Switch(w, "00")
      /\ IF MayRegister(p.user)
           THEN /\ client_map' = [client_map EXCEPT ![p.user] =
                     [fd |-> running[w].fd, status |-> p.status,
                      from |-> p.from]]
                /\ UNCHANGED <<main, world>>
           ELSE /\ Write(running[w].fd, Answer(p, "01"))
                /\ UNCHANGED client_map
      /\ Goto(w, "return")
      /\ UNCHANGED <<pool, i, sets, hashmap_lock, locals>>

(* Mutated: hashmap_remove is left out.                                    *)
RemovedNot(u) == client_map

Removed(u) == [client_map EXCEPT ![u] = NoEntry]

(* 02: remove the name and clear readfds; master and the descriptor follow *)
(* with the lock held.                                                     *)
Release(w) ==
  LET p == running[w].p
  IN  /\ Switch(w, "02")
      /\ IF client_map[p.user] = NoEntry
           THEN /\ Goto(w, "return")
                /\ UNCHANGED <<readfds, map>>
           ELSE /\ client_map' = Removed(p.user)
                /\ readfds' = readfds \ {running[w].fd}
                /\ hashmap_lock' = w
                /\ Goto(w, "clear")
      /\ UNCHANGED <<pool, mainVars, master, fdmax, lost, locals, world>>

(* 02, at its end: close(p->fd), unlock.                                   *)
CloseClient(w) ==
  /\ step[w] = "close"
  /\ Close(running[w].fd)
  /\ hashmap_lock' = NoWorker
  /\ Goto(w, "return")
  /\ UNCHANGED <<pool, mainVars, sets, client_map, locals>>

(* 03: change the status of a registered name.                             *)
ChangeStatus(w) ==
  LET p == running[w].p
  IN  /\ Switch(w, "03")
      /\ client_map' = IF client_map[p.user] = NoEntry THEN client_map
                       ELSE [client_map EXCEPT ![p.user].status = p.status]
      /\ Goto(w, "return")
      /\ UNCHANGED <<pool, mainVars, sets, hashmap_lock, locals, world>>

(* 04: answer 05 if the name is registered.                                *)
UserInfo(w) ==
  LET p == running[w].p
  IN  /\ Switch(w, "04")
      /\ IF client_map[p.user] = NoEntry
           THEN UNCHANGED <<main, world>>
           ELSE Write(running[w].fd,
                      StatusAnswer(p, client_map[p.user].status))
      /\ Goto(w, "return")
      /\ UNCHANGED <<pool, i, sets, map, locals>>

(* 06: read the map with the lock held; the answer 07 follows without it.  *)
ListUsers(w) ==
  /\ Switch(w, "06")
  /\ clients_list' = [clients_list EXCEPT ![w] =
                        {u \in Users : client_map[u] # NoEntry}]
  /\ Goto(w, "write")
  /\ UNCHANGED <<pool, mainVars, sets, map, new_fd, word, world>>

AnswerList(w) ==
  /\ step[w] = "write"
  /\ Write(running[w].fd, ListAnswer(running[w].p, clients_list[w]))
  /\ Goto(w, "return")
  /\ UNCHANGED <<pool, i, sets, map, locals>>

(* 08: write the message to the descriptor the name registered with.       *)
Deliver(w) ==
  LET p == running[w].p
  IN  /\ Switch(w, "08")
      /\ IF client_map[p.user] = NoEntry
           THEN UNCHANGED <<main, world>>
           ELSE Write(client_map[p.user].fd, Answer(p, "08"))
      /\ Goto(w, "return")
      /\ UNCHANGED <<pool, i, sets, map, locals>>

WorkerStep(w) ==
  \/ StartJob(w) \/ EndJob(w) \/ ReadMaster(w) \/ ClearMaster(w)
  \/ Accept(w) \/ SetMaster(w) \/ SetFdmax(w)
  \/ RecvMessage(w) \/ RecvEnd(w) \/ RecvFails(w)
  \/ Dispatch(w)
  \/ Register(w) \/ Release(w) \/ CloseClient(w) \/ ChangeStatus(w)
  \/ UserInfo(w) \/ ListUsers(w) \/ AnswerList(w) \/ Deliver(w)

-----------------------------------------------------------------------------
(* The clients, as src/client.c drives them.                               *)

Connect(c) ==
  /\ ~Ended
  /\ peer[c] = "none"
  /\ peer' = [peer EXCEPT ![c] = "open"]
  /\ backlog' = Append(backlog, c)
  /\ UNCHANGED <<pool, mainVars, sets, map, step, locals, fdConn,
                 inbox, outbox, sent>>

(* 00 first, then any of the others; 02, 03 and 06 carry the own name.     *)
(* A client that sends 02 closes its end; this end is reset, here and in   *)
(* Die, if the client left data unread.                                    *)
Send(c) ==
  /\ ~Ended
  /\ peer[c] = "open"
  /\ sent[c] < MaxSent[c]
  /\ sent' = [sent EXCEPT ![c] = @ + 1]
  /\ \E m \in Messages :
       /\ m.from = c /\ m.n = sent[c] + 1
       /\ m.accion = "00" <=> sent[c] = 0
       /\ m.accion \in {"00", "02", "03", "06"} => m.user = Name[c]
       /\ m.status = IF m.accion = "03" THEN "1" ELSE "0"
       /\ inbox' = [inbox EXCEPT ![c] = Append(@, m)]
       /\ \/ m.accion # "02" /\ peer' = peer
          \/ /\ m.accion = "02"
             /\ \E s \in {"fin", "rst"} : peer' = [peer EXCEPT ![c] = s]
  /\ UNCHANGED <<pool, mainVars, sets, map, step, locals, fdConn,
                 backlog, outbox>>

(* The client ends without 02.                                             *)
Die(c) ==
  /\ ~Ended
  /\ c \in MayDie
  /\ peer[c] = "open"
  /\ \E s \in {"fin", "rst"} : peer' = [peer EXCEPT ![c] = s]
  /\ UNCHANGED <<pool, mainVars, sets, map, step, locals, fdConn,
                 backlog, inbox, outbox, sent>>

-----------------------------------------------------------------------------
(* The process ended, or main() sleeps in select() and no client stirs.    *)
Rest ==
  /\ \/ Ended
     \/ main = "select" /\ \A f \in Watched : Open(f) /\ ~Readable(f)
  /\ UNCHANGED vars

Next ==
  \/ MainStep
  \/ \E w \in Workers : WorkerStep(w)
  \/ \E c \in Clients : Connect(c) \/ Send(c) \/ Die(c)
  \/ Rest

Spec == Init /\ [][Next]_vars

(* The scheduler runs main() and every worker that can run.  Clients need  *)
(* do nothing.                                                             *)
Fairness ==
  /\ WF_vars(MainStep)
  /\ \A w \in Workers : WF_vars(WorkerStep(w))
FairSpec == Spec /\ Fairness

-----------------------------------------------------------------------------
(* Whether job j is about descriptor f.                                    *)
Concerns(j, f) == j.run # "new_connection_handler" /\ j.fd = f

(* The workers whose job still has something to do.                        *)
Busy == {w \in Workers : step[w] \notin {"idle", "return"}}

(* A descriptor is the business of one job at a time, queued or executing: *)
(* a message is received, interpreted and carried out before main() looks  *)
(* at its connection again.  Nothing else keeps two workers from receiving *)
(* on one socket.                                                          *)
OneJobPerFd ==
  \A f \in Fds :
    Cardinality({k \in DOMAIN queue : Concerns(queue[k], f)})
    + Cardinality({w \in Busy : Concerns(running[w], f)}) <= 1

(* While a message is carried out its descriptor stays open on the         *)
(* connection it came from, although jobs of other connections close and   *)
(* open descriptors meanwhile: answers, and the close of a 02, never hit   *)
(* another client.                                                         *)
OwnDescriptor ==
  LET own(j) == "p" \in DOMAIN j => fdConn[j.fd] = j.p.from
  IN  /\ \A k \in DOMAIN queue : own(queue[k])
      /\ \A w \in Busy : own(running[w])

(* No job blocks in accept() or recv(): what select() reported is still    *)
(* there when its job gets to run, and no other job takes it.              *)
NeverBlocks ==
  \A w \in Busy : step[w] = "begin" =>
    CASE running[w].run = "new_connection_handler" -> backlog # <<>>
      [] running[w].run = "new_message_handler" ->
           Open(running[w].fd) /\ Readable(running[w].fd)
      [] OTHER -> TRUE

(* What reaches a client from one sender arrives once and in the order it  *)
(* was sent, whichever workers carry the messages out.                     *)
InOrder ==
  \A c \in Clients : \A k, l \in DOMAIN outbox[c] :
    k < l /\ outbox[c][k].from = outbox[c][l].from =>
      outbox[c][k].n < outbox[c][l].n

(* select() is told of every descriptor in master, however the updates of  *)
(* master and fdmax by different jobs interleave; the listener is never    *)
(* lost.                                                                   *)
FdmaxCovers ==
  main = "select" => listener \in master /\ \A f \in master : f <= fdmax

(* README.md:61, "08|source|destination|message": a message reaches the    *)
(* client that uses the name of its destination, or nobody.                *)
ReachesTheNamed ==
  \A c \in Clients : \A k \in DOMAIN outbox[c] :
    outbox[c][k].accion = "08" => outbox[c][k].user = Name[c]

(* README.md:48, "Listado de usuarios conectados": a 06 finds users in the *)
(* map whose connection the server has not closed.                         *)
ListsConnected ==
  [][\A w \in Workers : step[w] # "write" /\ step'[w] = "write" =>
       \A u \in clients_list'[w] : peer[client_map[u].from] # "closed"]_vars

(* server.c:94, "add to master set": an accepted connection is watched     *)
(* when main() calls select.                                               *)
AcceptedIsWatched ==
  main = "select" => \A f \in Fds : fdConn[f] # NoConn => f \in master

(* master is the set of the open connections at every select, unless an    *)
(* update of it was undone by a job that had read the word before, or a    *)
(* descriptor was accepted again between its close and its FD_CLR.  These  *)
(* two orders are the only ones that leave a connection unserved or make   *)
(* select fail with EBADF.                                                 *)
MasterExact ==
  main = "select" /\ ~lost =>
    master = {listener} \cup {f \in Fds : fdConn[f] # NoConn}

(* thpool_wait() returns in every round of main(), so no jobs wait for     *)
(* each other or for a lock that is not released.                          *)
RoundEnds == (main = "wait") ~> (main = "select" \/ Ended)

(* A connection that waits in the backlog is accepted as soon as the       *)
(* process has a descriptor for it: a failed accept() leaves the listener  *)
(* in master, and the next round tries again.                              *)
AllAccepted ==
  []<>(backlog = <<>>) \/ <>[](Ended \/ FreeFds = {})

Unwatched(c) == \E f \in Fds : fdConn[f] = c /\ f \notin master

(* Connection c is in the backlog, and every descriptor is taken.          *)
Waiting(c) == FreeFds = {} /\ \A f \in Fds : fdConn[f] # c

(* What clients send is received, whichever of them are busy, unless main  *)
(* lost the descriptor (AcceptedIsWatched), the process ended or it has no *)
(* descriptor for the connection.                                          *)
AllReceived ==
  \A c \in Clients :
    []<>(inbox[c] = <<>>) \/ <>[](Ended \/ Unwatched(c) \/ Waiting(c))

-----------------------------------------------------------------------------
(* The inductive invariant behind the safety properties.                   *)

(* What a job is about, and the jobs that still have something to do.      *)
Subject(j) == IF j.run = "new_connection_handler" THEN listener ELSE j.fd
Pending == {queue[k] : k \in DOMAIN queue} \cup {running[w] : w \in Busy}

Carries(j) == j.run \in {"new_protocol_handler", "switch_protocol_handler"}

(* The workers between accept() and the end of their job.                  *)
Accepting == {w \in Workers : step[w] \in {"set", "add", "fdmax"}}

(* The workers that closed f at its end of file and have yet to clear it.  *)
Clearing(f) ==
  {w \in Workers : /\ step[w] \in {"clear", "remove"}
                   /\ running[w] = [run |-> "new_message_handler", fd |-> f]}

(* The workers that accepted f and have yet to set it in master, and those *)
(* that cleared f for a 02 and have yet to close it.                       *)
Setting(f) == {w \in Workers : step[w] \in {"set", "add"} /\ new_fd[w] = f}
Closing(f) == {w \in Workers : step[w] = "close" /\ running[w].fd = f}

(* main(), the pool and the steps of the jobs agree.                       *)
PhaseInv ==
  /\ main \in {"select", "scan"} => caller = "app"
  /\ main = "wait" => caller = "waiting"
  /\ main = "select" => Pool!Idle
  /\ \A w \in Workers : step[w] = "idle" <=> running[w] = NoJob
  /\ \A w \in Accepting : /\ running[w].run = "new_connection_handler"
                          /\ new_fd[w] \in Fds
  /\ \A w \in Workers :
       /\ step[w] \in {"close", "write"} =>
            running[w].run = "switch_protocol_handler"
       /\ step[w] \in {"clear", "remove"} =>
            running[w].run \in {"new_message_handler",
                                "switch_protocol_handler"}

(* No two jobs that have something to do are about the same descriptor.    *)
ApartInv ==
  /\ \A k, l \in DOMAIN queue :
       Subject(queue[k]) = Subject(queue[l]) => k = l
  /\ \A v, w \in Busy : Subject(running[v]) = Subject(running[w]) => v = w
  /\ \A k \in DOMAIN queue, w \in Busy :
       Subject(queue[k]) # Subject(running[w])

(* A connection is in one place: in the backlog or on one descriptor.      *)
ConnInv ==
  /\ \A f, g \in Fds : fdConn[f] = fdConn[g] => f = g \/ fdConn[f] = NoConn
  /\ \A k, l \in DOMAIN backlog : backlog[k] = backlog[l] => k = l
  /\ \A f \in Fds, k \in DOMAIN backlog : fdConn[f] # backlog[k]
  /\ \A f \in Fds : fdConn[f] # NoConn => peer[fdConn[f]] # "none"
  /\ \A k \in DOMAIN backlog : peer[backlog[k]] # "none"

(* A descriptor that is being accepted is open and nobody's business, but  *)
(* for a job that closed it and has yet to clear it.                       *)
AcceptInv ==
  \A w \in Accepting :
    /\ fdConn[new_fd[w]] # NoConn
    /\ \A k \in DOMAIN queue : Subject(queue[k]) # new_fd[w]
    /\ \A v \in Busy : Subject(running[v]) = new_fd[w] =>
         v \in Clearing(new_fd[w])

(* The jobs are about descriptors main() has scanned; those it has yet to  *)
(* scan are still what select() reported.                                  *)
ScanInv ==
  main = "scan" =>
    /\ \A j \in Pending : Subject(j) < i
    /\ \A f \in readfds : f >= i =>
         /\ Open(f) /\ Readable(f)
         /\ \A w \in Accepting : new_fd[w] # f

(* What a job that has not begun will find.                                *)
Ready(j) ==
  /\ j.run = "new_connection_handler" => backlog # <<>>
  /\ j.run = "new_message_handler" => Open(j.fd) /\ Readable(j.fd)

ReadyInv ==
  /\ \A k \in DOMAIN queue : Ready(queue[k])
  /\ \A w \in Workers : step[w] = "begin" => Ready(running[w])

(* Messages stay on the connection of their sender.                        *)
OwnInv ==
  /\ \A c \in Clients : \A k \in DOMAIN inbox[c] : inbox[c][k].from = c
  /\ \A j \in Pending : Carries(j) => fdConn[j.fd] = j.p.from

(* master and the copies of it keep the listener and stay below fdmax.     *)
Covered(f) == f <= fdmax \/ \E w \in Workers : step[w] = "fdmax" /\ new_fd[w] = f

FdmaxInv ==
  /\ listener \in master /\ \A f \in master : Covered(f)
  /\ \A w \in Workers : step[w] \in {"add", "remove"} =>
       listener \in word[w] /\ \A f \in word[w] : Covered(f)

(* Until an update is lost, master is the set of the open connections up   *)
(* to the jobs that are about to change it.                                *)
MasterInv ==
  ~lost => \A f \in Fds :
    /\ Clearing(f) # {} => fdConn[f] = NoConn
    /\ f \in master <=>
         \/ Clearing(f) # {}
         \/ /\ fdConn[f] # NoConn
            /\ Setting(f) = {} /\ Closing(f) = {}

(* What was written comes before what is carried, which comes before what  *)
(* waits in the socket.                                                    *)
OrderInv ==
  /\ \A c \in Clients :
       /\ \A k \in DOMAIN inbox[c] : inbox[c][k].n <= sent[c]
       /\ \A k, l \in DOMAIN inbox[c] : k < l => inbox[c][k].n < inbox[c][l].n
  /\ \A j \in Pending : Carries(j) =>
       /\ j.p.n <= sent[j.p.from]
       /\ \A k \in DOMAIN inbox[j.p.from] : j.p.n < inbox[j.p.from][k].n
  /\ \A c \in Clients : \A k \in DOMAIN outbox[c] :
       LET m == outbox[c][k]
       IN  /\ m.n <= sent[m.from]
           /\ \A l \in DOMAIN inbox[m.from] : m.n < inbox[m.from][l].n
           /\ \A j \in Pending : Carries(j) /\ j.p.from = m.from => m.n < j.p.n
  /\ InOrder

IInv ==
  /\ TypeOK /\ PhaseInv /\ ApartInv /\ ConnInv /\ AcceptInv /\ ScanInv
  /\ ReadyInv /\ OwnInv /\ FdmaxInv /\ MasterInv /\ OrderInv

=============================================================================
