---------------------------- MODULE ProtocolQueue -----------------------------
(***************************************************************************)
(* protocol_queue: the linked list of src/queue.c, filled by the jobs of   *)
(* new_protocol_handler and drained by main() of src/server.c before it    *)
(* waits for the pool.  No lock protects it, so each access to a field     *)
(* that another thread accesses is a step.                                 *)
(*                                                                         *)
(* Nodes are memory: malloc returns one that is free, also one that was    *)
(* used before, and does not set its links.  The node after the front, in  *)
(* the order of the messages, is its prev.                                 *)
(*                                                                         *)
(* Only names of 25 bytes and more bring a message here: then the bytes    *)
(* that new_protocol_handler takes for a descriptor (see Server) are those *)
(* of the name, and may be in readfds.  Whether they are is left open.     *)
(* The process ends when it uses memory that is not allocated.             *)
(*                                                                         *)
(* Bounds: each message arrives once; MaxEnqueues calls of enqueue.        *)
(***************************************************************************)
EXTENDS Naturals, Sequences, FiniteSets

CONSTANTS
  Workers,       \* the threads of the pool
  NoJob,         \* what an idle worker runs
  Messages,      \* the messages of accion 08
  MaxEnqueues,
  NULL,          \* the null pointer
  Wild           \* a pointer that was never set

ASSUME QueueAssumption ==
  /\ IsFiniteSet(Workers)
  /\ "main" \notin Workers
  /\ MaxEnqueues \in Nat
  /\ NULL # Wild
  /\ {NULL, Wild} \cap (1..MaxEnqueues) = {}

Nodes == 1..MaxEnqueues

Jobs == [run : {"new_message_handler", "new_protocol_handler",
                "switch_protocol_handler"}, p : Messages]

VARIABLES
  queue, running, caller,   \* the pool: see JobPool
  arrived,     \* the messages received so far
  main,        \* where main() is; "crashed": the process ended
  n,           \* its local: a copy of the front node
  count,       \* count[t]: the size thread t has read
  pc,          \* pc[w]: where the job of worker w is
  node,        \* node[w]: the local n of its enqueue
  memory,      \* the nodes that are allocated
  front, back, \* the fields of protocol_queue
  size,
  calls,       \* history: calls of enqueue so far
  order,       \* history: the messages in the order they were linked
  taken,       \* history: the messages main() took, in order
  raced        \* history: calls of enqueue overlapped, or a size was lost

pool   == <<queue, running, caller>>
fields == <<memory, front, back, size>>
locals == <<n, count, pc, node>>
past   == <<calls, order, taken, raced>>
vars == <<pool, arrived, main, locals, fields, past>>

Pool == INSTANCE JobPool

Main == "main"
Free == Nodes \ DOMAIN memory
Pointers == Nodes \cup {NULL, Wild}

JobSteps == {"idle", "begin", "testFront", "testBack", "first", "firstBack",
             "link", "next", "back", "size", "sizeUp", "return"}
MainSteps == {"select", "scan", "drain", "peek", "dequeue", "unlink", "free",
              "size", "sizeDown", "add", "wait", "crashed"}

Node == [data : Messages, prev : Pointers, next : Pointers]
Put(f, x, y) == [z \in DOMAIN f \cup {x} |-> IF z = x THEN y ELSE f[z]]

TypeOK ==
  /\ Pool!PoolTypeOK
  /\ arrived \in SUBSET Messages
  /\ main \in MainSteps
  /\ n \in Node \cup {NULL}
  /\ count \in [Workers \cup {Main} -> 0..MaxEnqueues]
  /\ pc \in [Workers -> JobSteps]
  /\ node \in [Workers -> Nodes \cup {NULL}]
  /\ DOMAIN memory \subseteq Nodes
  /\ \A a \in DOMAIN memory : memory[a] \in Node
  /\ front \in Pointers /\ back \in Pointers
  /\ size \in 0..MaxEnqueues
  /\ calls \in 0..MaxEnqueues
  /\ order \in Seq(Messages) /\ taken \in Seq(Messages)
  /\ raced \in BOOLEAN

Init ==
  /\ Pool!PoolInit
  /\ arrived = {}
  /\ main = "select"
  /\ n = NULL
  /\ count = [t \in Workers \cup {Main} |-> 0]
  /\ pc = [w \in Workers |-> "idle"]
  /\ node = [w \in Workers |-> NULL]
  /\ memory = [a \in {} |-> NULL]
  /\ front = NULL /\ back = NULL
  /\ size = 0
  /\ calls = 0 /\ order = <<>> /\ taken = <<>>
  /\ raced = FALSE

Goto(w, from, to) ==
  /\ main # "crashed"
  /\ pc[w] = from
  /\ pc' = [pc EXCEPT ![w] = to]
MainGoto(from, to) == main = from /\ main' = to

(* Worker w is in a call of enqueue; so is another one.                    *)
Inside(w) == pc[w] \notin {"idle", "begin", "return"}
Enqueuing(w) == \E u \in Workers \ {w} : Inside(u)

(* Thread t writes back a size that another thread changed since.          *)
Stale(t) == count[t] # size

-----------------------------------------------------------------------------
(* main()                                                                  *)

(* select returns, for a message or for other traffic; a job for each      *)
(* message that has arrived.                                               *)
Scan ==
  /\ MainGoto("select", "scan")
  /\ UNCHANGED <<pool, arrived, locals, fields, past>>

ScanAdd ==
  /\ main = "scan"
  /\ \E m \in Messages \ arrived :
       /\ arrived' = arrived \cup {m}
       /\ Pool!SubmitByCaller([run |-> "new_message_handler", p |-> m])
  /\ UNCHANGED <<main, locals, fields, past>>

ScanEnds ==
  /\ MainGoto("scan", "drain")
  /\ UNCHANGED <<pool, arrived, locals, fields, past>>

(* Mutated: off by one.                                                    *)
DrainEarly ==
  /\ \/ size > 1 /\ MainGoto("drain", "peek") /\ UNCHANGED pool
     \/ size <= 1 /\ MainGoto("drain", "wait") /\ Pool!Wait
  /\ UNCHANGED <<arrived, locals, fields, past>>

(* while (queue_num_size(&protocol_queue) > 0), then thpool_wait           *)
Drain ==
  /\ \/ size > 0 /\ MainGoto("drain", "peek") /\ UNCHANGED pool
     \/ size = 0 /\ MainGoto("drain", "wait") /\ Pool!Wait
  /\ UNCHANGED <<arrived, locals, fields, past>>

Peek ==
  /\ MainGoto("peek", "dequeue")
  /\ front \in DOMAIN memory
  /\ n' = memory[front]
  /\ UNCHANGED <<pool, arrived, count, pc, node, fields, past>>

(* The two tests at the beginning of dequeue.                              *)
DequeueTest ==
  /\ MainGoto("dequeue", IF (front = NULL /\ back = NULL) \/ size = 0
                           THEN "add" ELSE "unlink")
  /\ UNCHANGED <<pool, arrived, locals, fields, past>>

(* q->front = q->front->prev                                               *)
Unlink ==
  /\ MainGoto("unlink", "free")
  /\ front \in DOMAIN memory
  /\ front' = memory[front].prev
  /\ taken' = Append(taken, n.data)
  /\ UNCHANGED <<pool, arrived, locals, memory, back, size, calls, order,
                 raced>>

(* free(q->front->next)                                                    *)
FreeOld ==
  /\ MainGoto("free", "size")
  /\ front \in DOMAIN memory /\ memory[front].next \in DOMAIN memory
  /\ memory' = [a \in DOMAIN memory \ {memory[front].next} |-> memory[a]]
  /\ UNCHANGED <<pool, arrived, locals, front, back, size, past>>

(* q->size = q->size - 1                                                   *)
DequeueRead ==
  /\ MainGoto("size", "sizeDown")
  /\ count' = [count EXCEPT ![Main] = size]
  /\ UNCHANGED <<pool, arrived, n, pc, node, fields, past>>

(* Mutated: the freed node is counted as well.                             *)
DequeueWriteTwice ==
  /\ MainGoto("sizeDown", "add")
  /\ size' = count[Main] - 2
  /\ count' = [count EXCEPT ![Main] = 0]
  /\ UNCHANGED <<pool, arrived, n, pc, node, memory, front, back, past>>

DequeueWrite ==
  /\ MainGoto("sizeDown", "add")
  /\ size' = count[Main] - 1
  /\ raced' = (raced \/ Stale(Main))
  /\ count' = [count EXCEPT ![Main] = 0]
  /\ UNCHANGED <<pool, arrived, n, pc, node, memory, front, back, calls, order,
                 taken>>

(* thpool_add_work(thpool, new_protocol_handler, n->data)                  *)
AddWork ==
  /\ MainGoto("add", "drain")
  /\ Pool!SubmitByCaller([run |-> "new_protocol_handler", p |-> n.data])
  /\ n' = NULL
  /\ UNCHANGED <<arrived, count, pc, node, fields, past>>

WaitReturns ==
  /\ MainGoto("wait", "select")
  /\ Pool!WaitReturns
  /\ UNCHANGED <<arrived, locals, fields, past>>

(* An access to memory that is not allocated, or a free of it.             *)
WildAccess(w) ==
  \/ main \in {"peek", "unlink", "free"} /\ front \notin DOMAIN memory
  \/ /\ main = "free" /\ front \in DOMAIN memory
     /\ memory[front].next \notin DOMAIN memory
  \/ pc[w] = "link" /\ back \notin DOMAIN memory
  \/ pc[w] = "next" /\ node[w] \notin DOMAIN memory

Fault(w) ==
  /\ main # "crashed"
  /\ WildAccess(w)
  /\ main' = "crashed"
  /\ UNCHANGED <<pool, arrived, locals, fields, past>>

MainStep ==
  \/ Scan \/ ScanAdd \/ ScanEnds
  \/ Drain \/ Peek \/ DequeueTest \/ Unlink \/ FreeOld
  \/ DequeueRead \/ DequeueWrite \/ AddWork
  \/ WaitReturns

-----------------------------------------------------------------------------
(* The jobs.                                                               *)

StartJob(w) ==
  /\ Goto(w, "idle", "begin")
  /\ Pool!Start(w)
  /\ UNCHANGED <<arrived, main, n, count, node, fields, past>>

EndJob(w) ==
  /\ Goto(w, "return", "idle")
  /\ Pool!Finish(w)
  /\ UNCHANGED <<arrived, main, n, count, node, fields, past>>

(* new_message_handler: a job that interprets the message.                 *)
Receive(w) ==
  /\ Goto(w, "begin", "return")
  /\ running[w].run = "new_message_handler"
  /\ Pool!SubmitByJob(w, [running[w] EXCEPT !.run = "new_protocol_handler"])
  /\ UNCHANGED <<arrived, main, n, count, node, fields, past>>

(* new_protocol_handler: the descriptor it looks at is not in readfds ...  *)
HandOn(w) ==
  /\ Goto(w, "begin", "return")
  /\ running[w].run = "new_protocol_handler"
  /\ Pool!SubmitByJob(w, [running[w] EXCEPT !.run = "switch_protocol_handler"])
  /\ UNCHANGED <<arrived, main, n, count, node, fields, past>>

(* ... or it is: enqueue(&protocol_queue, p), from its malloc on.          *)
Enqueue(w) ==
  /\ Goto(w, "begin", "testFront")
  /\ running[w].run = "new_protocol_handler"
  /\ calls < MaxEnqueues
  /\ \E a \in Free :
       /\ \A b \in Free : a <= b
       /\ node' = [node EXCEPT ![w] = a]
       /\ memory' = Put(memory, a, [data |-> running[w].p,
                                    prev |-> Wild, next |-> Wild])
  /\ calls' = calls + 1
  /\ raced' = (raced \/ Enqueuing(w))
  /\ UNCHANGED <<pool, arrived, main, n, count, front, back, size, order,
                 taken>>

(* The message is carried out.                                             *)
Switch(w) ==
  /\ Goto(w, "begin", "return")
  /\ running[w].run = "switch_protocol_handler"
  /\ UNCHANGED <<pool, arrived, main, n, count, node, fields, past>>

-----------------------------------------------------------------------------
(* enqueue                                                                 *)

TestFront(w) ==
  /\ Goto(w, "testFront", IF front = NULL THEN "testBack" ELSE "link")
  /\ UNCHANGED <<pool, arrived, main, n, count, node, fields, past>>

TestBack(w) ==
  /\ Goto(w, "testBack", IF back = NULL THEN "first" ELSE "link")
  /\ UNCHANGED <<pool, arrived, main, n, count, node, fields, past>>

(* The empty queue: front, back and a return without counting.             *)
FirstFront(w) ==
  /\ Goto(w, "first", "firstBack")
  /\ front' = node[w]
  /\ UNCHANGED <<pool, arrived, main, n, count, node, memory, back, size,
                 past>>

(* Mutated: the first message is counted.                                  *)
FirstBackCounted(w) ==
  /\ Goto(w, "firstBack", "size")
  /\ back' = node[w]
  /\ order' = Append(order, running[w].p)
  /\ node' = [node EXCEPT ![w] = NULL]
  /\ UNCHANGED <<pool, arrived, main, n, count, memory, front, size, calls,
                 taken, raced>>

FirstBack(w) ==
  /\ Goto(w, "firstBack", "return")
  /\ back' = node[w]
  /\ order' = Append(order, running[w].p)
  /\ node' = [node EXCEPT ![w] = NULL]
  /\ UNCHANGED <<pool, arrived, main, n, count, memory, front, size, calls,
                 taken, raced>>

(* q->back->prev = n                                                       *)
LinkPrev(w) ==
  /\ Goto(w, "link", "next")
  /\ back \in DOMAIN memory
  /\ memory' = [memory EXCEPT ![back].prev = node[w]]
  /\ UNCHANGED <<pool, arrived, main, n, count, node, front, back, size, past>>

(* Mutated: the link to the older node is not set.                         *)
LinkNextNot(w) ==
  /\ Goto(w, "next", "back")
  /\ UNCHANGED <<pool, arrived, main, n, count, node, fields, past>>

(* n->next = q->back                                                       *)
LinkNext(w) ==
  /\ Goto(w, "next", "back")
  /\ node[w] \in DOMAIN memory
  /\ memory' = [memory EXCEPT ![node[w]].next = back]
  /\ UNCHANGED <<pool, arrived, main, n, count, node, front, back, size, past>>

(* q->back = n                                                             *)
SetBack(w) ==
  /\ Goto(w, "back", "size")
  /\ back' = node[w]
  /\ order' = Append(order, running[w].p)
  /\ node' = [node EXCEPT ![w] = NULL]
  /\ UNCHANGED <<pool, arrived, main, n, count, memory, front, size, calls,
                 taken, raced>>

(* q->size = q->size + 1                                                   *)
EnqueueRead(w) ==
  /\ Goto(w, "size", "sizeUp")
  /\ count' = [count EXCEPT ![w] = size]
  /\ UNCHANGED <<pool, arrived, main, n, node, fields, past>>

EnqueueWrite(w) ==
  /\ Goto(w, "sizeUp", "return")
  /\ size' = count[w] + 1
  /\ raced' = (raced \/ Stale(w))
  /\ count' = [count EXCEPT ![w] = 0]
  /\ UNCHANGED <<pool, arrived, main, n, node, memory, front, back, calls,
                 order, taken>>

WorkerStep(w) ==
  \/ StartJob(w) \/ EndJob(w)
  \/ Receive(w) \/ HandOn(w) \/ Enqueue(w) \/ Switch(w)
  \/ TestFront(w) \/ TestBack(w) \/ FirstFront(w) \/ FirstBack(w)
  \/ LinkPrev(w) \/ LinkNext(w) \/ SetBack(w)
  \/ EnqueueRead(w) \/ EnqueueWrite(w) \/ Fault(w)

Rest == main = "crashed" /\ UNCHANGED vars

Next == MainStep \/ (\E w \in Workers : WorkerStep(w)) \/ Rest

Spec == Init /\ [][Next]_vars

-----------------------------------------------------------------------------
(* The nodes from the front on, oldest first, by their prev in memory m.   *)
Follow(a, m) == IF a \in DOMAIN m THEN m[a].prev ELSE Wild
Links(first, m) ==
  LET at[d \in 0..MaxEnqueues] ==
        IF d = 0 THEN first ELSE Follow(at[d - 1], m)
  IN  at

(* Those up to the back.                                                   *)
ChainOf(first, last, m) ==
  LET at == Links(first, m)
      ends == {d \in 0..MaxEnqueues : last # NULL /\ at[d] = last}
  IN  IF ends = {} THEN <<>>
      ELSE [d \in 1..(1 + CHOOSE e \in ends : \A f \in ends : e <= f) |->
              at[d - 1]]

Chain == ChainOf(front, back, memory)

Waiting == [d \in DOMAIN Chain |-> memory[Chain[d]].data]

(* One worker may enqueue while main() dequeues: as long as no two calls   *)
(* of enqueue overlap and no update of size is lost, messages leave the    *)
(* list once and in the order they came, no link leads to freed or         *)
(* uninitialised memory, and main() does not take the back from under      *)
(* enqueue.                                                                *)
Ordered ==
  ~raced => main # "crashed" /\ order = taken \o Waiting

(* Until then size is one less than the number of messages that wait, so   *)
(* that the drain of main() never meets a front without a successor.       *)
Counted ==
  /\ ~raced
  /\ main \notin {"free", "size", "sizeDown"}
  /\ \A w \in Workers : ~Inside(w)
  => size = IF Chain = <<>> THEN 0 ELSE Len(Chain) - 1

(* The calls that have linked their message and have still to count it.    *)
Counting == {w \in Workers : pc[w] \in {"size", "sizeUp"}}

(* main() waits for the pool with at most one message left in the list,    *)
(* besides the one that is being linked; a single one is left for good.    *)
LastWaits ==
  [][main = "drain" /\ main' = "wait" /\ ~raced =>
       Len(Chain) <= 1 + Cardinality(Counting)]_vars

-----------------------------------------------------------------------------
(* The inductive invariant.                                                *)

InEnqueue == {w \in Workers : Inside(w)}
Linking == InEnqueue \ Counting

(* A worker that is not idle has a job, main() a copy of the front from    *)
(* peek on, and a front to dequeue: no other thread takes one off size.    *)
PhaseInv ==
  /\ \A w \in Workers : pc[w] # "idle" => running[w] \in Jobs
  /\ main \in {"dequeue", "unlink", "free", "size", "sizeDown", "add"} =>
       n \in Node
  /\ main \in {"peek", "dequeue", "unlink", "free", "size"} => size > 0
  /\ main = "sizeDown" => count[Main] > 0

(* Whatever is lost, a call of enqueue adds at most one to size.           *)
CallsInv ==
  /\ size + Cardinality(InEnqueue) <= calls
  /\ \A t \in Workers \cup {Main} :
       count[t] + Cardinality(InEnqueue) <= calls

(* The nodes of c are the list, linked in both directions in memory m.     *)
IsList(c, first, last, m) ==
  /\ c \in Seq(DOMAIN m) /\ c # <<>>
  /\ first = c[1] /\ last = c[Len(c)]
  /\ \A i, j \in DOMAIN c : c[i] = c[j] => i = j
  /\ \A i \in 1..(Len(c) - 1) :
       m[c[i]].prev = c[i + 1] /\ m[c[i + 1]].next = c[i]

(* Nothing was linked yet: a first call of enqueue may have set the front. *)
Unused ==
  /\ back = NULL
  /\ size = 0 /\ order = <<>> /\ taken = <<>>
  /\ front # NULL =>
       \E w \in Workers : pc[w] = "firstBack" /\ front = node[w]
  /\ main \notin {"free", "size", "sizeDown"}
  /\ Counting = {}

(* The nodes that main() took from the front and did not take off size.    *)
Taking == IF main \in {"free", "size", "sizeDown"} THEN 1 ELSE 0

(* From then on there is always a front.  The size lags behind by one, by  *)
(* the call that still has to count and by what main() is taking; the node *)
(* to free is in no use.                                                   *)
Linked ==
  /\ IsList(Chain, front, back, memory)
  /\ order = taken \o Waiting
  /\ size + Cardinality(Counting) + 1 = Len(Chain) + Taking
  /\ main \in {"dequeue", "unlink"} => n.data = memory[front].data
  /\ main = "free" =>
       LET old == memory[front].next
       IN  /\ old \in DOMAIN memory
           /\ \A i \in DOMAIN Chain : Chain[i] # old
           /\ \A w \in Linking : node[w] # old

(* The node that a call of enqueue links, and what its tests have seen.    *)
LinkInv(w) ==
  /\ node[w] \in DOMAIN memory
  /\ memory[node[w]].data = running[w].p
  /\ \A i \in DOMAIN Chain : Chain[i] # node[w]
  /\ pc[w] \in {"testBack", "first"} => front = NULL /\ back = NULL
  /\ pc[w] = "firstBack" => front = node[w] /\ back = NULL
  /\ pc[w] \in {"link", "next", "back"} => back # NULL
  /\ pc[w] \in {"next", "back"} => memory[back].prev = node[w]
  /\ pc[w] = "back" => memory[node[w]].next = back

(* What holds until calls of enqueue overlap or an update is lost.         *)
ListInv ==
  /\ main # "crashed"
  /\ \A u, w \in InEnqueue : u = w
  /\ Unused \/ Linked
  /\ \A w \in Linking : LinkInv(w)

IInv ==
  /\ TypeOK
  /\ PhaseInv
  /\ CallsInv
  /\ ~raced => ListInv

=============================================================================
