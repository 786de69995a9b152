------------------------------- MODULE JobPool -------------------------------
(***************************************************************************)
(* What src/thpool.h promises to a program that uses the thread pool, with *)
(* none of the locks, counters and semaphores of src/thpool.c: jobs are    *)
(* taken in the order they were added, at most one per worker at a time,   *)
(* each one once; thpool_wait returns only when nothing is queued and      *)
(* nothing runs; thpool_destroy lets the running jobs finish and drops the *)
(* ones still queued.  ThreadPool implements this module, and Server uses  *)
(* it in place of the detailed pool.                                       *)
(***************************************************************************)
EXTENDS Naturals, Sequences

CONSTANTS
  Workers,   \* the threads of the pool
  Jobs,      \* what can be added: a function and its argument
  NoJob      \* not a job: what an idle worker runs

VARIABLES
  queue,     \* the jobs added and not yet taken, oldest first
  running,   \* running[w]: the job worker w executes, or NoJob
  caller     \* where the thread that owns the pool is

poolVars == <<queue, running, caller>>

PoolTypeOK ==
  /\ queue \in Seq(Jobs)
  /\ running \in [Workers -> Jobs \cup {NoJob}]
  /\ caller \in {"app", "waiting", "closing", "closed"}

PoolInit ==
  /\ queue = <<>>
  /\ running = [w \in Workers |-> NoJob]
  /\ caller = "app"

NothingRuns == \A w \in Workers : running[w] = NoJob
Idle == queue = <<>> /\ NothingRuns

(* thpool_add_work, called by the owner of the pool ...                    *)
SubmitByCaller(j) ==
  /\ caller = "app"
  /\ queue' = Append(queue, j)
  /\ UNCHANGED <<running, caller>>

(* ... or by a job that runs in it.                                        *)
SubmitByJob(w, j) ==
  /\ running[w] # NoJob
  /\ queue' = Append(queue, j)
  /\ UNCHANGED <<running, caller>>

Start(w) ==
  /\ caller # "closed"
  /\ running[w] = NoJob
  /\ queue # <<>>
  /\ running' = [running EXCEPT ![w] = Head(queue)]
  /\ queue' = Tail(queue)
  /\ UNCHANGED caller

Finish(w) ==
  /\ running[w] # NoJob
  /\ running' = [running EXCEPT ![w] = NoJob]
  /\ UNCHANGED <<queue, caller>>

Wait ==
  /\ caller = "app"
  /\ caller' = "waiting"
  /\ UNCHANGED <<queue, running>>

WaitReturns ==
  /\ caller = "waiting"
  /\ Idle
  /\ caller' = "app"
  /\ UNCHANGED <<queue, running>>

Destroy ==
  /\ caller = "app"
  /\ caller' = "closing"
  /\ UNCHANGED <<queue, running>>

DropJob ==
  /\ caller = "closing"
  /\ NothingRuns
  /\ queue # <<>>
  /\ queue' = Tail(queue)
  /\ UNCHANGED <<running, caller>>

DestroyReturns ==
  /\ caller = "closing"
  /\ Idle
  /\ caller' = "closed"
  /\ UNCHANGED <<queue, running>>

PoolNext ==
  \/ \E j \in Jobs : SubmitByCaller(j)
  \/ \E w \in Workers, j \in Jobs : SubmitByJob(w, j)
  \/ \E w \in Workers : Start(w) \/ Finish(w)
  \/ Wait \/ WaitReturns
  \/ Destroy \/ DropJob \/ DestroyReturns

PoolSpec == PoolInit /\ [][PoolNext]_poolVars

=============================================================================
