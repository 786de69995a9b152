----------------------------- MODULE ThreadPool ------------------------------
(***************************************************************************)
(* The thread pool of src/thpool.c, one action per stretch of code between *)
(* two points where another thread can act.  Main is the thread that calls *)
(* the pool (main() of server.c); Workers are the threads of the pool.     *)
(*                                                                         *)
(* A mutex that a thread holds while another can observe what it protects  *)
(* is a variable (thcount_lock, rwmutex).  The mutex inside a bsem only    *)
(* ever covers one test or assignment of v, so bsem_post and bsem_wait are *)
(* single steps.  The linked list of jobs is the sequence jobqueue, its    *)
(* len field the length of the sequence; jobs are numbered in the order    *)
(* thpool_add_work links them.                                             *)
(*                                                                         *)
(* Bounds: MaxJobs jobs are added in all, and a condition variable wakes   *)
(* its waiter without a signal (POSIX allows it) MaxSpurious times.        *)
(***************************************************************************)
EXTENDS Naturals, Sequences, FiniteSets

CONSTANTS Workers, Main, NoThread, MaxJobs, MaxSpurious

ASSUME PoolAssumption ==
  /\ Workers # {} /\ IsFiniteSet(Workers)
  /\ Main \notin Workers
  /\ NoThread \notin Workers \cup {Main}
  /\ MaxJobs \in Nat
  /\ MaxSpurious \in Nat

Threads == Workers \cup {Main}
Jobs == 1..MaxJobs
NoJob == 0

VARIABLES
  pc,            \* where each thread is
  keepalive,     \* threads_keepalive
  alive,         \* num_threads_alive
  working,       \* num_threads_working
  thcount_lock,  \* the thread that holds the mutex of that name
  rwmutex,       \* likewise, the mutex of the job queue
  jobqueue,      \* front ... rear
  v,             \* the binary semaphore has_jobs
  job,           \* job[w]: the local job_p of worker w
  added,         \* how many jobs were linked into the queue so far
  done,          \* the jobs whose function returned
  dropped,       \* the jobs freed by jobqueue_clear
  freed,         \* thpool_destroy freed the pool
  spurious       \* wakeups without a signal so far

poolVars  == <<keepalive, freed, spurious>>
countVars == <<alive, working, thcount_lock>>
queueVars == <<rwmutex, jobqueue, v>>
jobVars   == <<job, added, done, dropped>>
vars == <<pc, poolVars, countVars, queueVars, jobVars>>

(* "app" is the code that uses the pool; "lock", "len", "working" and      *)
(* "idle" are inside thpool_wait; "kill" and "clear" in thpool_destroy.    *)
MainLabels == {"spawn", "app", "push", "lock", "len", "working", "idle",
               "kill", "clear", "gone"}
WorkerLabels == {"spawn", "loop", "sem", "asleep", "token", "count", "pull",
                 "repost", "run", "push", "uncount", "leave", "unlock", "exit"}

TypeOK ==
  /\ pc \in [Threads -> MainLabels \cup WorkerLabels]
  /\ pc[Main] \in MainLabels
  /\ \A w \in Workers : pc[w] \in WorkerLabels
  /\ keepalive \in BOOLEAN
  /\ alive \in Nat
  /\ working \in Nat
  /\ thcount_lock \in Threads \cup {NoThread}
  /\ rwmutex \in Threads \cup {NoThread}
  /\ jobqueue \in Seq(Jobs)
  /\ v \in {0, 1}
  /\ job \in [Workers -> Jobs \cup {NoJob}]
  /\ added \in 0..MaxJobs
  /\ done \in SUBSET Jobs
  /\ dropped \in SUBSET Jobs
  /\ freed \in BOOLEAN
  /\ spurious \in 0..MaxSpurious

Init ==
  /\ pc = [t \in Threads |-> "spawn"]
  /\ keepalive = TRUE
  /\ alive = 0
  /\ working = 0
  /\ thcount_lock = NoThread
  /\ rwmutex = NoThread
  /\ jobqueue = <<>>
  /\ v = 0
  /\ job = [w \in Workers |-> NoJob]
  /\ added = 0
  /\ done = {}
  /\ dropped = {}
  /\ freed = FALSE
  /\ spurious = 0

Goto(t, from, to) == pc[t] = from /\ pc' = [pc EXCEPT ![t] = to]

Asleep == {w \in Workers : pc[w] = "asleep"}

-----------------------------------------------------------------------------
(* The binary semaphore.  A thread woken in pthread_cond_wait takes the    *)
(* mutex again and tests v again, like one that just called bsem_wait.     *)

(* Mutated: bsem_post without pthread_cond_signal.                         *)
BsemPostSilent(t, to) == v' = 1 /\ pc' = [pc EXCEPT ![t] = to]

(* bsem_post: v is 1 and one sleeper, if there is one, is signalled; t     *)
(* continues at label to.                                                  *)
BsemPost(t, to) ==
  /\ v' = 1
  /\ IF Asleep = {}
       THEN pc' = [pc EXCEPT ![t] = to]
       ELSE \E w \in Asleep : pc' = [pc EXCEPT ![t] = to, ![w] = "sem"]

BsemWait(w) ==
  /\ \/ v = 1 /\ v' = 0 /\ Goto(w, "sem", "token")
     \/ v = 0 /\ v' = v /\ Goto(w, "sem", "asleep")
  /\ UNCHANGED <<poolVars, countVars, rwmutex, jobqueue, jobVars>>

-----------------------------------------------------------------------------
(* thpool_add_work, called by Main or by a job a worker runs.              *)

CanAdd(t) == \/ t = Main /\ pc[t] = "app"
             \/ t \in Workers /\ pc[t] = "run"

(* Mutated: the new job becomes the front of the queue.                    *)
AddWorkInFront(t) ==
  /\ CanAdd(t) /\ rwmutex = NoThread /\ added < MaxJobs
  /\ rwmutex' = t
  /\ added' = added + 1
  /\ jobqueue' = <<added + 1>> \o jobqueue
  /\ pc' = [pc EXCEPT ![t] = "push"]
  /\ UNCHANGED <<poolVars, countVars, v, job, done, dropped>>

(* jobqueue_push up to len++, with the mutex of the queue taken.           *)
AddWork(t) ==
  /\ CanAdd(t)
  /\ rwmutex = NoThread
  /\ added < MaxJobs
  /\ rwmutex' = t
  /\ added' = added + 1
  /\ jobqueue' = Append(jobqueue, added + 1)
  /\ pc' = [pc EXCEPT ![t] = "push"]
  /\ UNCHANGED <<poolVars, countVars, v, job, done, dropped>>

(* The rest of jobqueue_push: post has_jobs, release the mutex.            *)
PushPost(t) ==
  /\ pc[t] = "push"
  /\ BsemPost(t, IF t = Main THEN "app" ELSE "run")
  /\ rwmutex' = NoThread
  /\ UNCHANGED <<poolVars, countVars, jobqueue, jobVars>>

-----------------------------------------------------------------------------
(* thpool_init and the loop of a worker, thread_do.                        *)

ThreadStart(w) ==
  /\ Goto(w, "spawn", "loop")
  /\ thcount_lock = NoThread
  /\ alive' = alive + 1
  /\ UNCHANGED <<poolVars, working, thcount_lock, queueVars, jobVars>>

InitReturns ==
  /\ Goto(Main, "spawn", "app")
  /\ alive = Cardinality(Workers)
  /\ UNCHANGED <<poolVars, countVars, queueVars, jobVars>>

(* while (threads_keepalive)                                               *)
LoopTest(w) ==
  /\ Goto(w, "loop", IF keepalive THEN "sem" ELSE "leave")
  /\ UNCHANGED <<poolVars, countVars, queueVars, jobVars>>

(* if (threads_keepalive), after bsem_wait                                 *)
TokenTest(w) ==
  /\ Goto(w, "token", IF keepalive THEN "count" ELSE "loop")
  /\ UNCHANGED <<poolVars, countVars, queueVars, jobVars>>

(* Mutated: num_threads_working++ is missing.                              *)
CountUpMissing(w) ==
  /\ Goto(w, "count", "pull") /\ thcount_lock = NoThread
  /\ UNCHANGED <<poolVars, countVars, queueVars, jobVars>>

(* num_threads_working++                                                   *)
CountUp(w) ==
  /\ Goto(w, "count", "pull")
  /\ thcount_lock = NoThread
  /\ working' = working + 1
  /\ UNCHANGED <<poolVars, alive, thcount_lock, queueVars, jobVars>>

(* Mutated: the front is returned and stays linked.                        *)
PullStaysLinked(w) ==
  /\ Goto(w, "pull", "repost") /\ rwmutex = NoThread /\ rwmutex' = w
  /\ job' = [job EXCEPT ![w] = IF jobqueue = <<>> THEN @ ELSE Head(jobqueue)]
  /\ UNCHANGED <<poolVars, countVars, jobqueue, v, added, done, dropped>>

(* jobqueue_pull up to the switch: unlink the front, if there is one.      *)
Pull(w) ==
  /\ Goto(w, "pull", "repost")
  /\ rwmutex = NoThread
  /\ rwmutex' = w
  /\ IF jobqueue = <<>>
       THEN UNCHANGED <<jobqueue, job>>
       ELSE /\ job' = [job EXCEPT ![w] = Head(jobqueue)]
            /\ jobqueue' = Tail(jobqueue)
  /\ UNCHANGED <<poolVars, countVars, v, added, done, dropped>>

(* Mutated: has_jobs is not posted for the jobs left.                      *)
RepostNever(w) ==
  /\ pc[w] = "repost"
  /\ rwmutex' = NoThread
  /\ pc' = [pc EXCEPT ![w] = IF job[w] = NoJob THEN "uncount" ELSE "run"]
  /\ UNCHANGED <<poolVars, countVars, jobqueue, v, jobVars>>

(* The rest of jobqueue_pull: post has_jobs if a job is left, release the  *)
(* mutex; then run the job, or nothing when the queue was empty.           *)
Repost(w) ==
  LET to == IF job[w] = NoJob THEN "uncount" ELSE "run"
  IN  /\ pc[w] = "repost"
      /\ rwmutex' = NoThread
      /\ IF jobqueue = <<>>
           THEN v' = v /\ pc' = [pc EXCEPT ![w] = to]
           ELSE BsemPost(w, to)
      /\ UNCHANGED <<poolVars, countVars, jobqueue, jobVars>>

(* func_buff(arg_buff) returns; free(job_p)                                *)
JobReturns(w) ==
  /\ Goto(w, "run", "uncount")
  /\ done' = done \cup {job[w]}
  /\ job' = [job EXCEPT ![w] = NoJob]
  /\ UNCHANGED <<poolVars, countVars, queueVars, added, dropped>>

(* Mutated: threads_all_idle is not signalled.                             *)
CountDownSilent(w) ==
  /\ Goto(w, "uncount", "loop") /\ thcount_lock = NoThread
  /\ working' = working - 1
  /\ UNCHANGED <<poolVars, alive, thcount_lock, queueVars, jobVars>>

(* num_threads_working--, and signal threads_all_idle if it is 0           *)
CountDown(w) ==
  /\ pc[w] = "uncount"
  /\ thcount_lock = NoThread
  /\ working' = working - 1
  /\ IF working' = 0 /\ pc[Main] = "idle"
       THEN pc' = [pc EXCEPT ![w] = "loop", ![Main] = "lock"]
       ELSE pc' = [pc EXCEPT ![w] = "loop"]
  /\ UNCHANGED <<poolVars, alive, thcount_lock, queueVars, jobVars>>

(* num_threads_alive--, in two steps: Main reads the counter without the   *)
(* lock, so it can see the new value before the worker released the lock.  *)
Leave(w) ==
  /\ Goto(w, "leave", "unlock")
  /\ thcount_lock = NoThread
  /\ thcount_lock' = w
  /\ alive' = alive - 1
  /\ UNCHANGED <<poolVars, working, queueVars, jobVars>>

Unlock(w) ==
  /\ Goto(w, "unlock", "exit")
  /\ thcount_lock' = NoThread
  /\ UNCHANGED <<poolVars, alive, working, queueVars, jobVars>>

-----------------------------------------------------------------------------
(* thpool_wait: the condition of its loop is two reads, the first of a     *)
(* field that other threads write without thcount_lock.                    *)

WaitCall ==
  /\ Goto(Main, "app", "lock")
  /\ UNCHANGED <<poolVars, countVars, queueVars, jobVars>>

(* Mutated: thpool_wait does not take thcount_lock.                        *)
WaitLockMissing ==
  /\ Goto(Main, "lock", "len")
  /\ UNCHANGED <<poolVars, countVars, queueVars, jobVars>>

WaitLock ==
  /\ Goto(Main, "lock", "len")
  /\ thcount_lock = NoThread
  /\ thcount_lock' = Main
  /\ UNCHANGED <<poolVars, alive, working, queueVars, jobVars>>

(* Mutated: the loop of thpool_wait tests num_threads_working only.        *)
WaitReadLenMissing ==
  /\ Goto(Main, "len", "working")
  /\ UNCHANGED <<poolVars, countVars, queueVars, jobVars>>

WaitReadLen ==
  /\ \/ /\ jobqueue # <<>>
        /\ Goto(Main, "len", "idle")
        /\ thcount_lock' = NoThread
     \/ /\ jobqueue = <<>>
        /\ Goto(Main, "len", "working")
        /\ UNCHANGED thcount_lock
  /\ UNCHANGED <<poolVars, alive, working, queueVars, jobVars>>

WaitReadWorking ==
  /\ Goto(Main, "working", IF working = 0 THEN "app" ELSE "idle")
  /\ thcount_lock' = NoThread
  /\ UNCHANGED <<poolVars, alive, working, queueVars, jobVars>>

-----------------------------------------------------------------------------
(* thpool_destroy                                                          *)

DestroyCall ==
  /\ Goto(Main, "app", "kill")
  /\ keepalive' = FALSE
  /\ UNCHANGED <<freed, spurious, countVars, queueVars, jobVars>>

(* Mutated: bsem_post_all wakes the sleepers and leaves v alone.           *)
DestroyPollBroadcast ==
  /\ pc[Main] = "kill"
  /\ pc' = IF alive = 0 THEN [pc EXCEPT ![Main] = "clear"]
           ELSE [t \in Threads |-> IF t \in Asleep THEN "sem" ELSE pc[t]]
  /\ UNCHANGED <<poolVars, countVars, queueVars, jobVars>>

(* Mutated: only the threads that execute a job are waited for.            *)
DestroyPollWorking ==
  /\ Goto(Main, "kill", IF working = 0 THEN "clear" ELSE "kill")
  /\ v' = IF working = 0 THEN v ELSE 1
  /\ UNCHANGED <<poolVars, countVars, rwmutex, jobqueue, jobVars>>

(* Both polling loops: bsem_post_all as long as a thread is alive.         *)
DestroyPoll ==
  /\ pc[Main] = "kill"
  /\ \/ /\ alive # 0
        /\ v' = 1
        /\ pc' = [t \in Threads |-> IF t \in Asleep THEN "sem" ELSE pc[t]]
     \/ /\ alive = 0
        /\ v' = v
        /\ pc' = [pc EXCEPT ![Main] = "clear"]
  /\ UNCHANGED <<poolVars, countVars, rwmutex, jobqueue, jobVars>>

(* One turn of the loop in jobqueue_clear.  No worker is left to observe   *)
(* the queue, so its jobqueue_pull is one step.                            *)
ClearJob ==
  /\ pc[Main] = "clear"
  /\ rwmutex = NoThread
  /\ jobqueue # <<>>
  /\ dropped' = dropped \cup {Head(jobqueue)}
  /\ jobqueue' = Tail(jobqueue)
  /\ v' = IF Len(jobqueue) > 1 THEN 1 ELSE v
  /\ UNCHANGED <<pc, poolVars, countVars, rwmutex, job, added, done>>

(* bsem_reset, then the calls to free                                      *)
DestroyFree ==
  /\ Goto(Main, "clear", "gone")
  /\ jobqueue = <<>>
  /\ v' = 0
  /\ freed' = TRUE
  /\ UNCHANGED <<keepalive, spurious, countVars, rwmutex, jobqueue, jobVars>>

-----------------------------------------------------------------------------
(* pthread_cond_wait returns without a signal.                             *)
SpuriousWakeup ==
  /\ spurious < MaxSpurious
  /\ spurious' = spurious + 1
  /\ \/ Goto(Main, "idle", "lock")
     \/ \E w \in Workers : Goto(w, "asleep", "sem")
  /\ UNCHANGED <<keepalive, freed, countVars, queueVars, jobVars>>

(* The pool is gone and every thread of it ended: nothing is left to do.   *)
Ended ==
  /\ pc[Main] = "gone"
  /\ \A w \in Workers : pc[w] = "exit"
  /\ UNCHANGED vars

(* What worker w does by itself; a job may also add work, or never do so.  *)
WorkerStep(w) ==
  \/ ThreadStart(w) \/ LoopTest(w) \/ BsemWait(w) \/ TokenTest(w)
  \/ CountUp(w) \/ Pull(w) \/ Repost(w) \/ JobReturns(w) \/ CountDown(w)
  \/ Leave(w) \/ Unlock(w) \/ PushPost(w)

(* What Main does inside a call to the pool.                               *)
MainStep ==
  \/ InitReturns \/ PushPost(Main)
  \/ WaitLock \/ WaitReadLen \/ WaitReadWorking
  \/ DestroyPoll \/ ClearJob \/ DestroyFree

(* The calls the program may make.                                         *)
Call ==
  \/ \E t \in Threads : AddWork(t)
  \/ WaitCall
  \/ DestroyCall

Next ==
  \/ \E w \in Workers : WorkerStep(w)
  \/ MainStep
  \/ Call
  \/ SpuriousWakeup
  \/ Ended

Spec == Init /\ [][Next]_vars

(* The scheduler runs every thread that can run, and jobs return.  No call *)
(* has to be made.                                                         *)
Fairness == WF_vars(MainStep) /\ \A w \in Workers : WF_vars(WorkerStep(w))
FairSpec == Spec /\ Fairness

-----------------------------------------------------------------------------
(* Worker w is between num_threads_working++ and num_threads_working--.    *)
Counted(w) == pc[w] \in {"pull", "repost", "run", "push", "uncount"}

Queued == {jobqueue[i] : i \in DOMAIN jobqueue}
Held == {job[w] : w \in Workers} \ {NoJob}

(* While the pool lives, a queued job always has a wakeup on its way: the  *)
(* semaphore is up, a worker that took it has not reached the queue yet,   *)
(* or a thread that holds rwmutex is about to post.  This is what lets a   *)
(* semaphore that only remembers one post stand for a queue of any length. *)
NoStrandedJob ==
  keepalive /\ jobqueue # <<>> =>
    \/ v = 1
    \/ \E w \in Workers : pc[w] \in {"token", "count", "pull", "repost"}
    \/ \E t \in Threads : pc[t] = "push"

(* The semaphore is never up while its sleepers have all been forgotten:   *)
(* if a worker sleeps in bsem_wait although v is 1, another worker is      *)
(* about to test v.  Signals go to one sleeper, which may find v taken.    *)
NoLostWakeup ==
  v = 1 /\ Asleep # {} => \E w \in Workers : pc[w] = "sem"

(* No job is lost, duplicated or run twice, also when jobs add jobs and    *)
(* when the pool is destroyed: every job added is in exactly one of the    *)
(* queue, the hands of one worker, the finished jobs and the dropped jobs. *)
JobsConserved ==
  /\ Queued \cup Held \cup done \cup dropped = 1..added
  /\ Queued \cap (Held \cup done \cup dropped) = {}
  /\ Held \cap (done \cup dropped) = {}
  /\ done \cap dropped = {}
  /\ \A i, k \in DOMAIN jobqueue : jobqueue[i] = jobqueue[k] => i = k
  /\ \A w, u \in Workers : job[w] = job[u] /\ job[w] # NoJob => w = u

(* When thpool_wait returns, every job added so far has run to its end,    *)
(* the ones added by other jobs while it waited included, although it      *)
(* reads the queue length without the lock of the queue.                   *)
WaitIsBarrier ==
  [][pc[Main] = "working" /\ pc'[Main] = "app" => done = 1..added]_vars

(* thpool_destroy does not free the pool under a worker that can still     *)
(* touch its queue or run a job; only the unlock that follows              *)
(* num_threads_alive-- may come after.                                     *)
NoJobAfterFree ==
  freed => \A w \in Workers : pc[w] \in {"unlock", "exit"}

(* What src/thpool.h:145 says of thpool_destroy: it waits for the threads  *)
(* to finish before it frees the memory.                                   *)
FreeAfterExit ==
  freed => \A w \in Workers : pc[w] = "exit"

(* Every job added is run, unless the pool is destroyed.                   *)
JobsRun ==
  \A j \in Jobs : (j <= added) ~> (j \in done \/ ~keepalive)

(* thpool_wait returns: the signal of the last worker is not lost.         *)
WaitEnds == (pc[Main] = "lock") ~> (pc[Main] = "app")

(* thpool_destroy returns: every worker wakes up and leaves, whatever it   *)
(* was doing when keepalive was cleared.                                   *)
DestroyEnds == (pc[Main] = "kill") ~> (pc[Main] = "gone")

-----------------------------------------------------------------------------
(* The inductive invariant behind the safety properties above.             *)

AliveSet == {w \in Workers : pc[w] \notin {"spawn", "unlock", "exit"}}
CountedSet == {w \in Workers : Counted(w)}

CountersInv ==
  /\ alive = Cardinality(AliveSet)
  /\ working = Cardinality(CountedSet)

LocksInv ==
  /\ \A t \in Threads : rwmutex = t <=> pc[t] \in {"push", "repost"}
  /\ thcount_lock = Main <=> pc[Main] \in {"len", "working"}
  /\ \A w \in Workers : thcount_lock = w <=> pc[w] = "unlock"

PhaseInv ==
  /\ keepalive <=> pc[Main] \notin {"kill", "clear", "gone"}
  /\ freed <=> pc[Main] = "gone"
  /\ \A w \in Workers : pc[w] = "spawn" => pc[Main] = "spawn"
  /\ \A w \in Workers : pc[w] \in {"leave", "unlock", "exit"} => ~keepalive
  /\ pc[Main] \in {"clear", "gone"} =>
       \A w \in Workers : pc[w] \in {"unlock", "exit"}
  /\ dropped # {} => pc[Main] \in {"clear", "gone"}

(* The queue holds the last jobs added, in order; all the earlier ones     *)
(* were taken.                                                             *)
Taken == 1..(added - Len(jobqueue))

QueueInv ==
  /\ Len(jobqueue) <= added
  /\ \A i \in DOMAIN jobqueue : jobqueue[i] = added - Len(jobqueue) + i
  /\ Held \cup done \cup dropped = Taken

HandsInv ==
  /\ \A w \in Workers : job[w] # NoJob => pc[w] \in {"repost", "run", "push"}
  /\ \A w \in Workers : pc[w] \in {"run", "push"} => job[w] # NoJob
  /\ \A w \in Workers : job[w] \notin done \cup dropped
  /\ \A w, u \in Workers : job[w] = job[u] /\ job[w] # NoJob => w = u
  /\ done \cap dropped = {}

(* Once thpool_wait has seen an empty queue, only a running job can make   *)
(* it non-empty again, and it is counted.                                  *)
WaitInv == pc[Main] = "working" /\ jobqueue # <<>> => CountedSet # {}

IInv ==
  /\ TypeOK
  /\ CountersInv
  /\ LocksInv
  /\ PhaseInv
  /\ QueueInv
  /\ HandsInv
  /\ WaitInv
  /\ NoStrandedJob
  /\ NoLostWakeup

-----------------------------------------------------------------------------
(* The call of the pool that Main is in, if any.                           *)
CallOfMain ==
  CASE pc[Main] \in {"lock", "len", "working", "idle"} -> "waiting"
    [] pc[Main] \in {"kill", "clear"} -> "closing"
    [] pc[Main] = "gone" -> "closed"
    [] OTHER -> "app"

(* The pool as its users see it: a worker executes the job it pulled until *)
(* the job returns.                                                        *)
Pool ==
  INSTANCE JobPool WITH
    queue   <- jobqueue,
    running <- job,
    caller  <- CallOfMain

(* The pool of thpool.c does what thpool.h promises, step by step.         *)
PoolSpec == Pool!PoolSpec

=============================================================================
