-------------------------- MODULE ThreadPoolProofs ---------------------------
(***************************************************************************)
(* Theorems about ThreadPool, proved for any finite set of workers and any *)
(* number of jobs.  The conjuncts of the inductive invariant IInv come one *)
(* lemma each, then the properties of ThreadPool that follow from it, then *)
(* the refinement of JobPool.                                              *)
(***************************************************************************)
EXTENDS ThreadPool, FiniteSetTheorems, SequenceTheorems, TLAPS

USE PoolAssumption DEF Threads, Jobs, NoJob, poolVars, countVars, queueVars,
  jobVars

-----------------------------------------------------------------------------
(* What the semaphore operations do to the program counters.               *)

(* bsem_post moves the poster on and wakes at most sleepers of the         *)
(* semaphore; it wakes one if there is any.                                *)
LEMMA PostEffect ==
  ASSUME TypeOK, NEW t \in Threads, pc[t] # "asleep",
         NEW to \in MainLabels \cup WorkerLabels, to # "asleep", BsemPost(t, to)
  PROVE  /\ pc' \in [Threads -> MainLabels \cup WorkerLabels]
         /\ pc'[t] = to
         /\ \A u \in Threads \ {t} :
              \/ pc'[u] = pc[u]
              \/ u \in Workers /\ pc[u] = "asleep" /\ pc'[u] = "sem"
         /\ Asleep' # {} => \E w \in Workers : pc'[w] = "sem"
         /\ v' = 1
<1>1. CASE Asleep = {}
  BY <1>1 DEF BsemPost, TypeOK, Asleep
<1>2. CASE Asleep # {}
  <2>1. PICK w \in Asleep : pc' = [pc EXCEPT ![t] = to, ![w] = "sem"]
    BY <1>2 DEF BsemPost
  <2>2. w \in Workers /\ w # t /\ pc[w] = "asleep"
    BY <2>1 DEF Asleep
  <2>3. pc' \in [Threads -> MainLabels \cup WorkerLabels]
    BY <2>1, <2>2 DEF TypeOK, WorkerLabels, MainLabels
  <2>4. pc'[t] = to /\ pc'[w] = "sem"
    BY <2>1, <2>2 DEF TypeOK
  <2>5. \A u \in Threads \ {t, w} : pc'[u] = pc[u]
    BY <2>1 DEF TypeOK
  <2>6. v' = 1
    BY DEF BsemPost
  <2>7. QED
    BY <2>2, <2>3, <2>4, <2>5, <2>6
<1>3. QED
  BY <1>1, <1>2

LEMMA PushPostEffect ==
  ASSUME TypeOK, NEW t \in Threads, PushPost(t)
  PROVE  /\ pc' \in [Threads -> MainLabels \cup WorkerLabels]
         /\ pc[t] = "push"
         /\ pc'[t] = IF t = Main THEN "app" ELSE "run"
         /\ \A u \in Threads \ {t} :
              \/ pc'[u] = pc[u]
              \/ u \in Workers /\ pc[u] = "asleep" /\ pc'[u] = "sem"
         /\ Asleep' # {} => \E w \in Workers : pc'[w] = "sem"
         /\ v' = 1
BY PostEffect DEF PushPost, MainLabels, WorkerLabels

LEMMA RepostEffect ==
  ASSUME TypeOK, NEW w \in Workers, Repost(w)
  PROVE  /\ pc' \in [Threads -> MainLabels \cup WorkerLabels]
         /\ pc[w] = "repost"
         /\ pc'[w] = IF job[w] = NoJob THEN "uncount" ELSE "run"
         /\ \A u \in Threads \ {w} :
              \/ pc'[u] = pc[u]
              \/ u \in Workers /\ pc[u] = "asleep" /\ pc'[u] = "sem"
         /\ IF jobqueue = <<>>
              THEN /\ v' = v /\ Asleep' = Asleep
                   /\ \A u \in Threads \ {w} : pc'[u] = pc[u]
              ELSE /\ Asleep' # {} => \E u \in Workers : pc'[u] = "sem"
                   /\ v' = 1
<1> DEFINE to == IF job[w] = NoJob THEN "uncount" ELSE "run"
<1>1. CASE jobqueue = <<>>
  BY <1>1 DEF Repost, TypeOK, Asleep, WorkerLabels
<1>2. CASE jobqueue # <<>>
  <2>1. BsemPost(w, to) /\ pc[w] = "repost"
    BY <1>2 DEF Repost
  <2>2. to \in MainLabels \cup WorkerLabels /\ to # "asleep"
    BY DEF WorkerLabels
  <2> HIDE DEF to
  <2>3. QED
    BY <1>2, <2>1, <2>2, PostEffect DEF to
<1>3. QED
  BY <1>1, <1>2

(* bsem_post_all wakes every sleeper.                                      *)
LEMMA PollEffect ==
  ASSUME TypeOK, DestroyPoll
  PROVE  /\ pc' \in [Threads -> MainLabels \cup WorkerLabels]
         /\ pc[Main] = "kill"
         /\ \/ alive # 0 /\ pc'[Main] = "kill"
            \/ alive = 0 /\ pc'[Main] = "clear"
         /\ \A u \in Workers :
              \/ pc'[u] = pc[u]
              \/ pc[u] = "asleep" /\ pc'[u] = "sem"
         /\ \/ Asleep' = {}
            \/ v' = v /\ \A u \in Workers : pc'[u] = pc[u]
<1>1. CASE alive # 0
  <2>1. /\ pc[Main] = "kill"
        /\ pc' = [t \in Threads |-> IF t \in Asleep THEN "sem" ELSE pc[t]]
    BY <1>1 DEF DestroyPoll
  <2>2. Main \notin Asleep
    BY DEF Asleep
  <2>3. QED
    BY <1>1, <2>1, <2>2 DEF TypeOK, Asleep, WorkerLabels, MainLabels
<1>2. CASE alive = 0
  BY <1>2 DEF DestroyPoll, TypeOK, MainLabels
<1>3. QED
  BY <1>1, <1>2

-----------------------------------------------------------------------------
(* The lemmas below have one step per group of actions that treat the      *)
(* conjunct alike, and end with this case analysis.                        *)
LEMMA NextCases ==
  ASSUME [Next]_vars
  PROVE  \/ \E w \in Workers :
              \/ ThreadStart(w) \/ LoopTest(w) \/ BsemWait(w) \/ TokenTest(w)
              \/ CountUp(w) \/ Pull(w) \/ Repost(w) \/ JobReturns(w)
              \/ CountDown(w) \/ Leave(w) \/ Unlock(w)
         \/ \E t \in Threads : AddWork(t) \/ PushPost(t)
         \/ InitReturns \/ WaitCall \/ WaitLock \/ WaitReadLen
         \/ WaitReadWorking \/ DestroyCall \/ DestroyPoll \/ ClearJob
         \/ DestroyFree \/ SpuriousWakeup \/ UNCHANGED vars
BY DEF Next, WorkerStep, MainStep, Call, Ended

(* The lock variables name the threads inside the critical sections.       *)
LEMMA LocksStep ==
  ASSUME TypeOK, LocksInv, [Next]_vars
  PROVE  LocksInv'
<1> USE DEF TypeOK, LocksInv, Goto
<1>1. ASSUME NEW w \in Workers,
             \/ ThreadStart(w) \/ LoopTest(w) \/ BsemWait(w) \/ TokenTest(w)
             \/ CountUp(w) \/ Pull(w) \/ JobReturns(w) \/ CountDown(w)
             \/ Leave(w) \/ Unlock(w)
      PROVE  LocksInv'
  BY <1>1, SMTT(30) DEF ThreadStart, LoopTest, BsemWait, TokenTest, CountUp,
     Pull, JobReturns, CountDown, Leave, Unlock
<1>2. ASSUME NEW w \in Workers, Repost(w) PROVE LocksInv'
  <2>1. rwmutex' = NoThread /\ thcount_lock' = thcount_lock
    BY <1>2 DEF Repost
  <2>2. \A t \in Threads \ {w} : pc[t] \notin {"push", "repost"}
    BY <1>2, RepostEffect
  <2>3. QED
    BY <1>2, <2>1, <2>2, RepostEffect
<1>3. ASSUME NEW t \in Threads, AddWork(t) PROVE LocksInv'
  BY <1>3 DEF AddWork, CanAdd
<1>4. ASSUME NEW t \in Threads, PushPost(t) PROVE LocksInv'
  BY <1>4, PushPostEffect DEF PushPost
<1>5. CASE
         \/ InitReturns \/ WaitCall \/ WaitLock \/ WaitReadLen
         \/ WaitReadWorking \/ DestroyCall \/ ClearJob \/ DestroyFree
         \/ SpuriousWakeup \/ UNCHANGED vars
  BY <1>5, SMTT(30) DEF vars, InitReturns, WaitCall, WaitLock, WaitReadLen,
     WaitReadWorking, DestroyCall, ClearJob, DestroyFree, SpuriousWakeup
<1>6. CASE DestroyPoll
  BY <1>6, PollEffect DEF DestroyPoll
<1>7. QED
  BY NextCases, <1>1, <1>2, <1>3, <1>4, <1>5, <1>6

(* The life of the pool: all workers start before thpool_init returns, and *)
(* all have left before the queue is cleared.  Both ends read the counter  *)
(* alive.                                                                  *)
LEMMA PhaseStep ==
  ASSUME TypeOK, CountersInv, PhaseInv, [Next]_vars
  PROVE  PhaseInv'
<1> USE DEF TypeOK, PhaseInv, Goto
<1>1. ASSUME NEW w \in Workers,
             \/ ThreadStart(w) \/ LoopTest(w) \/ BsemWait(w) \/ TokenTest(w)
             \/ CountUp(w) \/ Pull(w) \/ JobReturns(w)
      PROVE  PhaseInv'
  BY <1>1, SMTT(30) DEF ThreadStart, LoopTest, BsemWait, TokenTest, CountUp,
     Pull, JobReturns
<1>2. ASSUME NEW w \in Workers, Repost(w) PROVE PhaseInv'
  BY <1>2, RepostEffect DEF Repost
<1>3. ASSUME NEW w \in Workers, CountDown(w) PROVE PhaseInv'
  BY <1>3 DEF CountDown
<1>4. ASSUME NEW w \in Workers, Leave(w) PROVE PhaseInv'
  BY <1>4 DEF Leave
<1>5. ASSUME NEW w \in Workers, Unlock(w) PROVE PhaseInv'
  BY <1>5 DEF Unlock
<1>6. ASSUME NEW t \in Threads, AddWork(t) PROVE PhaseInv'
  BY <1>6 DEF AddWork, CanAdd
<1>7. ASSUME NEW t \in Threads, PushPost(t) PROVE PhaseInv'
  BY <1>7, PushPostEffect DEF PushPost
<1>8. CASE
         \/ WaitCall \/ WaitLock \/ WaitReadLen \/ WaitReadWorking
         \/ DestroyCall \/ UNCHANGED vars
  BY <1>8, SMTT(30) DEF vars, WaitCall, WaitLock, WaitReadLen, WaitReadWorking,
     DestroyCall
<1>9. CASE InitReturns
  <2>1. /\ AliveSet \subseteq Workers
        /\ Cardinality(AliveSet) = Cardinality(Workers)
    BY <1>9 DEF InitReturns, CountersInv, AliveSet
  <2>2. AliveSet = Workers
    BY <2>1, FS_Subset
  <2>3. \A w \in Workers : pc[w] # "spawn"
    BY <2>2 DEF AliveSet
  <2>4. QED
    BY <1>9, <2>3 DEF InitReturns, MainLabels
<1>10. CASE DestroyPoll
  <2>1. alive = 0 => AliveSet = {}
    BY FS_Subset, FS_EmptySet DEF CountersInv, AliveSet
  <2>2. alive = 0 => \A w \in Workers : pc[w] \in {"unlock", "exit"}
    BY <1>10, <2>1 DEF AliveSet, DestroyPoll
  <2>3. QED
    BY <1>10, <2>2, PollEffect DEF DestroyPoll
<1>11. CASE ClearJob
  BY <1>11 DEF ClearJob
<1>12. CASE DestroyFree
  BY <1>12 DEF DestroyFree
<1>13. CASE SpuriousWakeup
  BY <1>13 DEF SpuriousWakeup
<1>14. QED
  BY NextCases, <1>1, <1>2, <1>3, <1>4, <1>5, <1>6, <1>7, <1>8, <1>9, <1>10,
      <1>11, <1>12, <1>13

(* Jobs are linked at the rear in the order of their numbers and unlinked  *)
(* at the front, so the queue is always the last jobs added, in order.     *)
LEMMA QueueStep ==
  ASSUME TypeOK, QueueInv, HandsInv, [Next]_vars
  PROVE  QueueInv'
<1> USE DEF TypeOK, QueueInv, Held, Taken, Goto
<1>1. ASSUME NEW w \in Workers,
             \/ ThreadStart(w) \/ LoopTest(w) \/ BsemWait(w) \/ TokenTest(w)
             \/ CountUp(w) \/ CountDown(w) \/ Leave(w) \/ Unlock(w)
      PROVE  QueueInv'
  BY <1>1, SMTT(30) DEF ThreadStart, LoopTest, BsemWait, TokenTest, CountUp,
     CountDown, Leave, Unlock
<1>2. ASSUME NEW w \in Workers, Pull(w) PROVE QueueInv'
  <2>1. CASE jobqueue = <<>>
    BY <1>2, <2>1 DEF Pull
  <2>2. CASE jobqueue # <<>>
    <3>1. /\ jobqueue' = Tail(jobqueue) /\ added' = added
          /\ job' = [job EXCEPT ![w] = Head(jobqueue)]
          /\ done' = done /\ dropped' = dropped
      BY <1>2, <2>2 DEF Pull
    <3>2. /\ Len(jobqueue) \in Nat \ {0} /\ Len(jobqueue') = Len(jobqueue) - 1
          /\ Head(jobqueue) = added - Len(jobqueue) + 1
          /\ \A i \in 1..Len(jobqueue') : jobqueue'[i] = jobqueue[i + 1]
      BY <2>2, <3>1
    <3>3. job[w] = NoJob
      BY <1>2 DEF Pull, HandsInv
    <3>4. Held' = Held \cup {Head(jobqueue)}
      BY <3>1, <3>2, <3>3
    <3>5. Taken' = Taken \cup {Head(jobqueue)}
      BY <3>1, <3>2
    <3> HIDE DEF Held, Taken
    <3>6. QED
      BY <3>1, <3>2, <3>4, <3>5
  <2>3. QED
    BY <2>1, <2>2
<1>3. ASSUME NEW w \in Workers, Repost(w) PROVE QueueInv'
  BY <1>3, RepostEffect DEF Repost
<1>4. ASSUME NEW w \in Workers, JobReturns(w) PROVE QueueInv'
  <2>1. job[w] # NoJob /\ \A u \in Workers : job[u] = job[w] => u = w
    BY <1>4 DEF JobReturns, HandsInv
  <2>2. Held' \cup done' = Held \cup done
    BY <1>4, <2>1 DEF JobReturns
  <2>3. QED
    BY <1>4, <2>2 DEF JobReturns
<1>5. ASSUME NEW t \in Threads, AddWork(t) PROVE QueueInv'
  <2>1. /\ jobqueue' = Append(jobqueue, added + 1) /\ added' = added + 1
        /\ added + 1 \in Jobs
        /\ UNCHANGED <<job, done, dropped>>
    BY <1>5 DEF AddWork
  <2>2. /\ Len(jobqueue) \in Nat /\ Len(jobqueue') = Len(jobqueue) + 1
        /\ DOMAIN jobqueue = 1..Len(jobqueue)
        /\ DOMAIN jobqueue' = 1..(Len(jobqueue) + 1)
        /\ \A i \in 1..Len(jobqueue) : jobqueue'[i] = jobqueue[i]
        /\ jobqueue'[Len(jobqueue) + 1] = added + 1
    <3> HIDE DEF Jobs, QueueInv
    <3>1. jobqueue \in Seq(Jobs)
      OBVIOUS
    <3>2. QED
      BY <2>1, <3>1, AppendProperties, LenProperties
  <2>3. Held' = Held /\ Taken' = Taken
    BY <2>1, <2>2
  <2> HIDE DEF Held, Taken
  <2>4. QED
    BY <2>1, <2>2, <2>3
<1>6. ASSUME NEW t \in Threads, PushPost(t) PROVE QueueInv'
  BY <1>6, PushPostEffect DEF PushPost
<1>7. CASE
         \/ InitReturns \/ WaitCall \/ WaitLock \/ WaitReadLen
         \/ WaitReadWorking \/ DestroyCall \/ DestroyFree \/ SpuriousWakeup
         \/ UNCHANGED vars
  BY <1>7, SMTT(30) DEF vars, InitReturns, WaitCall, WaitLock, WaitReadLen,
     WaitReadWorking, DestroyCall, DestroyFree, SpuriousWakeup
<1>8. CASE DestroyPoll
  BY <1>8 DEF DestroyPoll
<1>9. CASE ClearJob
  <2>1. /\ jobqueue' = Tail(jobqueue) /\ added' = added /\ job' = job
        /\ done' = done /\ dropped' = dropped \cup {Head(jobqueue)}
        /\ jobqueue # <<>>
    BY <1>9 DEF ClearJob
  <2>2. /\ Len(jobqueue) \in Nat \ {0} /\ Len(jobqueue') = Len(jobqueue) - 1
        /\ Head(jobqueue) = added - Len(jobqueue) + 1
        /\ \A i \in 1..Len(jobqueue') : jobqueue'[i] = jobqueue[i + 1]
    BY <2>1
  <2>3. /\ DOMAIN jobqueue' = 1..Len(jobqueue')
        /\ DOMAIN jobqueue = 1..Len(jobqueue)
    BY <2>1
  <2>4. Held' = Held /\ Taken' = Taken \cup {Head(jobqueue)}
    BY <2>1, <2>2
  <2> HIDE DEF Held, Taken
  <2>5. Held' \cup done' \cup dropped' = Taken'
    BY <2>1, <2>4
  <2>6. \A i \in DOMAIN jobqueue' : jobqueue'[i] = added' - Len(jobqueue') + i
    <3>1. TAKE i \in DOMAIN jobqueue'
    <3>2. i \in 1..Len(jobqueue') /\ i + 1 \in DOMAIN jobqueue /\ i \in Nat
      BY <2>2, <2>3
    <3>3. jobqueue[i + 1] = added - Len(jobqueue) + (i + 1)
      BY <3>2
    <3> HIDE DEF QueueInv
    <3>4. QED
      BY <2>1, <2>2, <3>2, <3>3
  <2>7. Len(jobqueue') <= added'
    BY <2>1, <2>2
  <2>8. QED
    BY <2>5, <2>6, <2>7
<1>10. QED
  BY NextCases, <1>1, <1>2, <1>3, <1>4, <1>5, <1>6, <1>7, <1>8, <1>9

(* A job that was taken is in the hands of one worker until it returns,    *)
(* and is never taken again.                                               *)
LEMMA HandsStep ==
  ASSUME TypeOK, PhaseInv, QueueInv, HandsInv, [Next]_vars
  PROVE  HandsInv'
<1> USE DEF TypeOK, HandsInv, Goto
<1>1. ASSUME NEW w \in Workers,
             \/ ThreadStart(w) \/ LoopTest(w) \/ BsemWait(w) \/ TokenTest(w)
             \/ CountUp(w) \/ Leave(w) \/ Unlock(w)
      PROVE  HandsInv'
  BY <1>1 DEF ThreadStart, LoopTest, BsemWait, TokenTest, CountUp,
     Leave, Unlock
<1>2. ASSUME NEW w \in Workers, Pull(w) PROVE HandsInv'
  <2>1. CASE jobqueue = <<>>
    BY <1>2, <2>1 DEF Pull
  <2>2. CASE jobqueue # <<>>
    <3>1. Head(jobqueue) = added - Len(jobqueue) + 1
      BY <2>2 DEF QueueInv
    <3>2. Head(jobqueue) \notin Held \cup done \cup dropped
      BY <2>2, <3>1 DEF QueueInv, Taken
    <3>3. Head(jobqueue) # NoJob /\ \A u \in Workers : job[u] # Head(jobqueue)
      BY <2>2, <3>1, <3>2 DEF QueueInv, Held
    <3>4. /\ job' = [job EXCEPT ![w] = Head(jobqueue)]
          /\ pc' = [pc EXCEPT ![w] = "repost"]
      BY <1>2, <2>2 DEF Pull
    <3>5. done' = done /\ dropped' = dropped
      BY <1>2 DEF Pull
    <3>6. QED
      BY <3>2, <3>3, <3>4, <3>5
  <2>3. QED
    BY <2>1, <2>2
<1>3. ASSUME NEW w \in Workers, Repost(w) PROVE HandsInv'
  BY <1>3, RepostEffect DEF Repost
<1>4. ASSUME NEW w \in Workers, JobReturns(w) PROVE HandsInv'
  <2>1. /\ job[w] \in Jobs /\ \A u \in Workers : job[u] = job[w] => u = w
        /\ job[w] \notin done \cup dropped
    BY <1>4 DEF JobReturns
  <2>2. /\ pc' = [pc EXCEPT ![w] = "uncount"]
        /\ job' = [job EXCEPT ![w] = NoJob]
        /\ done' = done \cup {job[w]} /\ dropped' = dropped
    BY <1>4 DEF JobReturns
  <2>3. done' \cap dropped' = {}
    BY <2>1, <2>2
  <2>4. \A u \in Workers : job'[u] \notin done' \cup dropped'
    BY <2>1, <2>2
  <2>5. QED
    BY <1>4, <2>2, <2>3, <2>4 DEF JobReturns
<1>5. ASSUME NEW w \in Workers, CountDown(w) PROVE HandsInv'
  BY <1>5 DEF CountDown
<1>6. ASSUME NEW t \in Threads, AddWork(t) PROVE HandsInv'
  BY <1>6 DEF AddWork, CanAdd
<1>7. ASSUME NEW t \in Threads, PushPost(t) PROVE HandsInv'
  <2>1. UNCHANGED <<job, done, dropped>>
    BY <1>7 DEF PushPost
  <2>2. t # Main => job[t] # NoJob
    BY <1>7, PushPostEffect
  <2>3. ASSUME NEW u \in Workers
        PROVE  /\ job[u] # NoJob => pc'[u] \in {"repost", "run", "push"}
               /\ pc'[u] \in {"run", "push"} => job[u] # NoJob
    <3>1. CASE u = t
      BY <1>7, <2>2, <3>1, PushPostEffect
    <3>2. CASE u # t
      BY <1>7, <3>2, PushPostEffect
    <3>3. QED
      BY <3>1, <3>2
  <2>4. QED
    BY <2>1, <2>3
<1>8. CASE
         \/ InitReturns \/ WaitCall \/ WaitLock \/ WaitReadLen
         \/ WaitReadWorking \/ DestroyCall \/ DestroyFree \/ SpuriousWakeup
         \/ UNCHANGED vars
  BY <1>8 DEF vars, InitReturns, WaitCall, WaitLock, WaitReadLen,
     WaitReadWorking, DestroyCall, DestroyFree, SpuriousWakeup
<1>9. CASE DestroyPoll
  BY <1>9, PollEffect DEF DestroyPoll
<1>10. CASE ClearJob
  <2>1. Head(jobqueue) = added - Len(jobqueue) + 1
    BY <1>10 DEF ClearJob, QueueInv
  <2>2. Head(jobqueue) \notin Held /\ Head(jobqueue) \notin done
    BY <1>10, <2>1 DEF ClearJob, QueueInv, Taken
  <2>3. \A u \in Workers : job[u] # Head(jobqueue)
    BY <1>10, <2>1, <2>2 DEF ClearJob, QueueInv, Held
  <2>4. UNCHANGED <<pc, job, done>> /\ dropped' = dropped \cup {Head(jobqueue)}
    BY <1>10 DEF ClearJob
  <2>5. (done \cap dropped)' = {}
    BY <2>2, <2>4
  <2>6. \A u \in Workers : job[u] \notin done' \cup dropped'
    BY <2>3, <2>4
  <2>7. QED
    BY <2>4, <2>5, <2>6
<1>11. QED
  BY NextCases, <1>1, <1>2, <1>3, <1>4, <1>5, <1>6, <1>7, <1>8, <1>9, <1>10

(* A queued job keeps a wakeup on its way: whoever takes the semaphore     *)
(* goes on to the queue, and posts again if it leaves a job behind.        *)
LEMMA StrandedStep ==
  ASSUME TypeOK, PhaseInv, NoStrandedJob, [Next]_vars
  PROVE  NoStrandedJob'
<1> USE DEF TypeOK, PhaseInv, NoStrandedJob, Goto
<1>1. ASSUME NEW w \in Workers,
             \/ ThreadStart(w) \/ LoopTest(w) \/ BsemWait(w) \/ TokenTest(w)
             \/ CountUp(w) \/ Pull(w) \/ JobReturns(w) \/ CountDown(w)
             \/ Leave(w) \/ Unlock(w)
      PROVE  NoStrandedJob'
  BY <1>1 DEF ThreadStart, LoopTest, BsemWait, TokenTest, CountUp,
     Pull, JobReturns, CountDown, Leave, Unlock
<1>2. ASSUME NEW w \in Workers, Repost(w) PROVE NoStrandedJob'
  BY <1>2, RepostEffect DEF Repost
<1>3. ASSUME NEW t \in Threads, AddWork(t) PROVE NoStrandedJob'
  BY <1>3 DEF AddWork, CanAdd
<1>4. ASSUME NEW t \in Threads, PushPost(t) PROVE NoStrandedJob'
  BY <1>4, PushPostEffect DEF PushPost
<1>5. CASE
         \/ InitReturns \/ WaitCall \/ WaitLock \/ WaitReadLen
         \/ WaitReadWorking \/ DestroyCall \/ ClearJob \/ DestroyFree
         \/ SpuriousWakeup \/ UNCHANGED vars
  BY <1>5 DEF vars, InitReturns, WaitCall, WaitLock, WaitReadLen,
     WaitReadWorking, DestroyCall, ClearJob, DestroyFree, SpuriousWakeup
<1>6. CASE DestroyPoll
  BY <1>6, PollEffect DEF DestroyPoll
<1>7. QED
  BY NextCases, <1>1, <1>2, <1>3, <1>4, <1>5, <1>6

(* The semaphore is raised together with a signal, and a woken worker that *)
(* does not find it raised goes back to sleep.                             *)
LEMMA WakeupStep ==
  ASSUME TypeOK, PhaseInv, NoLostWakeup, [Next]_vars
  PROVE  NoLostWakeup'
<1> USE DEF TypeOK, PhaseInv, NoLostWakeup, Asleep, Goto
<1>1. ASSUME NEW w \in Workers,
             \/ ThreadStart(w) \/ LoopTest(w) \/ BsemWait(w) \/ TokenTest(w)
             \/ CountUp(w) \/ Pull(w) \/ JobReturns(w) \/ CountDown(w)
             \/ Leave(w) \/ Unlock(w)
      PROVE  NoLostWakeup'
  BY <1>1, SMTT(30) DEF ThreadStart, LoopTest, BsemWait, TokenTest, CountUp,
     Pull, JobReturns, CountDown, Leave, Unlock
<1>2. ASSUME NEW w \in Workers, Repost(w) PROVE NoLostWakeup'
  BY <1>2, RepostEffect DEF Repost
<1>3. ASSUME NEW t \in Threads, AddWork(t) PROVE NoLostWakeup'
  BY <1>3 DEF AddWork, CanAdd
<1>4. ASSUME NEW t \in Threads, PushPost(t) PROVE NoLostWakeup'
  BY <1>4, PushPostEffect DEF PushPost
<1>5. CASE
         \/ InitReturns \/ WaitCall \/ WaitLock \/ WaitReadLen
         \/ WaitReadWorking \/ DestroyCall \/ ClearJob \/ DestroyFree
         \/ SpuriousWakeup \/ UNCHANGED vars
  BY <1>5, SMTT(30) DEF vars, InitReturns, WaitCall, WaitLock, WaitReadLen,
     WaitReadWorking, DestroyCall, ClearJob, DestroyFree, SpuriousWakeup
<1>6. CASE DestroyPoll
  BY <1>6, PollEffect
<1>7. QED
  BY NextCases, <1>1, <1>2, <1>3, <1>4, <1>5, <1>6

(* Between its two reads thpool_wait holds thcount_lock, so no worker can  *)
(* stop being counted; only a counted worker can add a job.                *)
LEMMA WaitStep ==
  ASSUME TypeOK, LocksInv, WaitInv, [Next]_vars
  PROVE  WaitInv'
<1> USE DEF TypeOK, LocksInv, WaitInv, CountedSet, Counted, Goto
<1>1. ASSUME NEW w \in Workers,
             \/ ThreadStart(w) \/ LoopTest(w) \/ BsemWait(w) \/ TokenTest(w)
             \/ CountUp(w) \/ Pull(w) \/ JobReturns(w) \/ CountDown(w)
             \/ Leave(w) \/ Unlock(w)
      PROVE  WaitInv'
  BY <1>1, SMTT(30) DEF ThreadStart, LoopTest, BsemWait, TokenTest, CountUp,
     Pull, JobReturns, CountDown, Leave, Unlock
<1>2. ASSUME NEW w \in Workers, Repost(w) PROVE WaitInv'
  BY <1>2, RepostEffect DEF Repost
<1>3. ASSUME NEW t \in Threads, AddWork(t) PROVE WaitInv'
  BY <1>3 DEF AddWork, CanAdd
<1>4. ASSUME NEW t \in Threads, PushPost(t) PROVE WaitInv'
  BY <1>4, PushPostEffect DEF PushPost
<1>5. CASE
         \/ InitReturns \/ WaitCall \/ WaitLock \/ WaitReadLen
         \/ WaitReadWorking \/ DestroyCall \/ ClearJob \/ DestroyFree
         \/ SpuriousWakeup \/ UNCHANGED vars
  BY <1>5, SMTT(30) DEF vars, InitReturns, WaitCall, WaitLock, WaitReadLen,
     WaitReadWorking, DestroyCall, ClearJob, DestroyFree, SpuriousWakeup
<1>6. CASE DestroyPoll
  BY <1>6, PollEffect DEF DestroyPoll
<1>7. QED
  BY NextCases, <1>1, <1>2, <1>3, <1>4, <1>5, <1>6

-----------------------------------------------------------------------------
(* The counters are the numbers of workers in two stretches of the code.   *)
LEMMA CountersStep ==
  ASSUME TypeOK, CountersInv, [Next]_vars
  PROVE  CountersInv'
<1> USE DEF Goto
<1>0. /\ IsFiniteSet(AliveSet) /\ Cardinality(AliveSet) \in Nat
      /\ IsFiniteSet(CountedSet) /\ Cardinality(CountedSet) \in Nat
  BY FS_Subset, FS_CardinalityType DEF AliveSet, CountedSet
<1>1. ASSUME NEW w \in Workers, ThreadStart(w) PROVE CountersInv'
  <2>1. /\ AliveSet' = AliveSet \cup {w} /\ w \notin AliveSet
        /\ CountedSet' = CountedSet
    BY <1>1 DEF ThreadStart, AliveSet, CountedSet, Counted, TypeOK
  <2>2. alive' = alive + 1 /\ working' = working
    BY <1>1 DEF ThreadStart
  <2>3. QED
    BY <1>0, <2>1, <2>2, FS_AddElement DEF CountersInv
<1>2. ASSUME NEW w \in Workers, CountUp(w) PROVE CountersInv'
  <2>1. /\ CountedSet' = CountedSet \cup {w} /\ w \notin CountedSet
        /\ AliveSet' = AliveSet
    BY <1>2 DEF CountUp, AliveSet, CountedSet, Counted, TypeOK
  <2>2. working' = working + 1 /\ alive' = alive
    BY <1>2 DEF CountUp
  <2>3. QED
    BY <1>0, <2>1, <2>2, FS_AddElement DEF CountersInv
<1>3. ASSUME NEW w \in Workers, CountDown(w) PROVE CountersInv'
  <2>1. /\ CountedSet' = CountedSet \ {w} /\ w \in CountedSet
        /\ AliveSet' = AliveSet
    BY <1>3 DEF CountDown, AliveSet, CountedSet, Counted, TypeOK
  <2>2. working' = working - 1 /\ alive' = alive
    BY <1>3 DEF CountDown
  <2>3. QED
    BY <1>0, <2>1, <2>2, FS_RemoveElement DEF CountersInv
<1>4. ASSUME NEW w \in Workers, Leave(w) PROVE CountersInv'
  <2>1. /\ AliveSet' = AliveSet \ {w} /\ w \in AliveSet
        /\ CountedSet' = CountedSet
    BY <1>4 DEF Leave, AliveSet, CountedSet, Counted, TypeOK
  <2>2. alive' = alive - 1 /\ working' = working
    BY <1>4 DEF Leave
  <2>3. QED
    BY <1>0, <2>1, <2>2, FS_RemoveElement DEF CountersInv
<1> DEFINE SameSets == AliveSet' = AliveSet /\ CountedSet' = CountedSet
           SameCounters == UNCHANGED <<alive, working>>
<1>5. SameSets /\ SameCounters => CountersInv'
  BY DEF CountersInv
<1>6. ASSUME NEW w \in Workers,
             LoopTest(w) \/ BsemWait(w) \/ TokenTest(w) \/ Pull(w)
             \/ JobReturns(w) \/ Unlock(w)
      PROVE  SameSets /\ SameCounters
  BY <1>6 DEF LoopTest, BsemWait, TokenTest, Pull, JobReturns, Unlock,
              AliveSet, CountedSet, Counted, TypeOK
<1>7. ASSUME NEW w \in Workers, Repost(w) PROVE SameSets /\ SameCounters
  BY <1>7, RepostEffect DEF Repost, AliveSet, CountedSet, Counted
<1>8. ASSUME NEW t \in Threads, AddWork(t) PROVE SameSets /\ SameCounters
  BY <1>8 DEF AddWork, CanAdd, AliveSet, CountedSet, Counted, TypeOK
<1>9. ASSUME NEW t \in Threads, PushPost(t) PROVE SameSets /\ SameCounters
  BY <1>9, PushPostEffect DEF PushPost, AliveSet, CountedSet, Counted
<1>10. ASSUME DestroyPoll PROVE SameSets /\ SameCounters
  BY <1>10, PollEffect DEF DestroyPoll, AliveSet, CountedSet, Counted
<1>11. ASSUME \/ InitReturns \/ WaitCall \/ WaitLock \/ WaitReadLen
              \/ WaitReadWorking \/ DestroyCall \/ ClearJob \/ DestroyFree
              \/ SpuriousWakeup \/ UNCHANGED vars
       PROVE  SameSets /\ SameCounters
  BY <1>11 DEF vars, InitReturns, WaitCall, WaitLock, WaitReadLen,
               WaitReadWorking, DestroyCall, ClearJob, DestroyFree,
               SpuriousWakeup, AliveSet, CountedSet, Counted, TypeOK
<1> HIDE DEF SameSets, SameCounters
<1>12. QED
  BY NextCases, <1>1, <1>2, <1>3, <1>4, <1>5, <1>6, <1>7, <1>8, <1>9, <1>10,
     <1>11

(* Types.  That the two counters stay natural numbers needs CountersInv.   *)
LEMMA TypeStep ==
  ASSUME TypeOK, CountersInv, HandsInv, [Next]_vars
  PROVE  TypeOK'
<1> USE DEF TypeOK, Goto, MainLabels, WorkerLabels
<1>1. alive' \in Nat /\ working' \in Nat
  <2>1. CountersInv'
    BY CountersStep
  <2>2. IsFiniteSet(AliveSet') /\ IsFiniteSet(CountedSet')
    BY FS_Subset DEF AliveSet, CountedSet
  <2>3. QED
    BY <2>1, <2>2, FS_CardinalityType DEF CountersInv
<1> DEFINE PcOK ==
             /\ pc \in [Threads -> MainLabels \cup WorkerLabels]
             /\ pc[Main] \in MainLabels
             /\ \A w \in Workers : pc[w] \in WorkerLabels
           FlagsOK ==
             /\ keepalive \in BOOLEAN
             /\ thcount_lock \in Threads \cup {NoThread}
             /\ rwmutex \in Threads \cup {NoThread}
             /\ v \in {0, 1}
             /\ freed \in BOOLEAN
             /\ spurious \in 0..MaxSpurious
           JobsOK ==
             /\ jobqueue \in Seq(Jobs)
             /\ job \in [Workers -> Jobs \cup {NoJob}]
             /\ added \in 0..MaxJobs
             /\ done \in SUBSET Jobs
             /\ dropped \in SUBSET Jobs
           Rest == PcOK /\ FlagsOK /\ JobsOK
<1>2. ASSUME NEW w \in Workers,
             ThreadStart(w) \/ LoopTest(w) \/ BsemWait(w) \/ TokenTest(w)
             \/ CountUp(w) \/ CountDown(w) \/ Leave(w) \/ Unlock(w)
      PROVE  Rest'
  <2> USE <1>2 DEF ThreadStart, LoopTest, BsemWait, TokenTest, CountUp,
                   CountDown, Leave, Unlock
  <2>1. ASSUME CountDown(w) PROVE PcOK'
    BY <2>1
  <2>2. ASSUME ~CountDown(w) PROVE PcOK'
    BY <2>2, SMTT(30)
  <2>3. FlagsOK'
    OBVIOUS
  <2>4. JobsOK'
    OBVIOUS
  <2>5. QED
    BY <2>1, <2>2, <2>3, <2>4
<1>3. ASSUME NEW w \in Workers, Pull(w) PROVE Rest'
  <2>1. jobqueue # <<>> => /\ Head(jobqueue) \in Jobs
                           /\ Tail(jobqueue) \in Seq(Jobs)
    BY HeadTailProperties
  <2>2. QED
    BY <1>3, <2>1 DEF Pull
<1>4. ASSUME NEW w \in Workers, Repost(w) PROVE Rest'
  BY <1>4, RepostEffect DEF Repost
<1>5. ASSUME NEW w \in Workers, JobReturns(w) PROVE Rest'
  <2>1. job[w] \in Jobs
    BY <1>5 DEF JobReturns, HandsInv
  <2>2. QED
    BY <1>5, <2>1 DEF JobReturns
<1>6. ASSUME NEW t \in Threads, AddWork(t) PROVE Rest'
  BY <1>6 DEF AddWork, CanAdd
<1>7. ASSUME NEW t \in Threads, PushPost(t) PROVE Rest'
  BY <1>7, PushPostEffect DEF PushPost
<1>8. ASSUME DestroyPoll PROVE Rest'
  BY <1>8, PollEffect DEF DestroyPoll
<1>9. ASSUME ClearJob PROVE Rest'
  <2>1. Head(jobqueue) \in Jobs /\ Tail(jobqueue) \in Seq(Jobs)
    BY <1>9, HeadTailProperties DEF ClearJob
  <2>2. PcOK' /\ FlagsOK'
    BY <1>9 DEF ClearJob
  <2>3. JobsOK'
    BY <1>9, <2>1 DEF ClearJob
  <2>4. QED
    BY <2>2, <2>3
<1>10. ASSUME \/ InitReturns \/ WaitCall \/ WaitLock \/ WaitReadLen
              \/ WaitReadWorking \/ DestroyCall \/ DestroyFree
              \/ SpuriousWakeup \/ UNCHANGED vars
       PROVE  Rest'
  <2> USE <1>10 DEF vars, InitReturns, WaitCall, WaitLock, WaitReadLen,
                    WaitReadWorking, DestroyCall, DestroyFree, SpuriousWakeup
  <2>1. PcOK'
    OBVIOUS
  <2>2. ASSUME \/ InitReturns \/ WaitCall \/ WaitLock \/ WaitReadLen
               \/ WaitReadWorking
        PROVE  FlagsOK'
    BY <2>2
  <2>3. ASSUME DestroyCall \/ DestroyFree \/ UNCHANGED vars PROVE FlagsOK'
    BY <2>3
  <2>4. ASSUME SpuriousWakeup PROVE FlagsOK'
    <3>1. /\ spurious < MaxSpurious /\ spurious' = spurious + 1
          /\ UNCHANGED <<keepalive, thcount_lock, rwmutex, v, freed>>
      BY <2>4
    <3>2. QED
      BY <3>1
  <2>5. JobsOK'
    OBVIOUS
  <2>6. QED
    BY <2>1, <2>2, <2>3, <2>4, <2>5
<1>11. Rest'
  <2> HIDE DEF Rest
  <2>1. QED
    BY NextCases, <1>2, <1>3, <1>4, <1>5, <1>6, <1>7, <1>8, <1>9, <1>10
<1>12. QED
  BY <1>1, <1>11

-----------------------------------------------------------------------------
(* IInv is an inductive invariant.                                         *)
LEMMA InitInv == Init => IInv
<1>1. ASSUME Init PROVE IInv
  <2>1. TypeOK
    <3>1. jobqueue \in Seq(Jobs)
      BY <1>1 DEF Init
    <3>2. pc[Main] \in MainLabels /\ \A w \in Workers : pc[w] \in WorkerLabels
      BY <1>1 DEF Init, MainLabels, WorkerLabels
    <3>3. pc \in [Threads -> MainLabels \cup WorkerLabels]
      BY <1>1 DEF Init, WorkerLabels
    <3>4. /\ job \in [Workers -> Jobs \cup {NoJob}]
          /\ added \in 0..MaxJobs /\ spurious \in 0..MaxSpurious
          /\ alive \in Nat /\ working \in Nat
      BY <1>1 DEF Init
    <3>5. QED
      BY <1>1, <3>1, <3>2, <3>3, <3>4 DEF Init, TypeOK
  <2>2. CountersInv
    <3>1. AliveSet = {} /\ CountedSet = {}
      BY <1>1 DEF Init, AliveSet, CountedSet, Counted
    <3>2. QED
      BY <1>1, <3>1, FS_EmptySet DEF Init, CountersInv
  <2>3. QueueInv
    BY <1>1 DEF Init, QueueInv, Held, Taken
  <2>4. LocksInv /\ PhaseInv /\ HandsInv /\ WaitInv
    BY <1>1 DEF Init, LocksInv, PhaseInv, HandsInv, WaitInv
  <2>5. NoStrandedJob /\ NoLostWakeup
    BY <1>1 DEF Init, NoStrandedJob, NoLostWakeup
  <2>6. QED
    BY <2>1, <2>2, <2>3, <2>4, <2>5 DEF IInv
<1>2. QED
  BY <1>1

LEMMA NextInv == IInv /\ [Next]_vars => IInv'
BY TypeStep, CountersStep, LocksStep, PhaseStep, QueueStep, HandsStep,
   StrandedStep, WakeupStep, WaitStep DEF IInv

THEOREM Invariance == Spec => []IInv
BY InitInv, NextInv, PTL DEF Spec

(* The types are right; num_threads_alive and num_threads_working never    *)
(* go below zero.                                                          *)
THEOREM TypeCorrect == Spec => []TypeOK
BY Invariance, PTL DEF IInv

(* The binary semaphore never leaves a queued job without a wakeup.        *)
THEOREM NeverStranded == Spec => []NoStrandedJob
BY Invariance, PTL DEF IInv

(* No worker sleeps through a raised semaphore unless another is about to  *)
(* take it.                                                                *)
THEOREM NeverLost == Spec => []NoLostWakeup
BY Invariance, PTL DEF IInv

(* No job is lost, duplicated or run twice.                                *)
THEOREM Conservation == Spec => []JobsConserved
<1>1. ASSUME IInv PROVE JobsConserved
  <2> USE <1>1 DEF IInv, TypeOK
  <2>1. /\ Len(jobqueue) \in Nat /\ DOMAIN jobqueue = 1..Len(jobqueue)
        /\ added \in Nat /\ Len(jobqueue) <= added
    BY DEF QueueInv
  <2>2. \A i \in DOMAIN jobqueue : jobqueue[i] = added - Len(jobqueue) + i
    BY DEF QueueInv
  <2>3. Queued = (added - Len(jobqueue) + 1)..added
    <3>1. Queued \subseteq (added - Len(jobqueue) + 1)..added
      BY <2>1, <2>2 DEF Queued
    <3>2. ASSUME NEW j \in (added - Len(jobqueue) + 1)..added
          PROVE  j \in Queued
      <4> DEFINE k == j - (added - Len(jobqueue))
      <4>1. k \in DOMAIN jobqueue /\ j = added - Len(jobqueue) + k
        BY <2>1
      <4> HIDE DEF k
      <4>2. jobqueue[k] = j
        BY <2>2, <4>1
      <4>3. QED
        BY <4>1, <4>2 DEF Queued
    <3>3. QED
      BY <3>1, <3>2
  <2>4. Queued \cup Taken = 1..added /\ Queued \cap Taken = {}
    BY <2>1, <2>3 DEF Taken
  <2>5. Held \cup done \cup dropped = Taken
    BY DEF QueueInv
  <2>6. Held \cap (done \cup dropped) = {} /\ done \cap dropped = {}
    BY DEF HandsInv, Held
  <2>7. \A i, k \in DOMAIN jobqueue : jobqueue[i] = jobqueue[k] => i = k
    BY <2>1, <2>2
  <2>8. \A w, u \in Workers : job[w] = job[u] /\ job[w] # NoJob => w = u
    BY DEF HandsInv
  <2>9. QED
    BY <2>4, <2>5, <2>6, <2>7, <2>8 DEF JobsConserved
<1>2. QED
  BY <1>1, Invariance, PTL

(* The pool is freed only when no worker can touch the queue or run a job. *)
THEOREM FreedLast == Spec => []NoJobAfterFree
<1>1. IInv => NoJobAfterFree
  BY DEF IInv, PhaseInv, NoJobAfterFree
<1>2. QED
  BY <1>1, Invariance, PTL

(* thpool_wait is a barrier: it returns only when every job is done.       *)
THEOREM Barrier == Spec => WaitIsBarrier
<1> DEFINE Returns == pc[Main] = "working" /\ pc'[Main] = "app"
<1>1. ASSUME IInv, [Next]_vars, Returns PROVE done = 1..added
  <2> USE <1>1 DEF IInv, TypeOK
  <2>1. WaitReadWorking /\ working = 0
    <3>1. pc[Main] # pc'[Main]
      OBVIOUS
    <3>2. ASSUME NEW w \in Workers,
                 ThreadStart(w) \/ LoopTest(w) \/ BsemWait(w) \/ TokenTest(w)
                 \/ CountUp(w) \/ Pull(w) \/ JobReturns(w) \/ CountDown(w)
                 \/ Leave(w) \/ Unlock(w)
          PROVE  FALSE
      BY <3>2 DEF ThreadStart, LoopTest, BsemWait, TokenTest, CountUp, Pull,
                  JobReturns, CountDown, Leave, Unlock, Goto
    <3>3. ASSUME NEW w \in Workers, Repost(w) PROVE FALSE
      BY <3>3, RepostEffect
    <3>4. ASSUME NEW t \in Threads, AddWork(t) \/ PushPost(t) PROVE FALSE
      BY <3>4, PushPostEffect DEF AddWork, CanAdd
    <3>5. ASSUME \/ InitReturns \/ WaitCall \/ WaitLock \/ WaitReadLen
                 \/ DestroyCall \/ DestroyPoll \/ ClearJob \/ DestroyFree
                 \/ SpuriousWakeup \/ UNCHANGED vars
          PROVE  FALSE
      BY <3>5 DEF vars, InitReturns, WaitCall, WaitLock, WaitReadLen,
                  DestroyCall, DestroyPoll, ClearJob, DestroyFree,
                  SpuriousWakeup, Goto
    <3>6. WaitReadWorking
      BY NextCases, <3>2, <3>3, <3>4, <3>5
    <3>7. QED
      BY <3>6 DEF WaitReadWorking, Goto
  <2>2. CountedSet = {}
    <3>1. IsFiniteSet(CountedSet) /\ Cardinality(CountedSet) = 0
      BY <2>1, FS_Subset DEF CountersInv, CountedSet
    <3>2. QED
      BY <3>1, FS_EmptySet
  <2>3. jobqueue = <<>>
    BY <2>2 DEF WaitInv
  <2>4. Held = {}
    BY <2>2 DEF Held, HandsInv, CountedSet, Counted
  <2>5. dropped = {}
    BY DEF PhaseInv
  <2>6. Taken = 1..added
    BY <2>3 DEF Taken
  <2>7. QED
    BY <2>4, <2>5, <2>6 DEF QueueInv
<1>2. QED
  BY <1>1, Invariance, PTL DEF Spec, WaitIsBarrier

-----------------------------------------------------------------------------
(* thpool.c implements the contract of JobPool.                            *)

LEMMA InitRefines == Init => Pool!PoolInit
BY DEF Init, Pool!PoolInit, CallOfMain

LEMMA StepRefines ==
  ASSUME IInv, [Next]_vars
  PROVE  [Pool!PoolNext]_(Pool!poolVars)
<1> USE DEF IInv, TypeOK, Goto
<1> DEFINE Stutter == UNCHANGED <<jobqueue, job, CallOfMain>>
           Goal == Pool!PoolNext \/ Stutter
<1>1. ASSUME NEW w \in Workers,
             ThreadStart(w) \/ LoopTest(w) \/ BsemWait(w) \/ TokenTest(w)
             \/ CountUp(w) \/ Leave(w) \/ Unlock(w)
      PROVE  Stutter
  BY <1>1 DEF ThreadStart, LoopTest, BsemWait, TokenTest, CountUp, Leave,
              Unlock, CallOfMain
<1>2. ASSUME NEW w \in Workers, CountDown(w) PROVE Stutter
  BY <1>2 DEF CountDown, CallOfMain
<1>3. ASSUME NEW w \in Workers, Repost(w) PROVE Stutter
  <2>1. UNCHANGED <<jobqueue, job>>
    BY <1>3 DEF Repost
  <2>2. pc'[Main] = pc[Main]
    BY <1>3, RepostEffect
  <2>3. QED
    BY <2>1, <2>2 DEF CallOfMain
<1>4. ASSUME NEW t \in Threads, PushPost(t) PROVE Stutter
  <2>1. UNCHANGED <<jobqueue, job>>
    BY <1>4 DEF PushPost
  <2>2. \/ pc'[Main] = pc[Main]
        \/ pc[Main] = "push" /\ pc'[Main] = "app"
    BY <1>4, PushPostEffect
  <2>3. QED
    BY <2>1, <2>2 DEF CallOfMain
<1>5. ASSUME DestroyPoll PROVE Stutter
  <2>1. UNCHANGED <<jobqueue, job>>
    BY <1>5 DEF DestroyPoll
  <2>2. pc[Main] = "kill" /\ pc'[Main] \in {"kill", "clear"}
    BY <1>5, PollEffect
  <2>3. QED
    BY <2>1, <2>2 DEF CallOfMain
<1>6. ASSUME \/ InitReturns \/ WaitLock \/ WaitReadLen \/ SpuriousWakeup
             \/ UNCHANGED vars
      PROVE  Stutter
  BY <1>6 DEF vars, InitReturns, WaitLock, WaitReadLen, SpuriousWakeup,
              CallOfMain
<1>7. ASSUME NEW t \in Threads, AddWork(t) PROVE Pool!PoolNext
  <2>1. /\ added + 1 \in Jobs
        /\ jobqueue' = Append(jobqueue, added + 1)
        /\ job' = job
    BY <1>7 DEF AddWork
  <2>2. CallOfMain' = CallOfMain
    BY <1>7 DEF AddWork, CanAdd, CallOfMain
  <2>3. CASE t = Main
    <3>1. CallOfMain = "app"
      BY <1>7, <2>3 DEF AddWork, CanAdd, CallOfMain
    <3>2. Pool!SubmitByCaller(added + 1)
      BY <2>1, <2>2, <3>1 DEF Pool!SubmitByCaller
    <3>3. QED
      BY <2>1, <3>2 DEF Pool!PoolNext
  <2>4. CASE t \in Workers
    <3>1. job[t] # NoJob
      BY <1>7, <2>4 DEF AddWork, CanAdd, HandsInv
    <3>2. Pool!SubmitByJob(t, added + 1)
      BY <2>1, <2>2, <3>1 DEF Pool!SubmitByJob
    <3>3. QED
      BY <2>1, <2>4, <3>2 DEF Pool!PoolNext
  <2>5. QED
    BY <2>3, <2>4
<1>8. ASSUME NEW w \in Workers, Pull(w) PROVE Goal
  <2>1. CallOfMain' = CallOfMain
    BY <1>8 DEF Pull, CallOfMain
  <2>2. CASE jobqueue = <<>>
    BY <1>8, <2>1, <2>2 DEF Pull
  <2>3. CASE jobqueue # <<>>
    <3>1. job[w] = NoJob
      BY <1>8 DEF Pull, HandsInv
    <3>2. CallOfMain # "closed"
      BY <1>8 DEF Pull, PhaseInv, CallOfMain
    <3>3. Pool!Start(w)
      BY <1>8, <2>1, <2>3, <3>1, <3>2 DEF Pull, Pool!Start
    <3>4. QED
      BY <3>3 DEF Pool!PoolNext
  <2>4. QED
    BY <2>2, <2>3
<1>9. ASSUME NEW w \in Workers, JobReturns(w) PROVE Pool!PoolNext
  <2>1. CallOfMain' = CallOfMain
    BY <1>9 DEF JobReturns, CallOfMain
  <2>2. job[w] # NoJob
    BY <1>9 DEF JobReturns, HandsInv
  <2>3. Pool!Finish(w)
    BY <1>9, <2>1, <2>2 DEF JobReturns, Pool!Finish
  <2>4. QED
    BY <2>3 DEF Pool!PoolNext
<1>10. ASSUME WaitCall PROVE Pool!PoolNext
  BY <1>10 DEF WaitCall, CallOfMain, Pool!Wait, Pool!PoolNext
<1>11. ASSUME WaitReadWorking PROVE Goal
  <2>1. CASE working # 0
    BY <1>11, <2>1 DEF WaitReadWorking, CallOfMain
  <2>2. CASE working = 0
    <3>1. CountedSet = {}
      BY <2>2, FS_Subset, FS_EmptySet DEF CountersInv, CountedSet
    <3>2. jobqueue = <<>> /\ \A w \in Workers : job[w] = NoJob
      BY <1>11, <3>1 DEF WaitReadWorking, WaitInv, HandsInv, CountedSet, Counted
    <3>3. Pool!WaitReturns
      BY <1>11, <2>2, <3>2
         DEF WaitReadWorking, CallOfMain, Pool!WaitReturns, Pool!Idle,
             Pool!NothingRuns
    <3>4. QED
      BY <3>3 DEF Pool!PoolNext
  <2>3. QED
    BY <2>1, <2>2
<1>12. ASSUME DestroyCall PROVE Pool!PoolNext
  BY <1>12 DEF DestroyCall, CallOfMain, Pool!Destroy, Pool!PoolNext
<1>13. pc[Main] = "clear" => \A w \in Workers : job[w] = NoJob
  BY DEF PhaseInv, HandsInv
<1>14. ASSUME ClearJob PROVE Pool!PoolNext
  <2>1. Pool!DropJob
    BY <1>13, <1>14 DEF ClearJob, CallOfMain, Pool!DropJob, Pool!NothingRuns
  <2>2. QED
    BY <2>1 DEF Pool!PoolNext
<1>15. ASSUME DestroyFree PROVE Pool!PoolNext
  <2>1. Pool!DestroyReturns
    BY <1>13, <1>15
       DEF DestroyFree, CallOfMain, Pool!DestroyReturns, Pool!Idle,
           Pool!NothingRuns
  <2>2. QED
    BY <2>1 DEF Pool!PoolNext
<1>16. Goal
  <2> HIDE DEF Stutter
  <2>1. QED
    BY NextCases, <1>1, <1>2, <1>3, <1>4, <1>5, <1>6, <1>7, <1>8, <1>9,
       <1>10, <1>11, <1>12, <1>14, <1>15
<1>17. QED
  BY <1>16 DEF Pool!poolVars

THEOREM Refinement == Spec => PoolSpec
BY InitRefines, StepRefines, Invariance, PTL DEF Spec, PoolSpec, Pool!PoolSpec

=============================================================================
