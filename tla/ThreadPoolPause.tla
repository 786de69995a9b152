---------------------------- MODULE ThreadPoolPause ----------------------------
(***************************************************************************)
(* thpool_pause and thpool_resume of src/thpool.c beside the rest of the   *)
(* pool.  thpool_pause sends SIGUSR1 to every thread; the handler,         *)
(* thread_hold, interrupts a worker wherever it is, with whatever mutex it *)
(* holds, and keeps it until threads_on_hold is 0.  A signal that arrives  *)
(* in the handler waits for its end.  The flag belongs to all workers: it  *)
(* is raised by each handler that begins and lowered by thpool_resume.     *)
(*                                                                         *)
(* pthread_kill only makes a signal pending, so the loop of thpool_pause   *)
(* is one step, and every order of delivery follows.  A worker whose wait  *)
(* for a condition variable is interrupted goes on waiting.                *)
(*                                                                         *)
(* Bound: thpool_pause is called MaxPauses times.                          *)
(***************************************************************************)
EXTENDS ThreadPool

CONSTANT MaxPauses

ASSUME PauseAssumption == MaxPauses \in Nat

VARIABLES
  pending,   \* the workers with a signal that is not delivered yet
  held,      \* the workers inside thread_hold
  on_hold,   \* threads_on_hold
  pauses     \* calls of thpool_pause so far

pauseVars == <<pending, held, on_hold, pauses>>
allVars == <<vars, pauseVars>>

PauseTypeOK ==
  /\ TypeOK
  /\ pending \in SUBSET Workers
  /\ held \in SUBSET Workers
  /\ on_hold \in BOOLEAN
  /\ pauses \in 0..MaxPauses

PauseInit ==
  /\ Init
  /\ pending = {} /\ held = {}
  /\ on_hold = FALSE
  /\ pauses = 0

(* thpool_pause                                                            *)
Pause ==
  /\ pc[Main] = "app"
  /\ pauses < MaxPauses
  /\ pauses' = pauses + 1
  /\ pending' = Workers
  /\ UNCHANGED <<vars, held, on_hold>>

(* thpool_resume                                                           *)
Resume ==
  /\ pc[Main] = "app"
  /\ on_hold' = FALSE
  /\ UNCHANGED <<vars, pending, held, pauses>>

(* thread_hold begins ...                                                  *)
Hold(w) ==
  /\ w \in pending \ held
  /\ pc[w] # "exit"
  /\ pending' = pending \ {w}
  /\ held' = held \cup {w}
  /\ on_hold' = TRUE
  /\ UNCHANGED <<vars, pauses>>

(* Mutated: the loop does not look at the flag again.                      *)
ReleaseNever(w) ==
  /\ w \in held /\ ~on_hold
  /\ UNCHANGED <<vars, pauseVars>>

(* ... and ends.                                                           *)
Release(w) ==
  /\ w \in held
  /\ ~on_hold
  /\ held' = held \ {w}
  /\ UNCHANGED <<vars, pending, on_hold, pauses>>

(* A worker that is not held goes on; nothing holds Main.                  *)
GoOn(w) ==
  /\ w \notin held
  /\ WorkerStep(w)
  /\ UNCHANGED pauseVars

JobAdds(w) ==
  /\ w \notin held
  /\ AddWork(w)
  /\ UNCHANGED pauseVars

MainGoesOn ==
  /\ MainStep
  /\ UNCHANGED pauseVars

MainCalls ==
  /\ AddWork(Main) \/ WaitCall \/ DestroyCall
  /\ UNCHANGED pauseVars

Elsewhere == (SpuriousWakeup \/ Ended) /\ UNCHANGED pauseVars

(* Main may call thpool_wait or thpool_destroy on a paused pool and then   *)
(* never come to call thpool_resume: the program stops here.               *)
HeldForGood ==
  /\ held # {} /\ on_hold
  /\ pc[Main] # "app"
  /\ UNCHANGED allVars

PauseNext ==
  \/ \E w \in Workers : GoOn(w) \/ JobAdds(w) \/ Hold(w) \/ Release(w)
  \/ MainGoesOn \/ MainCalls \/ Pause \/ Resume
  \/ Elsewhere \/ HeldForGood

PauseSpec == PauseInit /\ [][PauseNext]_allVars

(* The fairness of ThreadPool; signals are delivered, and a handler tests  *)
(* the flag again.  Nobody has to call thpool_resume.                      *)
PauseFairness ==
  /\ WF_allVars(MainGoesOn)
  /\ \A w \in Workers : /\ WF_allVars(GoOn(w))
                        /\ WF_allVars(Hold(w))
                        /\ WF_allVars(Release(w))
FairPauseSpec == PauseSpec /\ PauseFairness

-----------------------------------------------------------------------------
NotHeldForGood == []<>(held = {})

(* A pause may cut in anywhere, also where a worker holds the mutex of the *)
(* queue or has taken a wakeup and not acted on it: once the workers are   *)
(* let go every job is run all the same.                                   *)
JobsRunUnlessHeld == NotHeldForGood => JobsRun

(* Likewise, thpool_wait returns ...                                       *)
WaitEndsUnlessHeld == NotHeldForGood => WaitEnds

(* ... and so does thpool_destroy.                                         *)
DestroyEndsUnlessHeld == NotHeldForGood => DestroyEnds

(* thpool_resume releases every worker, if all have been interrupted when  *)
(* it is called.  (A signal that is delivered later raises the flag again, *)
(* for all of them.)                                                       *)
ResumeReleases ==
  (~on_hold /\ pending = {}) ~> (held = {} \/ pending # {})

=============================================================================
