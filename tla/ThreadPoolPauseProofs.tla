------------------------- MODULE ThreadPoolPauseProofs -------------------------
(***************************************************************************)
(* A pause only delays: with thpool_pause and thpool_resume the pool takes *)
(* no step it could not take without them, so what ThreadPoolProofs proves *)
(* about it still holds.                                                   *)
(***************************************************************************)
EXTENDS ThreadPoolPause, ThreadPoolProofs

(* A signal, and a handler that begins or ends, leave the pool alone; what *)
(* a worker does when it is not held is a step of the pool.                *)
LEMMA PauseStep == [PauseNext]_allVars => [Next]_vars
<1> SUFFICES ASSUME [PauseNext]_allVars
             PROVE  [Next]_vars
  OBVIOUS
<1>1. ASSUME NEW w \in Workers, GoOn(w)
      PROVE  Next
  BY <1>1 DEF GoOn, Next
<1>2. ASSUME NEW w \in Workers, JobAdds(w)
      PROVE  Next
  BY <1>2 DEF JobAdds, Next, Call, Threads
<1>3. ASSUME NEW w \in Workers, Hold(w) \/ Release(w)
      PROVE  UNCHANGED vars
  BY <1>3 DEF Hold, Release
<1>4. CASE MainGoesOn
  BY <1>4 DEF MainGoesOn, Next
<1>5. CASE MainCalls
  BY <1>5 DEF MainCalls, Next, Call, Threads
<1>6. CASE Pause \/ Resume \/ HeldForGood
  BY <1>6 DEF Pause, Resume, HeldForGood, allVars
<1>7. CASE Elsewhere
  BY <1>7 DEF Elsewhere, Next
<1>8. CASE UNCHANGED allVars
  BY <1>8 DEF allVars
<1> QED
  BY <1>1, <1>2, <1>3, <1>4, <1>5, <1>6, <1>7, <1>8 DEF PauseNext

(* The pool with pauses behaves like the pool without.                     *)
THEOREM PauseOnlyDelays == PauseSpec => Spec
<1>1. PauseInit => Init
  BY DEF PauseInit
<1> QED
  BY <1>1, PauseStep, PTL DEF PauseSpec, Spec

(* Wherever a worker is interrupted, the invariant of the pool holds: the  *)
(* counters, who owns which mutex, and a wakeup for every queued job.      *)
THEOREM PausedInvariance == PauseSpec => []IInv
  BY PauseOnlyDelays, Invariance

(* The variables keep their types while signals are delivered: only        *)
(* workers are interrupted and held, and the calls stay within MaxPauses.  *)
THEOREM PauseTypes == PauseSpec => []PauseTypeOK
<1> DEFINE SignalTypes == /\ pending \in SUBSET Workers
                          /\ held \in SUBSET Workers
                          /\ on_hold \in BOOLEAN
                          /\ pauses \in 0..MaxPauses
<1>1. PauseInit => SignalTypes
  <2>1. 0 \in 0..MaxPauses
    BY PauseAssumption DEF PauseAssumption
  <2> QED
    BY <2>1 DEF PauseInit
<1>2. SignalTypes /\ [PauseNext]_allVars => SignalTypes'
  <2> SUFFICES ASSUME SignalTypes, [PauseNext]_allVars
               PROVE  SignalTypes'
    OBVIOUS
  <2>1. CASE Pause
    BY <2>1, PauseAssumption DEF Pause, PauseAssumption
  <2>2. CASE Resume
    BY <2>2 DEF Resume
  <2>3. ASSUME NEW w \in Workers, Hold(w) \/ Release(w)
        PROVE  SignalTypes'
    BY <2>3 DEF Hold, Release
  <2>4. CASE UNCHANGED pauseVars
    BY <2>4 DEF pauseVars
  <2> QED
    BY <2>1, <2>2, <2>3, <2>4
    DEF PauseNext, GoOn, JobAdds, MainGoesOn, MainCalls, Elsewhere,
        HeldForGood, allVars
<1>3. IInv => TypeOK
  BY DEF IInv
<1>4. TypeOK /\ SignalTypes => PauseTypeOK
  BY DEF PauseTypeOK
<1> QED
  BY <1>1, <1>2, <1>3, <1>4, PausedInvariance, PTL DEF PauseSpec

(* thpool_wait is a barrier for a pool that was paused, too: it returns    *)
(* only when every job added so far is done.                               *)
THEOREM PausedBarrier == PauseSpec => WaitIsBarrier
  BY PauseOnlyDelays, Barrier

(* A pool that is paused and resumed keeps the contract of its users.      *)
THEOREM PausedRefinement == PauseSpec => PoolSpec
  BY PauseOnlyDelays, Refinement

=============================================================================
