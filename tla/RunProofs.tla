------------------------------ MODULE RunProofs ------------------------------
(***************************************************************************)
(* Who may end, restart or give up a run: the churn cap, dead letters and  *)
(* the exclusiveness of runs.  Each theorem names the assumption it needs: *)
(* an unchanged configuration, one reaper, timeouts longer than live runs. *)
(***************************************************************************)
EXTENDS OrchestratorProofs

WithinCap == \A j \in JobIds :
  IF status[j] = "absent" THEN attempts[j] = 0
                          ELSE attempts[j] =< Cap(jobType[j])

(* A step that is not the operator's changes no configuration.             *)
LEMMA StaticConfig ==
  ASSUME TypeInv, [StaticNext]_vars
  PROVE  config' = config
<1>1. CASE Produced
  BY <1>1 DEF Produced, Enqueue, InsertJob
<1>2. ASSUME NEW d \in Dispatchers, Dispatched(d) PROVE config' = config
  BY <1>2 DEF Dispatched, DispatcherStep, FetchSelect, FetchCommit, Publish,
     Mark, MarkDispatched, storeVars
<1>3. ASSUME NEW w \in Workers, Protocol(w) \/ Handled(w) PROVE config' = config
  BY <1>3 DEF Protocol, Handled, WorkerProtocolStep, Poll, ClaimWon, Claim,
     ClaimLost, Resolve, ResolvePayload, ResolveNone, RunHandler, Report,
     Complete, Fail, GuardedUpdate, CommitOffset, WorkerReset, storeVars
<1>4. ASSUME NEW r \in Reapers, Reaped(r) PROVE config' = config
  BY <1>4 DEF Reaped, Sweep, Requeue, RequeueStuck, RequeueRefused, GiveUp,
     DeadLetter, GuardedUpdate, storeVars
<1>5. CASE \E j \in JobIds : TimePasses(j)
  BY <1>5 DEF TimePasses, Expire
<1>6. CASE Crashed \/ Rebalanced \/ MessageLost
  BY <1>6 DEF Crashed, DispatcherCrash, WorkerCrash, WorkerReset, ReaperCrash,
     Rebalanced, MessageLost, PublishLost, storeVars
<1>7. CASE UNCHANGED vars
  BY <1>7 DEF vars, storeVars
<1> QED
  BY <1>1, <1>2, <1>3, <1>4, <1>5, <1>6, <1>7 DEF StaticNext

(* requeue_stuck's guard keeps attempts within the type's cap.             *)
LEMMA WithinCapStep ==
  ASSUME TypeInv, WithinCap, [StaticNext]_vars
  PROVE  WithinCap'
<1>1. StoreTypeOK /\ \A j \in JobIds : status[j] # "absent" => jobType[j] \in JobTypes
  BY DEF TypeInv, TypeOK, WellFormed
<1>2. config' = config
  BY StaticConfig
<1>3. \A t \in JobTypes : Cap(t) \in Nat
  BY <1>1, CapBound
<1>4. (\E j \in JobIds : JobStep(j)) \/ UNCHANGED jobVars
  <2>1. [Next]_vars
    BY DEF Next
  <2> QED
    BY <2>1, StepEffect
<1>5. ASSUME NEW j \in JobIds PROVE Cap(jobType[j])' = Cap(jobType'[j])
  BY <1>2 DEF Cap
<1> SUFFICES ASSUME NEW j \in JobIds
             PROVE  IF status'[j] = "absent" THEN attempts'[j] = 0
                                             ELSE attempts'[j] =< Cap(jobType'[j])
  BY <1>5 DEF WithinCap
<1> USE <1>1 DEF StoreTypeOK, WithinCap
<1>6. ASSUME NEW k \in JobIds, NEW t \in JobTypes, NEW input \in Inputs,
             Enqueue(k, t, input)
      PROVE  IF status'[j] = "absent" THEN attempts'[j] = 0
                                      ELSE attempts'[j] =< Cap(jobType'[j])
  BY <1>3, <1>6 DEF Enqueue, InsertJob, NextId
<1>7. ASSUME NEW k \in JobIds, RequeueStuck(k)
      PROVE  IF status'[j] = "absent" THEN attempts'[j] = 0
                                      ELSE attempts'[j] =< Cap(jobType'[j])
  BY <1>3, <1>7 DEF RequeueStuck, Requeueable
<1>8. ASSUME NEW k \in JobIds,
             \/ MarkDispatched(k) \/ Claim(k) \/ ResolvePayload(k)
             \/ \E to \in Terminal : GuardedUpdate(k, to)
      PROVE  IF status'[j] = "absent" THEN attempts'[j] = 0
                                      ELSE attempts'[j] =< Cap(jobType'[j])
  BY <1>8 DEF MarkDispatched, Claim, Claimable, ResolvePayload, GuardedUpdate, Terminal
<1>9. CASE UNCHANGED jobVars
  BY <1>9 DEF jobVars
<1> QED
  BY <1>4, <1>6, <1>7, <1>8, <1>9 DEF JobStep

(* The cap's invariant holds while nobody edits the configuration.         *)
LEMMA StaticInvariant == StaticSpec => [](TypeInv /\ CountInv /\ WithinCap)
<1>1. StaticSpec => Spec
  <2>1. [StaticNext]_vars => [Next]_vars
    BY DEF Next
  <2> QED
    BY <2>1, PTL DEF StaticSpec, Spec
<1>2. Init => WithinCap
  BY DEF Init, StoreInit, WithinCap
<1>3. TypeInv /\ WithinCap /\ [StaticNext]_vars => WithinCap'
  BY WithinCapStep
<1> QED
  BY <1>1, <1>2, <1>3, CountInvariant, PTL DEF StaticSpec

(* The churn cap: with the configuration unchanged a job is claimed at     *)
(* most max_attempts + 1 times, however often its workers crash, are       *)
(* reaped alive, or receive its message again.                             *)
THEOREM ChurnIsCapped == StaticSpec => []RunsWithinCap
<1>1. TypeInv /\ CountInv /\ WithinCap => RunsWithinCap
  <2> SUFFICES ASSUME TypeInv, CountInv, WithinCap,
                      NEW j \in JobIds, status[j] # "absent"
               PROVE  claims[j] =< Cap(jobType[j]) + 1
    BY DEF RunsWithinCap
  <2>1. attempts[j] \in Nat /\ jobType[j] \in JobTypes /\ StoreTypeOK
    BY DEF TypeInv, TypeOK, WellFormed, StoreTypeOK
  <2>2. Cap(jobType[j]) \in Nat
    BY <2>1, CapBound
  <2>3. attempts[j] =< Cap(jobType[j])
    BY DEF WithinCap
  <2>4. claims[j] = attempts[j] + 1 \/ claims[j] = attempts[j] + 0
    BY DEF CountInv, ClaimsAreCounted
  <2> QED
    BY <2>1, <2>2, <2>3, <2>4
<1> QED
  BY <1>1, StaticInvariant, PTL

-----------------------------------------------------------------------------
(* The deployment's single reaper.                                         *)
OneReaper == \A r, s \in Reapers : r = s

(* Only the reaper changes attempts, and only the reaper adds to its list. *)
LEMMA OnlyReaperRequeues ==
  ASSUME TypeInv, [Next]_vars
  PROVE  \/ \E r \in Reapers : Reaped(r)
         \/ /\ attempts' = attempts
            /\ \A r \in Reapers : sweep'[r] \subseteq sweep[r]
                                  /\ refused'[r] \subseteq refused[r]
<1> USE DEF reaperVars
<1>1. CASE Produced
  BY <1>1 DEF Produced, Enqueue, InsertJob
<1>2. ASSUME NEW d \in Dispatchers, Dispatched(d)
      PROVE  attempts' = attempts /\ UNCHANGED reaperVars
  BY <1>2 DEF Dispatched, DispatcherStep, FetchSelect, FetchCommit, Publish,
     Mark, MarkDispatched, storeVars
<1>3. ASSUME NEW w \in Workers, Protocol(w) \/ Handled(w)
      PROVE  attempts' = attempts /\ UNCHANGED reaperVars
  BY <1>3 DEF Protocol, Handled, WorkerProtocolStep, Poll, ClaimWon, Claim,
     ClaimLost, Resolve, ResolvePayload, ResolveNone, RunHandler, Report,
     Complete, Fail, GuardedUpdate, CommitOffset, WorkerReset, storeVars
<1>4. CASE (\E j \in JobIds : TimePasses(j)) \/ Configured
  BY <1>4 DEF TimePasses, Expire, Configured, SetTypeConfig
<1>5. CASE Crashed
  <2>1. ASSUME NEW r \in Reapers, ReaperCrash(r)
        PROVE  /\ attempts' = attempts
               /\ \A s \in Reapers : sweep'[s] \subseteq sweep[s]
                                     /\ refused'[s] \subseteq refused[s]
    <3>1. ReaperTypeOK
      BY DEF TypeInv, TypeOK
    <3> QED
      BY <2>1, <3>1 DEF ReaperCrash, storeVars, ReaperTypeOK
  <2> QED
    BY <1>5, <2>1 DEF Crashed, DispatcherCrash, WorkerCrash, WorkerReset, storeVars
<1>6. CASE Rebalanced \/ MessageLost
  BY <1>6 DEF Rebalanced, MessageLost, PublishLost, storeVars
<1>7. CASE UNCHANGED vars
  BY <1>7 DEF vars, storeVars
<1> QED
  BY <1>1, <1>2, <1>3, <1>4, <1>5, <1>6, <1>7 DEF Next, StaticNext

(* Unless it is requeued, a run stays running until it ends for good.      *)
LEMMA RunsOnlyEnd ==
  ASSUME TypeInv, [Next]_vars, NEW j \in JobIds, attempts'[j] = attempts[j],
         status[j] \in Terminal \cup {"running"}
  PROVE  /\ status'[j] = status[j] \/ status'[j] \in Terminal
         /\ jobType'[j] = jobType[j]
<1>1. StoreTypeOK
  BY DEF TypeInv, TypeOK
<1>2. ASSUME NEW k \in JobIds, JobStep(k)
      PROVE  /\ status'[j] = status[j] \/ status'[j] \in Terminal
             /\ jobType'[j] = jobType[j]
  BY <1>1, <1>2 DEF JobStep, StoreTypeOK, Enqueue, InsertJob, NextId, MarkDispatched, Claim,
     Claimable, GuardedUpdate, RequeueStuck, ResolvePayload, Terminal
<1> QED
  BY <1>2, StepEffect DEF jobVars

(* What the reaper's list says stays true until the reaper gets to it.     *)
ListIsAccurate == \A r \in Reapers :
  /\ \A j \in sweep[r] : status[j] \in Terminal \cup {"running"}
  /\ \A j \in refused[r] :
       \/ status[j] \in Terminal
       \/ status[j] = "running" /\ attempts[j] >= Cap(jobType[j])

(* ... with one reaper and no configuration edits.                         *)
LEMMA ListStep ==
  ASSUME OneReaper, TypeInv, ListIsAccurate, [StaticNext]_vars
  PROVE  ListIsAccurate'
<1>1. [Next]_vars
  BY DEF Next
<1>2. config' = config
  BY StaticConfig
<1>3. StoreTypeOK /\ ReaperTypeOK
      /\ \A j \in JobIds : status[j] # "absent" => jobType[j] \in JobTypes
  BY DEF TypeInv, TypeOK, WellFormed
<1>4. \A t \in JobTypes : Cap(t) \in Nat
  BY <1>3, CapBound
<1>5. CASE /\ attempts' = attempts
           /\ \A r \in Reapers : sweep'[r] \subseteq sweep[r]
                                 /\ refused'[r] \subseteq refused[r]
  <2>1. ASSUME NEW j \in JobIds, status[j] \in Terminal \cup {"running"}
        PROVE  /\ status'[j] = status[j] \/ status'[j] \in Terminal
               /\ Cap(jobType[j])' = Cap(jobType[j])
    BY <1>1, <1>2, <1>5, <2>1, RunsOnlyEnd DEF Cap
  <2>2. ASSUME NEW r \in Reapers, NEW j \in sweep'[r]
        PROVE  status'[j] \in Terminal \cup {"running"}
    BY <1>3, <1>5, <2>1, <2>2 DEF ListIsAccurate, ReaperTypeOK
  <2>3. ASSUME NEW r \in Reapers, NEW j \in refused'[r]
        PROVE  \/ status'[j] \in Terminal
               \/ status'[j] = "running" /\ attempts'[j] >= Cap(jobType[j])'
    <3>1. j \in refused[r] /\ j \in JobIds
      BY <1>3, <1>5, <2>3 DEF ReaperTypeOK
    <3>2. CASE status[j] \in Terminal
      BY <2>1, <3>1, <3>2
    <3>3. CASE status[j] = "running" /\ attempts[j] >= Cap(jobType[j])
      BY <1>5, <2>1, <3>1, <3>3
    <3> QED
      BY <3>1, <3>2, <3>3 DEF ListIsAccurate
  <2> QED
    BY <2>2, <2>3 DEF ListIsAccurate
<1>6. ASSUME NEW r \in Reapers, Reaped(r) PROVE ListIsAccurate'
  <2>0. \A s \in Reapers : s = r
    BY DEF OneReaper
  <2> USE <1>3 DEF ReaperTypeOK, StoreTypeOK
  <2>1. CASE Sweep(r)
    BY <2>0, <2>1 DEF Sweep, FindStuck, storeVars, ListIsAccurate, Cap
  <2>2. ASSUME NEW j \in JobIds, Requeue(r, j) PROVE ListIsAccurate'
    BY <2>0, <2>2 DEF Requeue, RequeueStuck, ListIsAccurate, Terminal
  <2>3. ASSUME NEW j \in JobIds, RequeueRefused(r, j) PROVE ListIsAccurate'
    <3>1. \/ status[j] \in Terminal
          \/ status[j] = "running" /\ attempts[j] >= Cap(jobType[j])
      <4>1. status[j] \in Terminal \cup {"running"}
        BY <2>3 DEF RequeueRefused, ListIsAccurate
      <4>2. status[j] = "running" => ~(attempts[j] < Cap(jobType[j]))
        BY <2>3 DEF RequeueRefused, Requeueable
      <4>3. attempts[j] \in Nat
        OBVIOUS
      <4>4. status[j] = "running" => Cap(jobType[j]) \in Nat
        BY <1>4
      <4> QED
        BY <4>1, <4>2, <4>3, <4>4
    <3>2. /\ status' = status /\ attempts' = attempts
          /\ Cap(jobType[j])' = Cap(jobType[j])
          /\ sweep' = [sweep EXCEPT ![r] = @ \ {j}]
          /\ refused' = [refused EXCEPT ![r] = {j}]
      BY <2>3 DEF RequeueRefused, storeVars, Cap
    <3> QED
      BY <2>0, <3>1, <3>2 DEF ListIsAccurate
  <2>4. ASSUME NEW j \in JobIds, GiveUp(r, j) PROVE ListIsAccurate'
    BY <2>0, <2>4 DEF GiveUp, DeadLetter, GuardedUpdate, storeVars,
       ListIsAccurate, Terminal
  <2> QED
    BY <1>6, <2>1, <2>2, <2>3, <2>4 DEF Reaped
<1> QED
  BY <1>1, <1>5, <1>6, OnlyReaperRequeues

(* dead_letter's UPDATE checks only that the row is running; with one      *)
(* reaper and an unchanged configuration it still only ends runs whose     *)
(* attempts reached the cap, as the design asks of it.                     *)
THEOREM DeadLettersAreSpent ==
  ASSUME OneReaper
  PROVE  StaticSpec => DeadLetterOnlyAtCap
<1> DEFINE AtCap == \A r \in Reapers : \A j \in refused[r] :
             (refused'[r] = {} /\ status[j] = "running" /\ status'[j] = "failed")
               => attempts[j] >= Cap(jobType[j])
<1>1. Init => ListIsAccurate
  BY DEF Init, ReaperInit, ListIsAccurate
<1>2. TypeInv /\ ListIsAccurate /\ [StaticNext]_vars => ListIsAccurate'
  BY ListStep
<1>3. ListIsAccurate => AtCap
  BY DEF ListIsAccurate, Terminal
<1>4. ListIsAccurate => [AtCap]_vars
  BY <1>3
<1> HIDE DEF AtCap
<1>5. StaticSpec => [][AtCap]_vars
  BY <1>1, <1>2, <1>4, StaticInvariant, PTL DEF StaticSpec
<1> QED
  BY <1>5 DEF AtCap, DeadLetterOnlyAtCap

=============================================================================
