------------------------- MODULE OrchestratorProofs -------------------------
(***************************************************************************)
(* Theorems about Orchestrator that hold for every set of jobs, types,     *)
(* workers, dispatchers, reapers and partitions.                           *)
(***************************************************************************)
EXTENDS Orchestrator, TLAPS

TypeInv == TypeOK /\ WellFormed

StoreWF ==
  /\ StoreTypeOK
  /\ \A j \in JobIds : status[j] # "absent" => jobType[j] \in JobTypes

-----------------------------------------------------------------------------
(* Each store operation keeps the tables well typed.                       *)

(* jsonb || of two payloads is a payload (resolve_payload).                *)
LEMMA MergeType ==
  ASSUME NEW base \in Payloads, NEW input \in Payloads
  PROVE  Merge(base, input) \in Payloads
BY DEF Merge, Payloads

(* enqueue inserts a well-formed row.                                      *)
LEMMA EnqueueType ==
  ASSUME StoreWF, NEW j \in JobIds, NEW t \in JobTypes, NEW input \in Inputs,
         Enqueue(j, t, input)
  PROVE  StoreWF'
<1>1. input \in Payloads
  BY StoreAssumption
<1> QED
  BY <1>1 DEF StoreWF, StoreTypeOK, Enqueue, InsertJob, Statuses, Active, Terminal

(* mark_dispatched keeps the tables well typed.                            *)
LEMMA MarkType ==
  ASSUME StoreWF, NEW j \in JobIds, MarkDispatched(j)
  PROVE  StoreWF'
BY DEF StoreWF, StoreTypeOK, MarkDispatched, Statuses, Active, Terminal

(* claim keeps the tables well typed.                                      *)
LEMMA ClaimType ==
  ASSUME StoreWF, NEW j \in JobIds, Claim(j)
  PROVE  StoreWF'
BY DEF StoreWF, StoreTypeOK, Claim, Claimable, Statuses, Active, Terminal

(* resolve_payload writes a payload.                                       *)
LEMMA ResolveType ==
  ASSUME StoreWF, NEW j \in JobIds, ResolvePayload(j)
  PROVE  StoreWF' /\ payload'[j] \in Payloads
<1>1. config[jobType[j]] \in ConfigRows
  BY DEF StoreWF, StoreTypeOK, ResolvePayload, Resolvable
<1>2. config[jobType[j]].payload \in Payloads
  BY <1>1, StoreAssumption
<1>3. Merge(config[jobType[j]].payload, inputPayload[j]) \in Payloads
  BY <1>2, MergeType DEF StoreWF, StoreTypeOK
<1> QED
  BY <1>3 DEF StoreWF, StoreTypeOK, ResolvePayload, Resolvable

(* complete, fail and dead_letter keep the tables well typed.              *)
LEMMA TerminalType ==
  ASSUME StoreWF, NEW j \in JobIds, NEW to \in Terminal, GuardedUpdate(j, to)
  PROVE  StoreWF'
BY DEF StoreWF, StoreTypeOK, GuardedUpdate, Statuses, Active, Terminal

(* requeue_stuck keeps the tables well typed.                              *)
LEMMA RequeueType ==
  ASSUME StoreWF, NEW j \in JobIds, RequeueStuck(j)
  PROVE  StoreWF'
BY DEF StoreWF, StoreTypeOK, RequeueStuck, Requeueable, Statuses, Active, Terminal

-----------------------------------------------------------------------------
(* Init establishes the types.                                             *)
LEMMA InitType == Init => TypeInv
<1> SUFFICES ASSUME Init PROVE TypeInv
  OBVIOUS
<1> USE DEF Init
<1>1. EmptyPayload \in Payloads
  BY DEF EmptyPayload, Payloads
<1>2. StoreTypeOK
  BY <1>1, StoreAssumption DEF StoreInit, StoreTypeOK, Statuses
<1>3. topic \in [Partitions -> Seq(JobIds)]
      /\ inflight \in [Partitions -> Workers \cup {NoWorker}]
  BY DEF KafkaInit
<1>4. DispatcherTypeOK
  BY DEF DispatcherInit, DispatcherTypeOK, DispatcherSteps
<1>5. WorkerTypeOK
  BY <1>1 DEF WorkerInit, WorkerTypeOK, WorkerSteps, Outcomes
<1>6. ReaperTypeOK
  BY DEF ReaperInit, ReaperTypeOK
<1>7. WellFormed
  BY KafkaAssumption DEF WellFormed, WorkerInit, KafkaInit, StoreInit
<1> QED
  BY <1>2, <1>3, <1>4, <1>5, <1>6, <1>7 DEF TypeInv, TypeOK

-----------------------------------------------------------------------------
(* Kafka's part of the invariant, and how the broker's steps keep it.      *)

KafkaWF ==
  /\ topic \in [Partitions -> Seq(JobIds)]
  /\ inflight \in [Partitions -> Workers \cup {NoWorker}]
  /\ \A p \in Partitions : inflight[p] # NoWorker => topic[p] # << >>

(* publish appends a job id.                                               *)
LEMMA ProduceType ==
  ASSUME KafkaWF, NEW j \in JobIds, Produce(j)
  PROVE  KafkaWF'
<1>1. PartitionOf[j] \in Partitions
  BY OrchestratorAssumption
<1> DEFINE q == Append(topic[PartitionOf[j]], j)
<1>2. topic[PartitionOf[j]] \in Seq(JobIds)
  BY <1>1 DEF KafkaWF
<1>3. q \in Seq(JobIds) /\ q # << >>
  BY <1>2
<1>4. topic' = [topic EXCEPT ![PartitionOf[j]] = q] /\ inflight' = inflight
  BY DEF Produce
<1> HIDE DEF q
<1> QED
  BY <1>1, <1>3, <1>4 DEF KafkaWF

(* poll hands out the id of a job.                                         *)
LEMMA DeliverType ==
  ASSUME KafkaWF, NEW w \in Workers, NEW p \in Partitions, Deliver(w, p)
  PROVE  KafkaWF' /\ Head(topic[p]) \in JobIds
BY DEF KafkaWF, Deliver

(* commit removes a message that is there.                                 *)
LEMMA AcknowledgeType ==
  ASSUME KafkaWF, NEW w \in Workers, NEW p \in Partitions, Acknowledge(w, p)
  PROVE  KafkaWF'
<1>1. topic[p] \in Seq(JobIds) /\ topic[p] # << >>
  BY KafkaAssumption DEF KafkaWF, Acknowledge
<1>2. Tail(topic[p]) \in Seq(JobIds)
  BY <1>1
<1> QED
  BY <1>2 DEF KafkaWF, Acknowledge

(* Losing partitions or consumers removes no message.                      *)
LEMMA RevokeType ==
  ASSUME KafkaWF, \/ \E p \in Partitions : Revoke(p)
                  \/ \E w \in Workers : ConsumerGone(w)
  PROVE  KafkaWF'
BY DEF KafkaWF, Revoke, ConsumerGone

-----------------------------------------------------------------------------
WorkerWF ==
  /\ WorkerTypeOK
  /\ \A w \in Workers : wpc[w] # "idle" => wjob[w] \in JobIds

(* The type invariant is the conjunction of the processes' parts.          *)
LEMMA TypeInvParts ==
  TypeInv <=> /\ StoreWF /\ KafkaWF /\ DispatcherTypeOK /\ WorkerWF
              /\ ReaperTypeOK /\ faults \in Nat
BY DEF TypeInv, TypeOK, WellFormed, StoreWF, KafkaWF, WorkerWF

(* ... also in the next state.                                             *)
LEMMA TypeInvPartsPrime ==
  TypeInv' <=> /\ StoreWF' /\ KafkaWF' /\ DispatcherTypeOK' /\ WorkerWF'
               /\ ReaperTypeOK' /\ (faults \in Nat)'
BY DEF TypeInv, TypeOK, WellFormed, StoreWF, KafkaWF, WorkerWF

(* A step that leaves a process alone leaves its part alone.               *)
LEMMA Unchanged ==
  /\ StoreWF /\ UNCHANGED storeVars => StoreWF'
  /\ KafkaWF /\ UNCHANGED kafkaVars => KafkaWF'
  /\ DispatcherTypeOK /\ UNCHANGED dispatcherVars => DispatcherTypeOK'
  /\ WorkerWF /\ UNCHANGED workerVars => WorkerWF'
  /\ ReaperTypeOK /\ UNCHANGED reaperVars => ReaperTypeOK'
  /\ faults \in Nat /\ UNCHANGED faults => (faults \in Nat)'
<1>1. StoreWF /\ UNCHANGED storeVars => StoreWF'
  BY DEF StoreWF, StoreTypeOK, storeVars
<1>2. KafkaWF /\ UNCHANGED kafkaVars => KafkaWF'
  BY DEF KafkaWF, kafkaVars
<1>3. DispatcherTypeOK /\ UNCHANGED dispatcherVars => DispatcherTypeOK'
  BY DEF DispatcherTypeOK, dispatcherVars
<1>4. WorkerWF /\ UNCHANGED workerVars => WorkerWF'
  BY DEF WorkerWF, WorkerTypeOK, workerVars
<1>5. ReaperTypeOK /\ UNCHANGED reaperVars => ReaperTypeOK'
  BY DEF ReaperTypeOK, reaperVars
<1> QED
  BY <1>1, <1>2, <1>3, <1>4, <1>5

(* A dispatcher's steps keep the types.                                    *)
LEMMA DispatcherStepType ==
  ASSUME StoreWF, KafkaWF, DispatcherTypeOK, NEW d \in Dispatchers,
         \/ DispatcherStep(d)
         \/ \E j \in JobIds : PublishLost(d, j)
         \/ DispatcherCrash(d)
  PROVE  StoreWF' /\ KafkaWF' /\ DispatcherTypeOK'
<1> USE DEF DispatcherTypeOK, DispatcherSteps
<1>1. CASE FetchSelect(d)
  <2>1. FetchUnpublished(Locked(Dispatchers \ {d}), BatchSize) \in SUBSET JobIds
    BY DEF FetchUnpublished, StoreWF, StoreTypeOK
  <2> QED
    BY <1>1, <2>1, Unchanged DEF FetchSelect
<1>2. CASE FetchCommit(d)
  BY <1>2, Unchanged DEF FetchCommit
<1>3. ASSUME NEW j \in JobIds, Publish(d, j)
      PROVE  StoreWF' /\ KafkaWF' /\ DispatcherTypeOK'
  BY <1>3, Unchanged, ProduceType DEF Publish
<1>4. ASSUME NEW j \in JobIds, Mark(d, j)
      PROVE  StoreWF' /\ KafkaWF' /\ DispatcherTypeOK'
  BY <1>4, Unchanged, MarkType DEF Mark
<1>5. ASSUME NEW j \in JobIds, PublishLost(d, j)
      PROVE  StoreWF' /\ KafkaWF' /\ DispatcherTypeOK'
  BY <1>5, Unchanged DEF PublishLost, ProduceLost
<1>6. CASE DispatcherCrash(d)
  BY <1>6, Unchanged DEF DispatcherCrash
<1> QED
  BY <1>1, <1>2, <1>3, <1>4, <1>5, <1>6 DEF DispatcherStep

(* A worker's steps keep the types.                                        *)
LEMMA WorkerStepType ==
  ASSUME StoreWF, KafkaWF, WorkerWF, NEW w \in Workers,
         WorkerStep(w) \/ WorkerCrash(w)
  PROVE  StoreWF' /\ KafkaWF' /\ WorkerWF'
<1> USE DEF WorkerWF, WorkerTypeOK, WorkerSteps, Outcomes, Goto
<1>0. EmptyPayload \in Payloads
  BY DEF EmptyPayload, Payloads
<1>1. ASSUME NEW p \in Partitions, Poll(w, p)
      PROVE  StoreWF' /\ KafkaWF' /\ WorkerWF'
  BY <1>1, Unchanged, DeliverType DEF Poll
<1>2. CASE ClaimWon(w)
  <2>1. wjob[w] \in JobIds
    BY <1>2 DEF ClaimWon
  <2> QED
    BY <1>2, <2>1, Unchanged, ClaimType DEF ClaimWon
<1>3. CASE ClaimLost(w)
  BY <1>3, Unchanged DEF ClaimLost
<1>4. CASE Resolve(w)
  <2>1. wjob[w] \in JobIds
    BY <1>4 DEF Resolve
  <2>2. StoreWF' /\ payload'[wjob[w]] \in Payloads
    BY <1>4, <2>1, ResolveType DEF Resolve
  <2> QED
    BY <1>4, <2>1, <2>2, Unchanged DEF Resolve
<1>5. CASE ResolveNone(w)
  BY <1>5, Unchanged DEF ResolveNone
<1>6. CASE RunHandler(w)
  BY <1>6, Unchanged DEF RunHandler
<1>7. CASE Report(w)
  <2>1. wjob[w] \in JobIds
    BY <1>7 DEF Report
  <2>2. StoreWF'
    BY <1>7, <2>1, Unchanged, TerminalType DEF Report, Complete, Fail, Terminal
  <2> QED
    BY <1>7, <2>1, <2>2, Unchanged DEF Report
<1>8. CASE CommitOffset(w)
  <2>1. PartitionOf[wjob[w]] \in Partitions
    BY <1>8, OrchestratorAssumption DEF CommitOffset
  <2>2. KafkaWF'
    BY <1>8, <2>1, Unchanged, AcknowledgeType DEF CommitOffset
  <2> QED
    BY <1>0, <1>8, <2>2, Unchanged DEF CommitOffset, WorkerReset
<1>9. CASE WorkerCrash(w)
  BY <1>0, <1>9, Unchanged, RevokeType DEF WorkerCrash, WorkerReset
<1> QED
  BY <1>1, <1>2, <1>3, <1>4, <1>5, <1>6, <1>7, <1>8, <1>9
     DEF WorkerStep, WorkerProtocolStep

(* The reaper's steps keep the types.                                      *)
LEMMA ReaperStepType ==
  ASSUME StoreWF, ReaperTypeOK, NEW r \in Reapers,
         \/ Sweep(r) \/ ReaperCrash(r)
         \/ \E j \in JobIds : Requeue(r, j) \/ RequeueRefused(r, j) \/ GiveUp(r, j)
  PROVE  StoreWF' /\ ReaperTypeOK'
<1> USE DEF ReaperTypeOK
<1>1. CASE Sweep(r)
  <2>1. FindStuck \in SUBSET JobIds
    BY DEF FindStuck
  <2> QED
    BY <1>1, <2>1, Unchanged DEF Sweep
<1>2. CASE ReaperCrash(r)
  BY <1>2, Unchanged DEF ReaperCrash
<1>3. ASSUME NEW j \in JobIds, Requeue(r, j)
      PROVE  StoreWF' /\ ReaperTypeOK'
  BY <1>3, RequeueType DEF Requeue
<1>4. ASSUME NEW j \in JobIds, RequeueRefused(r, j)
      PROVE  StoreWF' /\ ReaperTypeOK'
  BY <1>4, Unchanged DEF RequeueRefused
<1>5. ASSUME NEW j \in JobIds, GiveUp(r, j)
      PROVE  StoreWF' /\ ReaperTypeOK'
  BY <1>5, Unchanged, TerminalType DEF GiveUp, DeadLetter, Terminal
<1> QED
  BY <1>1, <1>2, <1>3, <1>4, <1>5

(* Every step of the pipeline keeps the types.                             *)
LEMMA NextType ==
  ASSUME TypeInv, [Next]_vars
  PROVE  TypeInv'
<1>0. StoreWF /\ KafkaWF /\ DispatcherTypeOK /\ WorkerWF /\ ReaperTypeOK
      /\ faults \in Nat
  BY TypeInvParts
<1> USE TypeInvPartsPrime, Unchanged
<1>1. CASE Produced
  BY <1>0, <1>1, EnqueueType DEF Produced
<1>2. ASSUME NEW d \in Dispatchers, Dispatched(d) PROVE TypeInv'
  BY <1>0, <1>2, DispatcherStepType DEF Dispatched
<1>3. ASSUME NEW w \in Workers, Protocol(w) \/ Handled(w) PROVE TypeInv'
  BY <1>0, <1>3, WorkerStepType DEF Protocol, Handled, WorkerStep
<1>4. ASSUME NEW r \in Reapers, Reaped(r) PROVE TypeInv'
  BY <1>0, <1>4, ReaperStepType DEF Reaped
<1>5. ASSUME NEW j \in JobIds, TimePasses(j) PROVE TypeInv'
  <2>1. StoreWF'
    BY <1>0, <1>5 DEF TimePasses, Expire, StoreWF, StoreTypeOK
  <2> QED
    BY <1>0, <1>5, <2>1 DEF TimePasses
<1>6. CASE Configured
  <2>1. StoreWF'
    BY <1>0, <1>6 DEF Configured, SetTypeConfig, StoreWF, StoreTypeOK
  <2> QED
    BY <1>0, <1>6, <2>1 DEF Configured
<1>7. ASSUME Fault PROVE (faults \in Nat)'
  BY <1>0, <1>7 DEF Fault
<1>8. CASE Crashed
  <2>1. ASSUME NEW d \in Dispatchers, DispatcherCrash(d),
               UNCHANGED <<workerVars, reaperVars>>
        PROVE  TypeInv'
    BY <1>0, <1>7, <1>8, <2>1, DispatcherStepType DEF Crashed
  <2>2. ASSUME NEW w \in Workers, WorkerCrash(w),
               UNCHANGED <<dispatcherVars, reaperVars>>
        PROVE  TypeInv'
    BY <1>0, <1>7, <1>8, <2>2, WorkerStepType DEF Crashed
  <2>3. ASSUME NEW r \in Reapers, ReaperCrash(r),
               UNCHANGED <<kafkaVars, dispatcherVars, workerVars>>
        PROVE  TypeInv'
    BY <1>0, <1>7, <1>8, <2>3, ReaperStepType DEF Crashed
  <2> QED
    BY <1>8, <2>1, <2>2, <2>3 DEF Crashed
<1>9. CASE Rebalanced
  BY <1>0, <1>7, <1>9, RevokeType DEF Rebalanced
<1>10. CASE MessageLost
  BY <1>0, <1>7, <1>10, DispatcherStepType DEF MessageLost
<1>11. CASE UNCHANGED vars
  BY <1>0, <1>11 DEF vars
<1> QED
  BY <1>1, <1>2, <1>3, <1>4, <1>5, <1>6, <1>8, <1>9, <1>10, <1>11
     DEF Next, StaticNext

(* Type correctness: every table, queue and process variable of the        *)
(* pipeline keeps its type, and every index the code uses is defined (a    *)
(* busy worker's job exists, a committed message is in its partition, a    *)
(* stored job has a type).                                                 *)
THEOREM TypeCorrect == Spec => [](TypeOK /\ WellFormed)
<1>1. Init => TypeInv
  BY InitType
<1>2. TypeInv /\ [Next]_vars => TypeInv'
  BY NextType
<1> QED
  BY <1>1, <1>2, PTL DEF Spec, TypeInv

-----------------------------------------------------------------------------
(* What a step of any process can do to a job's row, outbox row and claim  *)
(* count.  The invariants and the refinement below look at steps only      *)
(* through this list.                                                      *)

jobVars == <<status, jobType, attempts, payload, unpublished, claims>>

JobStep(j) ==
  \/ /\ \E t \in JobTypes, input \in Inputs : Enqueue(j, t, input)
     /\ UNCHANGED claims
  \/ MarkDispatched(j) /\ UNCHANGED claims
  \/ Claim(j) /\ claims' = [claims EXCEPT ![j] = @ + 1]
  \/ (\E to \in Terminal : GuardedUpdate(j, to)) /\ UNCHANGED claims
  \/ RequeueStuck(j) /\ UNCHANGED claims
  \/ ResolvePayload(j) /\ UNCHANGED claims

(* Every step of the pipeline is one of those, on one job, or touches none *)
(* of these variables.                                                     *)
LEMMA StepEffect ==
  ASSUME TypeInv, [Next]_vars
  PROVE  (\E j \in JobIds : JobStep(j)) \/ UNCHANGED jobVars
<1>0. \A w \in Workers : wpc[w] # "idle" => wjob[w] \in JobIds
  BY DEF TypeInv, WellFormed
<1> USE DEF jobVars
<1>1. CASE Produced
  BY <1>1 DEF Produced, workerVars, JobStep
<1>2. ASSUME NEW d \in Dispatchers, Dispatched(d)
      PROVE  (\E j \in JobIds : JobStep(j)) \/ UNCHANGED jobVars
  BY <1>2 DEF Dispatched, DispatcherStep, FetchSelect, FetchCommit, Publish,
     Mark, workerVars, storeVars, JobStep
<1>3. ASSUME NEW w \in Workers, Protocol(w) \/ Handled(w)
      PROVE  (\E j \in JobIds : JobStep(j)) \/ UNCHANGED jobVars
  <2>1. CASE ClaimWon(w)
    BY <1>0, <2>1 DEF ClaimWon, JobStep
  <2>2. CASE Resolve(w)
    BY <1>0, <2>2 DEF Resolve, JobStep
  <2>3. CASE Report(w)
    <3>1. wjob[w] \in JobIds
      BY <1>0, <2>3 DEF Report
    <3> QED
      BY <2>3, <3>1 DEF Report, Complete, Fail, Terminal, JobStep, storeVars
  <2>4. CASE \/ \E p \in Partitions : Poll(w, p)
             \/ ClaimLost(w) \/ ResolveNone(w) \/ CommitOffset(w) \/ RunHandler(w)
    BY <2>4 DEF Poll, ClaimLost, ResolveNone, CommitOffset, RunHandler,
       WorkerReset, storeVars
  <2> QED
    BY <1>3, <2>1, <2>2, <2>3, <2>4 DEF Protocol, Handled, WorkerProtocolStep
<1>4. ASSUME NEW r \in Reapers, Reaped(r)
      PROVE  (\E j \in JobIds : JobStep(j)) \/ UNCHANGED jobVars
  BY <1>4 DEF Reaped, Sweep, Requeue, RequeueRefused, GiveUp, DeadLetter,
     Terminal, workerVars, storeVars, JobStep
<1>5. CASE (\E j \in JobIds : TimePasses(j)) \/ Configured
  BY <1>5 DEF TimePasses, Expire, Configured, SetTypeConfig, workerVars
<1>6. CASE Crashed \/ Rebalanced \/ MessageLost
  BY <1>6 DEF Crashed, DispatcherCrash, WorkerCrash, WorkerReset, ReaperCrash,
     Rebalanced, MessageLost, PublishLost, workerVars, storeVars
<1>7. CASE UNCHANGED vars
  BY <1>7 DEF vars, storeVars, workerVars
<1> QED
  BY <1>1, <1>2, <1>3, <1>4, <1>5, <1>6, <1>7 DEF Next, StaticNext

(* The inductive invariant: the three stated properties and the bound the  *)
(* cap of requeue_stuck gives.                                             *)
AttemptsBounded == \A j \in JobIds : attempts[j] =< MaxCap

CountInv ==
  /\ OneActivePerType
  /\ QueuedIsPublishable
  /\ ClaimsAreCounted
  /\ AttemptsBounded

(* Every cap the store can look up is at most MaxCap.                      *)
LEMMA CapBound ==
  ASSUME StoreTypeOK, NEW t \in JobTypes
  PROVE  Cap(t) \in Nat /\ Cap(t) =< MaxCap
<1>1. CASE config[t] = NoRow
  BY <1>1, StoreAssumption, OrchestratorAssumption DEF Cap
<1>2. CASE config[t] # NoRow
  <2>1. config[t] \in ConfigRows
    BY <1>2 DEF StoreTypeOK
  <2>2. config[t].max_attempts \in Nat /\ config[t].max_attempts =< MaxCap
    BY <2>1, StoreAssumption, OrchestratorAssumption
  <2> QED
    BY <1>2, <2>2 DEF Cap
<1> QED
  BY <1>1, <1>2

(* One job's step keeps the invariant.                                     *)
LEMMA JobStepCount ==
  ASSUME TypeInv, CountInv, NEW j \in JobIds, JobStep(j)
  PROVE  CountInv'
<1> USE DEF CountInv, OneActivePerType, QueuedIsPublishable, ClaimsAreCounted,
        AttemptsBounded, Active, Terminal
<1>0. /\ StoreTypeOK /\ claims \in [JobIds -> Nat]
      /\ status[j] # "absent" => jobType[j] \in JobTypes
  BY DEF TypeInv, TypeOK, WorkerTypeOK, WellFormed
<1>1. ASSUME NEW t \in JobTypes, NEW input \in Inputs, Enqueue(j, t, input),
             UNCHANGED claims
      PROVE  CountInv'
  BY <1>0, <1>1 DEF StoreTypeOK, Enqueue, InsertJob, NextId, SlotFree
<1>2. CASE MarkDispatched(j) /\ UNCHANGED claims
  BY <1>0, <1>2 DEF StoreTypeOK, MarkDispatched
<1>3. CASE Claim(j) /\ claims' = [claims EXCEPT ![j] = @ + 1]
  BY <1>0, <1>3 DEF StoreTypeOK, Claim, Claimable
<1>4. ASSUME NEW to \in Terminal, GuardedUpdate(j, to), UNCHANGED claims
      PROVE  CountInv'
  BY <1>0, <1>4 DEF StoreTypeOK, GuardedUpdate
<1>5. CASE RequeueStuck(j) /\ UNCHANGED claims
  <2>1. Cap(jobType[j]) \in Nat /\ Cap(jobType[j]) =< MaxCap
    BY <1>0, <1>5, CapBound DEF RequeueStuck, Requeueable
  <2>2. attempts[j] + 1 =< MaxCap
    BY <1>0, <1>5, <2>1, OrchestratorAssumption
       DEF RequeueStuck, Requeueable, StoreTypeOK
  <2> QED
    BY <1>0, <1>5, <2>2 DEF StoreTypeOK, RequeueStuck, Requeueable
<1>6. CASE ResolvePayload(j) /\ UNCHANGED claims
  BY <1>6 DEF ResolvePayload
<1> QED
  BY <1>1, <1>2, <1>3, <1>4, <1>5, <1>6 DEF JobStep

(* The inductive invariant holds in every reachable state.                 *)
LEMMA CountInvariant == Spec => [](TypeInv /\ CountInv)
<1>1. Init => CountInv
  BY OrchestratorAssumption DEF Init, StoreInit, WorkerInit, CountInv,
     OneActivePerType, QueuedIsPublishable, ClaimsAreCounted, AttemptsBounded,
     Active, Terminal
<1>2. TypeInv /\ CountInv /\ [Next]_vars => CountInv'
  <2> SUFFICES ASSUME TypeInv, CountInv, [Next]_vars PROVE CountInv'
    OBVIOUS
  <2>1. CASE \E j \in JobIds : JobStep(j)
    BY <2>1, JobStepCount
  <2>2. CASE UNCHANGED jobVars
    BY <2>2 DEF jobVars, CountInv, OneActivePerType, QueuedIsPublishable,
       ClaimsAreCounted, AttemptsBounded
  <2> QED
    BY <2>1, <2>2, StepEffect
<1>3. Spec => []TypeInv
  BY TypeCorrect DEF TypeInv
<1> QED
  BY <1>1, <1>2, <1>3, PTL DEF Spec

(* The dedup rule, the agreement of jobs and outbox and the exact count of *)
(* runs hold in every reachable state, whatever crashes, late workers,     *)
(* lost messages, revoked partitions and configuration edits happen.       *)
THEOREM CountsCorrect ==
  Spec => [](OneActivePerType /\ QueuedIsPublishable /\ ClaimsAreCounted)
BY CountInvariant, PTL DEF CountInv

(* The dedup rule by itself: the index is enforced on INSERT and no later  *)
(* mark, claim or requeue makes a second job of a type active.             *)
THEOREM DedupIsKept == Spec => []OneActivePerType
BY CountsCorrect, PTL

(* A queued job always has something to publish: requeue_stuck re-arms the *)
(* row with the status and mark_dispatched retires the two together.       *)
THEOREM QueuedRowsPublishable == Spec => []QueuedIsPublishable
BY CountsCorrect, PTL

-----------------------------------------------------------------------------
(* A terminal row is never changed again, by any step of any process.      *)
THEOREM TerminalRowsAreFinal == Spec => TerminalIsFinal
<1> DEFINE Kept == \A j \in JobIds : status[j] \in Terminal =>
                     /\ status'[j] = status[j]
                     /\ attempts'[j] = attempts[j]
                     /\ payload'[j] = payload[j]
                     /\ j \in unpublished' => j \in unpublished
<1>1. TypeInv /\ [Next]_vars => [Kept]_vars
  <2> SUFFICES ASSUME TypeInv, [Next]_vars,
                      NEW j \in JobIds, status[j] \in Terminal
               PROVE  /\ status'[j] = status[j]
                      /\ attempts'[j] = attempts[j]
                      /\ payload'[j] = payload[j]
                      /\ j \in unpublished' => j \in unpublished
    OBVIOUS
  <2>0. StoreTypeOK
    BY DEF TypeInv, TypeOK
  <2>1. ASSUME NEW k \in JobIds, JobStep(k)
        PROVE  /\ status'[j] = status[j]
               /\ attempts'[j] = attempts[j]
               /\ payload'[j] = payload[j]
               /\ j \in unpublished' => j \in unpublished
    BY <2>0, <2>1 DEF StoreTypeOK, Terminal, JobStep, Enqueue, InsertJob, NextId,
       MarkDispatched, Claim, Claimable, GuardedUpdate, RequeueStuck,
       Requeueable, ResolvePayload, Resolvable
  <2>2. CASE UNCHANGED jobVars
    BY <2>2 DEF jobVars
  <2> QED
    BY <2>1, <2>2, StepEffect
<1> QED
  BY <1>1, TypeCorrect, PTL DEF Spec, TypeInv, TerminalIsFinal

-----------------------------------------------------------------------------
(* The refinement: seen through phaseOf and startsOf, a job's step is a    *)
(* step of its lifecycle.  AttemptsBounded is what lets a claim be a Start.*)
LEMMA JobStepLifecycle ==
  ASSUME TypeInv, CountInv, NEW j \in JobIds, JobStep(j)
  PROVE  Lifecycle!Next \/ UNCHANGED Lifecycle!lifecycleVars
<1>0. StoreTypeOK
  BY DEF TypeInv, TypeOK
<1> USE <1>0 DEF StoreTypeOK, phaseOf, startsOf, Terminal
<1>1. ASSUME NEW t \in JobTypes, NEW input \in Inputs, Enqueue(j, t, input)
      PROVE  Lifecycle!Submit(j, t)
  <2>1. phaseOf[j] = "none" /\ phaseOf' = [phaseOf EXCEPT ![j] = "waiting"]
    BY <1>1 DEF Enqueue, InsertJob, NextId
  <2>2. ASSUME NEW k \in JobIds, jobType[k] = t
        PROVE  phaseOf[k] \notin {"waiting", "running"}
    <3>1. status[k] \in {"absent", "completed", "failed"}
      BY <1>1, <2>2 DEF Enqueue, InsertJob, SlotFree, Active, Statuses
    <3> QED
      BY <3>1
  <2>3. startsOf' = startsOf /\ jobType' = [jobType EXCEPT ![j] = t]
    BY <1>1 DEF Enqueue, InsertJob, NextId
  <2> HIDE DEF phaseOf, startsOf
  <2> QED
    BY <2>1, <2>2, <2>3 DEF Lifecycle!Submit, Lifecycle!Open
<1>2. CASE MarkDispatched(j) \/ ResolvePayload(j)
  <2>1. phaseOf' = phaseOf /\ startsOf' = startsOf /\ jobType' = jobType
    BY <1>2 DEF MarkDispatched, ResolvePayload
  <2> HIDE DEF phaseOf, startsOf
  <2> QED
    BY <2>1 DEF Lifecycle!lifecycleVars
<1>3. ASSUME Claim(j) PROVE Lifecycle!Start(j)
  <2>1. phaseOf[j] = "waiting" /\ phaseOf' = [phaseOf EXCEPT ![j] = "running"]
    BY <1>3 DEF Claim, Claimable
  <2>2. startsOf[j] = attempts[j] /\ startsOf' = [startsOf EXCEPT ![j] = @ + 1]
    BY <1>3 DEF Claim, Claimable
  <2>3. attempts[j] < MaxCap + 1
    BY OrchestratorAssumption DEF CountInv, AttemptsBounded
  <2>4. jobType' = jobType
    BY <1>3 DEF Claim
  <2> HIDE DEF phaseOf, startsOf
  <2> QED
    BY <2>1, <2>2, <2>3, <2>4 DEF Lifecycle!Start
<1>4. ASSUME NEW to \in Terminal, GuardedUpdate(j, to)
      PROVE  Lifecycle!Finish(j, to)
  <2>1. phaseOf[j] = "running" /\ phaseOf' = [phaseOf EXCEPT ![j] = to]
    BY <1>4 DEF GuardedUpdate
  <2>2. startsOf' = startsOf /\ jobType' = jobType
    BY <1>4 DEF GuardedUpdate
  <2> HIDE DEF phaseOf, startsOf
  <2> QED
    BY <2>1, <2>2 DEF Lifecycle!Finish
<1>5. ASSUME RequeueStuck(j) PROVE Lifecycle!Abandon(j)
  <2>1. phaseOf[j] = "running" /\ phaseOf' = [phaseOf EXCEPT ![j] = "waiting"]
    BY <1>5 DEF RequeueStuck, Requeueable
  <2>2. startsOf' = startsOf /\ jobType' = jobType
    BY <1>5 DEF RequeueStuck, Requeueable
  <2> HIDE DEF phaseOf, startsOf
  <2> QED
    BY <2>1, <2>2 DEF Lifecycle!Abandon
<1> QED
  BY <1>1, <1>2, <1>3, <1>4, <1>5 DEF JobStep, Lifecycle!Next

(* The pipeline implements the lifecycle a producer sees: whatever the     *)
(* processes, the broker and the clock do, a job waits, runs, possibly     *)
(* waits again, is started at most MaxCap + 1 times, and ends for good;    *)
(* and a type has at most one open job.                                    *)
THEOREM PipelineImplementsLifecycle == Spec => ImplementsLifecycle
<1>1. Init => Lifecycle!Init
  BY DEF Init, StoreInit, Lifecycle!Init, phaseOf, startsOf, Terminal
<1>2. TypeInv /\ CountInv /\ [Next]_vars
        => [Lifecycle!Next]_(Lifecycle!lifecycleVars)
  <2> SUFFICES ASSUME TypeInv, CountInv, [Next]_vars
               PROVE  Lifecycle!Next \/ UNCHANGED Lifecycle!lifecycleVars
    OBVIOUS
  <2>1. CASE \E j \in JobIds : JobStep(j)
    BY <2>1, JobStepLifecycle
  <2>2. CASE UNCHANGED jobVars
    BY <2>2 DEF jobVars, Lifecycle!lifecycleVars, phaseOf, startsOf
  <2> QED
    BY <2>1, <2>2, StepEffect
<1> QED
  BY <1>1, <1>2, CountInvariant, PTL DEF Spec, ImplementsLifecycle, Lifecycle!Spec

=============================================================================
