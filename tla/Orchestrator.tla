---------------------------- MODULE Orchestrator ----------------------------
(***************************************************************************)
(* The whole pipeline: producers enqueue, dispatchers drain the outbox to  *)
(* Kafka, workers claim and run, the reaper recovers stuck runs, all       *)
(* against one store and one topic.  Processes crash and restart, the      *)
(* broker revokes partitions and loses messages, run timeouts pass, and an *)
(* operator edits job_type_config.                                         *)
(***************************************************************************)
EXTENDS Dispatcher, Worker, Reaper

CONSTANTS
  MaxFaults,   \* bound on crashes, revocations and lost messages together
  MaxCap       \* the largest attempts cap any type can have

ASSUME OrchestratorAssumption ==
  /\ MaxFaults \in Nat
  /\ MaxCap \in Nat
  /\ DefaultMaxAttempts =< MaxCap
  /\ \A row \in ConfigRows : row.max_attempts =< MaxCap
  /\ PartitionOf \in [JobIds -> Partitions]
  /\ NoType \notin JobTypes

VARIABLE faults   \* how many faults happened so far

vars == <<storeVars, kafkaVars, dispatcherVars, workerVars, reaperVars, faults>>

(* Every variable has its type, and the broker's state fits the workers'.  *)
TypeOK ==
  /\ StoreTypeOK
  /\ topic \in [Partitions -> Seq(JobIds)]
  /\ inflight \in [Partitions -> Workers \cup {NoWorker}]
  /\ DispatcherTypeOK
  /\ WorkerTypeOK
  /\ ReaperTypeOK
  /\ faults \in Nat

(* What the steps rely on besides: a busy worker has a job in hand, a      *)
(* delivered message is still in its partition, a job has a type.          *)
WellFormed ==
  /\ \A w \in Workers : wpc[w] # "idle" => wjob[w] \in JobIds
  /\ \A p \in Partitions : inflight[p] # NoWorker => topic[p] # << >>
  /\ \A j \in JobIds : status[j] # "absent" => jobType[j] \in JobTypes

Init ==
  /\ StoreInit /\ KafkaInit /\ DispatcherInit /\ WorkerInit /\ ReaperInit
  /\ faults = 0

-----------------------------------------------------------------------------
Produced == \E j \in JobIds, t \in JobTypes, input \in Inputs :
  /\ Enqueue(j, t, input)
  /\ UNCHANGED <<kafkaVars, dispatcherVars, workerVars, reaperVars, faults>>

Dispatched(d) ==
  /\ DispatcherStep(d)
  /\ UNCHANGED <<workerVars, reaperVars, faults>>

Protocol(w) ==
  /\ WorkerProtocolStep(w)
  /\ UNCHANGED <<dispatcherVars, reaperVars, faults>>

Handled(w) ==
  /\ RunHandler(w)
  /\ UNCHANGED <<dispatcherVars, reaperVars, faults>>

(* requeue_stuck waits for a fetch that has the outbox row locked.         *)
Reaped(r) ==
  /\ \/ Sweep(r)
     \/ \E j \in JobIds : \/ Requeue(r, j) /\ j \notin Locked(Dispatchers)
                          \/ RequeueRefused(r, j)
                          \/ GiveUp(r, j)
  /\ UNCHANGED <<kafkaVars, dispatcherVars, workerVars, faults>>

TimePasses(j) ==
  /\ Expire(j)
  /\ UNCHANGED <<kafkaVars, dispatcherVars, workerVars, reaperVars, faults>>

Configured == \E t \in JobTypes, row \in ConfigRows \cup {NoRow} :
  /\ SetTypeConfig(t, row)
  /\ UNCHANGED <<kafkaVars, dispatcherVars, workerVars, reaperVars, faults>>

Fault == faults < MaxFaults /\ faults' = faults + 1

Crashed ==
  /\ Fault
  /\ \/ \E d \in Dispatchers : DispatcherCrash(d)
                               /\ UNCHANGED <<workerVars, reaperVars>>
     \/ \E w \in Workers : WorkerCrash(w)
                           /\ UNCHANGED <<dispatcherVars, reaperVars>>
     \/ \E r \in Reapers : ReaperCrash(r)
                           /\ UNCHANGED <<kafkaVars, dispatcherVars, workerVars>>

Rebalanced ==
  /\ Fault
  /\ \E p \in Partitions : Revoke(p)
  /\ UNCHANGED <<storeVars, dispatcherVars, workerVars, reaperVars>>

MessageLost ==
  /\ Fault
  /\ \E d \in Dispatchers, j \in JobIds : PublishLost(d, j)
  /\ UNCHANGED <<workerVars, reaperVars>>

StaticNext ==
  \/ Produced
  \/ \E d \in Dispatchers : Dispatched(d)
  \/ \E w \in Workers : Protocol(w) \/ Handled(w)
  \/ \E r \in Reapers : Reaped(r)
  \/ \E j \in JobIds : TimePasses(j)
  \/ Crashed
  \/ Rebalanced
  \/ MessageLost

(* The operator may also edit the configuration.                           *)
Next == StaticNext \/ Configured

Spec       == Init /\ [][Next]_vars
StaticSpec == Init /\ [][StaticNext]_vars

-----------------------------------------------------------------------------
(* Assumptions about the environment, as constraints on steps.             *)

InMarkWindow(j) == \E d \in Dispatchers : dpc[d] = "mark" /\ Current(d, j)

Requeues(j) == status[j] = "running" /\ status'[j] = "queued"

(* The broker keeps what it is given, and a dispatcher that has published  *)
(* a message marks its row before the reaper can requeue that very job:    *)
(* milliseconds against a run_timeout of minutes.                          *)
ReliableNext ==
  /\ Next
  /\ ~MessageLost
  /\ \A j \in JobIds : Requeues(j) => ~InMarkWindow(j)

ReliableSpec == Init /\ [][ReliableNext]_vars

(* The broker alone is reliable.                                           *)
LosslessSpec == Init /\ [][Next /\ ~MessageLost]_vars

RunSteps == {"resolve", "run", "complete", "fail"}

LiveRun(w, j) == wpc[w] \in RunSteps /\ wjob[w] = j

(* run_timeout is longer than any live run: only dead runs time out.       *)
TimelyNext ==
  /\ Next
  /\ \A j \in expired' \ expired : ~ \E w \in Workers : LiveRun(w, j)

TimelySpec == Init /\ [][TimelyNext]_vars

(* Every process is scheduled again and again and calls return; clocks     *)
(* move.  Nothing makes producers, operators or faults act.                *)
ProcessFairness ==
  /\ \A d \in Dispatchers : WF_vars(Dispatched(d) /\ ReliableNext)
  /\ \A w \in Workers : WF_vars(Protocol(w) /\ ReliableNext)
  /\ \A r \in Reapers : WF_vars(Reaped(r) /\ ReliableNext)
  /\ \A j \in JobIds : WF_vars(TimePasses(j) /\ ReliableNext)

(* ... and every handler returns or raises in the end.                     *)
HandlersReturn == \A w \in Workers : WF_vars(Handled(w) /\ ReliableNext)

HangingSpec == ReliableSpec /\ ProcessFairness
FairSpec    == HangingSpec /\ HandlersReturn

-----------------------------------------------------------------------------
(* The dedup rule of the partial unique index, kept by every later status  *)
(* change (mark_dispatched, claim, requeue_stuck): two jobs of one type    *)
(* are never both queued, dispatched or running.                           *)
OneActivePerType == \A j, k \in JobIds :
  (j # k /\ jobType[j] = jobType[k] /\ status[j] \in Active)
    => status[k] \notin Active

(* enqueue, mark_dispatched and requeue_stuck keep jobs and outbox in      *)
(* step: a queued job's outbox row is always publishable.                  *)
QueuedIsPublishable == \A j \in JobIds : status[j] = "queued" => j \in unpublished

(* Every successful claim but the current or last one was undone by        *)
(* exactly one requeue_stuck, whoever crashed, was reaped or came late:    *)
(* attempts counts the runs of a job exactly.                              *)
ClaimsAreCounted == \A j \in JobIds :
  claims[j] = attempts[j]
              + (IF status[j] \in Terminal \cup {"running"} THEN 1 ELSE 0)

(* The churn cap: a job is started at most once more than its cap allows   *)
(* requeues (configuration unchanged).                                     *)
RunsWithinCap == \A j \in JobIds :
  status[j] # "absent" => claims[j] =< Cap(jobType[j]) + 1

(* Completed and failed rows are history: no late worker, dispatcher or    *)
(* reaper changes a terminal row's status, attempts, payload or outbox row *)
(* back to publishable.                                                    *)
TerminalIsFinal == [][ \A j \in JobIds : status[j] \in Terminal =>
  /\ status'[j] = status[j]
  /\ attempts'[j] = attempts[j]
  /\ payload'[j] = payload[j]
  /\ j \in unpublished' => j \in unpublished ]_vars

(* dead_letter only hits a run that used up its attempts, although its     *)
(* UPDATE does not check them: with one reaper and a fixed configuration.  *)
DeadLetterOnlyAtCap == [][ \A r \in Reapers : \A j \in refused[r] :
  (refused'[r] = {} /\ status[j] = "running" /\ status'[j] = "failed")
    => attempts[j] >= Cap(jobType[j]) ]_vars

(* A job waiting for a worker has a way to reach one: its outbox row will  *)
(* be published, or a message for it is still in the topic.                *)
InTopic(j) == \E i \in 1 .. Len(topic[PartitionOf[j]]) :
  topic[PartitionOf[j]][i] = j

NoJobStranded == \A j \in JobIds :
  status[j] \in {"queued", "dispatched"} => j \in unpublished \/ InTopic(j)

(* A run belongs to one worker from its claim to its report: while a       *)
(* worker is in a run the row is running and no other worker is in it.     *)
RunIsExclusive == \A w \in Workers, j \in JobIds : LiveRun(w, j) =>
  /\ status[j] = "running"
  /\ \A v \in Workers : LiveRun(v, j) => v = w

(* The payload snapshot on a completed row is the payload the completing   *)
(* worker's handler was run with.                                          *)
SnapshotIsWhatRan == [][ \A w \in Workers, j \in JobIds :
  (/\ wpc[w] = "complete" /\ wjob[w] = j /\ wpc'[w] = "commit"
   /\ status[j] = "running" /\ status'[j] = "completed")
     => payload[j] = wpayload[w] ]_vars

(* process returns no_config only for a type without a configuration row.  *)
NoConfigMeansNoRow == [][ \A w \in Workers :
  (outcome[w] # "no_config" /\ outcome'[w] = "no_config")
    => config[jobType[wjob[w]]] = NoRow ]_vars

(* Every job in the queue ends completed or failed, which frees its type's *)
(* dedup slot.                                                             *)
EveryJobEnds == \A j \in JobIds :
  status[j] \in Active ~> status[j] \in Terminal

(* The pipeline implements the lifecycle a producer sees.                  *)
phaseOf == [j \in JobIds |->
  CASE status[j] = "absent" -> "none"
    [] status[j] \in {"queued", "dispatched"} -> "waiting"
    [] OTHER -> status[j]]

startsOf == [j \in JobIds |->
  IF status[j] \in Terminal \cup {"running"} THEN attempts[j] + 1 ELSE attempts[j]]

Lifecycle == INSTANCE JobLifecycle WITH
  Jobs <- JobIds, Types <- JobTypes, Unset <- NoType, MaxStarts <- MaxCap + 1,
  phase <- phaseOf, kind <- jobType, starts <- startsOf

ImplementsLifecycle == Lifecycle!Spec

=============================================================================
