-------------------------- MODULE ExclusionProofs --------------------------
(***************************************************************************)
(* A run belongs to one worker from its claim to its report, provided one  *)
(* reaper runs and only dead runs time out (TimelySpec).  What the worker  *)
(* then records is true: the payload snapshot of a completed row is what   *)
(* its handler ran with, and no_config means there was no row.             *)
(***************************************************************************)
EXTENDS RunProofs

(* The run of a listed or expired job has no live worker.                  *)
Dead(j) == status[j] = "running" /\ \A w \in Workers : ~LiveRun(w, j)

ListedAreDead == \A r \in Reapers : \A j \in sweep[r] \cup refused[r] :
  status[j] \in Terminal \/ Dead(j)

ExpiredAreDead == \A j \in expired : Dead(j)

SnapshotHeld == \A w \in Workers :
  wpc[w] \in {"run", "complete"} => payload[wjob[w]] = wpayload[w]

ExclusionInv ==
  TypeInv /\ RunIsExclusive /\ ListedAreDead /\ ExpiredAreDead /\ SnapshotHeld

(* Parts of the type invariant the steps below need.                       *)
LEMMA ExclusionTypes ==
  ASSUME TypeInv
  PROVE  /\ status \in [JobIds -> Statuses] /\ payload \in [JobIds -> Payloads]
         /\ expired \subseteq JobIds
         /\ wpc \in [Workers -> WorkerSteps] /\ wjob \in [Workers -> JobIds \cup {NoJob}]
         /\ wpayload \in [Workers -> Payloads]
         /\ sweep \in [Reapers -> SUBSET JobIds] /\ refused \in [Reapers -> SUBSET JobIds]
         /\ \A w \in Workers : wpc[w] # "idle" => wjob[w] \in JobIds
BY DEF TypeInv, TypeOK, WellFormed, StoreTypeOK, WorkerTypeOK, ReaperTypeOK

(* A step of no worker keeps the invariant if it ends no live run and adds *)
(* only dead runs to the reaper's lists and to the expired ones.           *)
EndsDeadRuns == \A j \in JobIds : status[j] = "running" =>
  status'[j] = "running" \/ Dead(j)
ListsDeadRuns == \A r \in Reapers : \A j \in sweep'[r] \cup refused'[r] :
  status'[j] \in Terminal \/ (status'[j] = "running" /\ Dead(j))
ExpiresDeadRuns == \A j \in expired' : status'[j] = "running" /\ Dead(j)

(* The lemma the steps below use.                                          *)
LEMMA OthersKeepRuns ==
  ASSUME ExclusionInv, UNCHANGED <<wpc, wjob, wpayload, payload>>,
         EndsDeadRuns, ListsDeadRuns, ExpiresDeadRuns
  PROVE  RunIsExclusive' /\ ListedAreDead' /\ ExpiredAreDead' /\ SnapshotHeld'
BY DEF ExclusionInv, RunIsExclusive, ListedAreDead, ExpiredAreDead, SnapshotHeld,
   Dead, LiveRun, EndsDeadRuns, ListsDeadRuns, ExpiresDeadRuns

(* Producers and dispatchers only touch rows that are not running.         *)
LEMMA WaitingStepsKeepRuns ==
  ASSUME ExclusionInv, UNCHANGED <<workerVars, reaperVars>>,
         \/ Produced
         \/ \E d \in Dispatchers : DispatcherStep(d) \/ DispatcherCrash(d)
         \/ \E d \in Dispatchers, j \in JobIds : PublishLost(d, j)
  PROVE  RunIsExclusive' /\ ListedAreDead' /\ ExpiredAreDead' /\ SnapshotHeld'
<1>1. TypeInv
  BY DEF ExclusionInv
<1>2. /\ payload' = payload /\ expired' = expired
      /\ \A j \in JobIds : \/ status'[j] = status[j]
                           \/ /\ status[j] \notin Terminal \cup {"running"}
                              /\ status'[j] # "running"
  <2>1. CASE Produced
    BY <1>1, <2>1, ExclusionTypes DEF Produced, Enqueue, InsertJob, NextId, Terminal
  <2>2. CASE \/ \E d \in Dispatchers : DispatcherStep(d) \/ DispatcherCrash(d)
             \/ \E d \in Dispatchers, j \in JobIds : PublishLost(d, j)
    BY <1>1, <2>2, ExclusionTypes DEF DispatcherStep, DispatcherCrash, FetchSelect,
       FetchCommit, Publish, PublishLost, Mark, MarkDispatched, storeVars, Terminal
  <2> QED
    BY <2>1, <2>2
<1>3. sweep' = sweep /\ refused' = refused /\ UNCHANGED <<wpc, wjob, wpayload>>
  BY DEF reaperVars, workerVars
<1>4. ListedAreDead /\ ExpiredAreDead
  BY DEF ExclusionInv
<1>5. EndsDeadRuns
  BY <1>2 DEF EndsDeadRuns
<1>6. ListsDeadRuns
  BY <1>1, <1>2, <1>3, <1>4, ExclusionTypes DEF ListedAreDead, ListsDeadRuns, Dead
<1>7. ExpiresDeadRuns
  BY <1>1, <1>2, <1>4, ExclusionTypes DEF ExpiredAreDead, ExpiresDeadRuns, Dead
<1> QED
  BY <1>2, <1>3, <1>5, <1>6, <1>7, OthersKeepRuns

(* The reaper only touches runs without a worker, one list at a time.      *)
LEMMA ReaperKeepsRuns ==
  ASSUME OneReaper, ExclusionInv, UNCHANGED workerVars, NEW r \in Reapers,
         \/ Sweep(r) \/ ReaperCrash(r)
         \/ \E j \in JobIds : Requeue(r, j) \/ RequeueRefused(r, j) \/ GiveUp(r, j)
  PROVE  RunIsExclusive' /\ ListedAreDead' /\ ExpiredAreDead' /\ SnapshotHeld'
<1>1. TypeInv /\ ListedAreDead /\ ExpiredAreDead
  BY DEF ExclusionInv
<1>2. UNCHANGED <<wpc, wjob, wpayload>> /\ \A s \in Reapers : s = r
  BY DEF workerVars, OneReaper
<1> USE <1>1, ExclusionTypes
<1>3. CASE Sweep(r)
  <2>1. /\ status' = status /\ payload' = payload /\ expired' = expired
        /\ refused' = refused
        /\ \A s \in Reapers : \A j \in sweep'[s] : j \in expired
    BY <1>2, <1>3 DEF Sweep, FindStuck, storeVars
  <2>7. EndsDeadRuns
    BY <2>1 DEF EndsDeadRuns, ListedAreDead, ExpiredAreDead, Dead
  <2>8. ListsDeadRuns
    BY <2>1 DEF ListsDeadRuns, ListedAreDead, ExpiredAreDead, Dead
  <2>9. ExpiresDeadRuns
    BY <2>1 DEF ExpiresDeadRuns, ListedAreDead, ExpiredAreDead, Dead
  <2> QED
    BY <1>2, <2>1, <2>7, <2>8, <2>9, OthersKeepRuns
<1>4. CASE ReaperCrash(r)
  <2>1. /\ status' = status /\ payload' = payload /\ expired' = expired
        /\ \A s \in Reapers : sweep'[s] = {} /\ refused'[s] = {}
    BY <1>2, <1>4 DEF ReaperCrash, storeVars
  <2>7. EndsDeadRuns
    BY <2>1 DEF EndsDeadRuns, ExpiredAreDead, Dead
  <2>8. ListsDeadRuns
    BY <2>1 DEF ListsDeadRuns, ExpiredAreDead, Dead
  <2>9. ExpiresDeadRuns
    BY <2>1 DEF ExpiresDeadRuns, ExpiredAreDead, Dead
  <2> QED
    BY <1>2, <2>1, <2>7, <2>8, <2>9, OthersKeepRuns
<1>5. ASSUME NEW j \in JobIds, Requeue(r, j)
      PROVE  RunIsExclusive' /\ ListedAreDead' /\ ExpiredAreDead' /\ SnapshotHeld'
  <2>1. /\ status[j] = "running" /\ j \in sweep[r] /\ payload' = payload
        /\ status' = [status EXCEPT ![j] = "queued"]
        /\ expired' = expired \ {j}
        /\ \A s \in Reapers : sweep'[s] = sweep[s] \ {j} /\ refused'[s] = {}
    BY <1>2, <1>5 DEF Requeue, RequeueStuck, Requeueable
  <2>2. Dead(j)
    BY <2>1 DEF ListedAreDead, Terminal
  <2>7. EndsDeadRuns
    BY <2>1, <2>2 DEF EndsDeadRuns, ListedAreDead, ExpiredAreDead, Dead
  <2>8. ListsDeadRuns
    BY <2>1, <2>2 DEF ListsDeadRuns, ListedAreDead, ExpiredAreDead, Dead
  <2>9. ExpiresDeadRuns
    BY <2>1, <2>2 DEF ExpiresDeadRuns, ListedAreDead, ExpiredAreDead, Dead
  <2> QED
    BY <1>2, <2>1, <2>7, <2>8, <2>9, OthersKeepRuns
<1>6. ASSUME NEW j \in JobIds, RequeueRefused(r, j)
      PROVE  RunIsExclusive' /\ ListedAreDead' /\ ExpiredAreDead' /\ SnapshotHeld'
  <2>1. /\ status' = status /\ payload' = payload /\ expired' = expired
        /\ \A s \in Reapers : sweep'[s] \cup refused'[s] \subseteq sweep[s]
    BY <1>2, <1>6 DEF RequeueRefused, storeVars
  <2>7. EndsDeadRuns
    BY <2>1 DEF EndsDeadRuns, ListedAreDead, ExpiredAreDead, Dead
  <2>8. ListsDeadRuns
    BY <2>1 DEF ListsDeadRuns, ListedAreDead, ExpiredAreDead, Dead
  <2>9. ExpiresDeadRuns
    BY <2>1 DEF ExpiresDeadRuns, ListedAreDead, ExpiredAreDead, Dead
  <2> QED
    BY <1>2, <2>1, <2>7, <2>8, <2>9, OthersKeepRuns
<1>7. ASSUME NEW j \in JobIds, GiveUp(r, j)
      PROVE  RunIsExclusive' /\ ListedAreDead' /\ ExpiredAreDead' /\ SnapshotHeld'
  <2>1. /\ j \in refused[r] /\ payload' = payload /\ sweep' = sweep
        /\ \A s \in Reapers : refused'[s] = {}
    BY <1>2, <1>7 DEF GiveUp, DeadLetter, GuardedUpdate, storeVars
  <2>2. CASE status[j] = "running" /\ DeadLetter(j)
    <3>1. Dead(j)
      BY <2>1, <2>2 DEF ListedAreDead, Terminal
    <3>2. status' = [status EXCEPT ![j] = "failed"] /\ expired' = expired \ {j}
      BY <2>2 DEF DeadLetter, GuardedUpdate
    <3>7. EndsDeadRuns
      BY <2>1, <3>1, <3>2 DEF EndsDeadRuns, ListedAreDead, ExpiredAreDead, Dead, Terminal
    <3>8. ListsDeadRuns
      BY <2>1, <3>1, <3>2 DEF ListsDeadRuns, ListedAreDead, ExpiredAreDead, Dead, Terminal
    <3>9. ExpiresDeadRuns
      BY <2>1, <3>1, <3>2 DEF ExpiresDeadRuns, ListedAreDead, ExpiredAreDead, Dead, Terminal
    <3> QED
      BY <1>2, <2>1, <3>7, <3>8, <3>9, OthersKeepRuns
  <2>3. CASE status' = status /\ expired' = expired
    <3>7. EndsDeadRuns
      BY <2>1, <2>3 DEF EndsDeadRuns, ListedAreDead, ExpiredAreDead, Dead
    <3>8. ListsDeadRuns
      BY <2>1, <2>3 DEF ListsDeadRuns, ListedAreDead, ExpiredAreDead, Dead
    <3>9. ExpiresDeadRuns
      BY <2>1, <2>3 DEF ExpiresDeadRuns, ListedAreDead, ExpiredAreDead, Dead
    <3> QED
      BY <1>2, <2>1, <3>7, <3>8, <3>9, OthersKeepRuns
  <2> QED
    BY <1>7, <2>2, <2>3 DEF GiveUp, DeadLetter, GuardedUpdate, storeVars
<1> QED
  BY <1>3, <1>4, <1>5, <1>6, <1>7

-----------------------------------------------------------------------------
(* What a step of worker w leaves alone: the lists, and the other workers. *)
OnlyWorker(w) ==
  /\ UNCHANGED reaperVars
  /\ \A v \in Workers \ {w} :
       wpc'[v] = wpc[v] /\ wjob'[v] = wjob[v] /\ wpayload'[v] = wpayload[v]

(* ... and the steps that start no run and write no row.                   *)
StartsNothing(w) ==
  /\ UNCHANGED <<status, payload, expired>>
  /\ wpc'[w] \in RunSteps => wpc[w] \in RunSteps /\ wjob'[w] = wjob[w]
  /\ wpc'[w] \in {"run", "complete"} =>
       wpc[w] \in {"run", "complete"} /\ wpayload'[w] = wpayload[w]

(* Such a step keeps the invariant.                                        *)
LEMMA StartingNothingKeepsRuns ==
  ASSUME ExclusionInv, NEW w \in Workers, OnlyWorker(w), StartsNothing(w)
  PROVE  RunIsExclusive' /\ ListedAreDead' /\ ExpiredAreDead' /\ SnapshotHeld'
<1>1. ASSUME NEW v \in Workers, NEW j \in JobIds, LiveRun(v, j)'
      PROVE  LiveRun(v, j)
  BY <1>1 DEF LiveRun, OnlyWorker, StartsNothing
<1>2. status' = status /\ payload' = payload /\ expired' = expired
      /\ sweep' = sweep /\ refused' = refused
  BY DEF StartsNothing, OnlyWorker, reaperVars
<1>3. \A j \in JobIds : Dead(j) => Dead(j)'
  BY <1>1, <1>2 DEF Dead
<1>4. TypeInv
  BY DEF ExclusionInv
<1>5. RunIsExclusive'
  BY <1>1, <1>2 DEF ExclusionInv, RunIsExclusive
<1>6. ListedAreDead' /\ ExpiredAreDead'
  BY <1>2, <1>3, <1>4, ExclusionTypes DEF ExclusionInv, ListedAreDead, ExpiredAreDead
<1>7. SnapshotHeld'
  BY <1>2 DEF ExclusionInv, SnapshotHeld, OnlyWorker, StartsNothing, RunSteps
<1> QED
  BY <1>5, <1>6, <1>7

(* Claiming, resolving and reporting touch the worker's own run only.      *)
LEMMA WorkerKeepsRuns ==
  ASSUME ExclusionInv, UNCHANGED reaperVars, NEW w \in Workers,
         WorkerStep(w) \/ WorkerCrash(w)
  PROVE  RunIsExclusive' /\ ListedAreDead' /\ ExpiredAreDead' /\ SnapshotHeld'
<1>1. TypeInv /\ RunIsExclusive /\ ListedAreDead /\ ExpiredAreDead /\ SnapshotHeld
  BY DEF ExclusionInv
<1> USE <1>1, ExclusionTypes
<1>2. OnlyWorker(w)
  BY DEF OnlyWorker, WorkerStep, WorkerProtocolStep, WorkerCrash, Poll, ClaimWon,
     ClaimLost, Resolve, ResolveNone, RunHandler, Report, CommitOffset,
     WorkerReset, Goto
<1>3. sweep' = sweep /\ refused' = refused
  BY DEF reaperVars
<1>4. CASE \/ \E p \in Partitions : Poll(w, p)
           \/ ClaimLost(w) \/ ResolveNone(w) \/ RunHandler(w)
           \/ CommitOffset(w) \/ WorkerCrash(w)
  <2>1. StartsNothing(w)
    BY <1>4 DEF StartsNothing, Poll, ClaimLost, ResolveNone, RunHandler,
       CommitOffset, WorkerCrash, WorkerReset, Goto, RunSteps, storeVars
  <2> QED
    BY <1>2, <2>1, StartingNothingKeepsRuns
<1> DEFINE j == wjob[w]
<1>5. CASE ClaimWon(w)
  <2>1. /\ j \in JobIds /\ status[j] \in {"queued", "dispatched"}
        /\ status' = [status EXCEPT ![j] = "running"]
        /\ expired' = expired \ {j} /\ payload' = payload
        /\ wpc'[w] = "resolve" /\ wjob'[w] = j
    BY <1>5 DEF ClaimWon, Claim, Claimable, Goto
  <2>2. \A v \in Workers : ~LiveRun(v, j)
    BY <2>1 DEF RunIsExclusive
  <2>3. \A v \in Workers, k \in JobIds : LiveRun(v, k)' =>
          \/ LiveRun(v, k) /\ k # j
          \/ v = w /\ k = j
    BY <1>2, <2>1, <2>2 DEF LiveRun, OnlyWorker
  <2>4. \A k \in JobIds : Dead(k) => k # j /\ Dead(k)'
    BY <2>1, <2>3 DEF Dead
  <2>5. RunIsExclusive'
    BY <2>1, <2>3 DEF RunIsExclusive
  <2>6. ListedAreDead' /\ ExpiredAreDead'
    BY <1>3, <2>1, <2>4 DEF ListedAreDead, ExpiredAreDead, Terminal
  <2>7. SnapshotHeld'
    BY <1>2, <2>1 DEF SnapshotHeld, OnlyWorker
  <2> QED
    BY <2>5, <2>6, <2>7
<1>6. CASE Resolve(w)
  <2>1. /\ j \in JobIds /\ LiveRun(w, j)
        /\ status' = status /\ expired' = expired \ {j}
        /\ \A k \in JobIds \ {j} : payload'[k] = payload[k]
        /\ wpc'[w] \in {"run", "fail"} /\ wjob'[w] = j
        /\ wpayload'[w] = payload'[j]
    BY <1>6 DEF Resolve, ResolvePayload, Goto, LiveRun, RunSteps
  <2>2. \A v \in Workers \ {w} : ~LiveRun(v, j)
    BY <2>1 DEF RunIsExclusive
  <2>3. \A v \in Workers, k \in JobIds : LiveRun(v, k)' => LiveRun(v, k)
    BY <1>2, <2>1 DEF LiveRun, OnlyWorker
  <2>4. \A k \in JobIds : Dead(k) => Dead(k)'
    BY <2>1, <2>3 DEF Dead
  <2>5. RunIsExclusive'
    BY <2>1, <2>3 DEF RunIsExclusive
  <2>6. ListedAreDead' /\ ExpiredAreDead'
    BY <1>3, <2>1, <2>4 DEF ListedAreDead, ExpiredAreDead
  <2>7. SnapshotHeld'
    BY <1>2, <2>1, <2>2 DEF SnapshotHeld, OnlyWorker, LiveRun, RunSteps
  <2> QED
    BY <2>5, <2>6, <2>7
<1>7. CASE Report(w)
  <2>1. /\ j \in JobIds /\ LiveRun(w, j)
        /\ wpc'[w] = "commit"
    BY <1>7 DEF Report, Goto, LiveRun, RunSteps
  <2>2. status[j] = "running" /\ \A v \in Workers \ {w} : ~LiveRun(v, j)
    BY <2>1 DEF RunIsExclusive
  <2>3. /\ \E to \in Terminal : status' = [status EXCEPT ![j] = to]
        /\ expired' = expired \ {j} /\ payload' = payload
    BY <1>7, <2>2 DEF Report, Complete, Fail, GuardedUpdate, Terminal
  <2>4. \A v \in Workers, k \in JobIds : LiveRun(v, k)' => LiveRun(v, k) /\ k # j
    BY <1>2, <2>1, <2>2 DEF LiveRun, OnlyWorker, RunSteps
  <2>5. \A k \in JobIds : Dead(k) => k # j /\ Dead(k)'
    BY <2>1, <2>3, <2>4 DEF Dead
  <2>6. RunIsExclusive'
    BY <2>3, <2>4 DEF RunIsExclusive
  <2>7. ListedAreDead' /\ ExpiredAreDead'
    BY <1>3, <2>3, <2>5 DEF ListedAreDead, ExpiredAreDead
  <2>8. SnapshotHeld'
    BY <1>2, <2>1, <2>3 DEF SnapshotHeld, OnlyWorker
  <2> QED
    BY <2>6, <2>7, <2>8
<1> QED
  BY <1>4, <1>5, <1>6, <1>7 DEF WorkerStep, WorkerProtocolStep

(* Every step of TimelySpec keeps the invariant.                           *)
LEMMA TimelyStep ==
  ASSUME OneReaper, ExclusionInv, [TimelyNext]_vars
  PROVE  ExclusionInv'
<1>1. TypeInv
  BY DEF ExclusionInv
<1>2. [Next]_vars
  BY DEF TimelyNext
<1>3. TypeInv'
  BY <1>1, <1>2, NextType
<1> SUFFICES RunIsExclusive' /\ ListedAreDead' /\ ExpiredAreDead' /\ SnapshotHeld'
  BY <1>3 DEF ExclusionInv
<1>4. CASE Produced \/ (\E d \in Dispatchers : Dispatched(d)) \/ MessageLost
  BY <1>4, WaitingStepsKeepRuns DEF Produced, Dispatched, MessageLost
<1>5. CASE \E w \in Workers : Protocol(w) \/ Handled(w)
  BY <1>5, WorkerKeepsRuns DEF Protocol, Handled, WorkerStep
<1>6. CASE \E r \in Reapers : Reaped(r)
  BY <1>6, ReaperKeepsRuns DEF Reaped
<1>7. CASE Crashed
  <2>1. CASE \E d \in Dispatchers : DispatcherCrash(d)
                                    /\ UNCHANGED <<workerVars, reaperVars>>
    BY <2>1, WaitingStepsKeepRuns
  <2>2. CASE \E w \in Workers : WorkerCrash(w)
                                /\ UNCHANGED <<dispatcherVars, reaperVars>>
    BY <2>2, WorkerKeepsRuns
  <2>3. CASE \E r \in Reapers : ReaperCrash(r)
               /\ UNCHANGED <<kafkaVars, dispatcherVars, workerVars>>
    BY <2>3, ReaperKeepsRuns
  <2> QED
    BY <1>7, <2>1, <2>2, <2>3 DEF Crashed
<1>8. CASE TimelyNext /\ \E j \in JobIds : TimePasses(j)
  <2>1. PICK j \in JobIds : TimePasses(j)
    BY <1>8
  <2>2. /\ status[j] = "running" /\ j \notin expired
        /\ expired' = expired \cup {j} /\ status' = status /\ payload' = payload
        /\ UNCHANGED <<wpc, wjob, wpayload, sweep, refused>>
    BY <2>1 DEF TimePasses, Expire, workerVars, reaperVars
  <2>3. Dead(j)
    BY <1>8, <2>2 DEF TimelyNext, Dead
  <2>4. EndsDeadRuns /\ ListsDeadRuns
    BY <1>1, <2>2, ExclusionTypes
       DEF ExclusionInv, ListedAreDead, EndsDeadRuns, ListsDeadRuns, Dead
  <2>5. ExpiresDeadRuns
    BY <1>1, <2>2, <2>3, ExclusionTypes
       DEF ExclusionInv, ExpiredAreDead, ExpiresDeadRuns, Dead
  <2> QED
    BY <2>2, <2>4, <2>5, OthersKeepRuns
<1>9. CASE Configured \/ Rebalanced \/ UNCHANGED vars
  <2>1. UNCHANGED <<status, payload, expired, wpc, wjob, wpayload, sweep, refused>>
    BY <1>9 DEF Configured, SetTypeConfig, Rebalanced, vars, storeVars, workerVars,
       reaperVars
  <2>2. EndsDeadRuns /\ ListsDeadRuns /\ ExpiresDeadRuns
    BY <1>1, <2>1, ExclusionTypes DEF ExclusionInv, ListedAreDead, ExpiredAreDead,
       EndsDeadRuns, ListsDeadRuns, ExpiresDeadRuns, Dead
  <2> QED
    BY <2>1, <2>2, OthersKeepRuns
<1> QED
  BY <1>4, <1>5, <1>6, <1>7, <1>8, <1>9 DEF TimelyNext, Next, StaticNext

(* It holds throughout.                                                    *)
LEMMA ExclusionInvariant ==
  ASSUME OneReaper
  PROVE  TimelySpec => []ExclusionInv
<1>1. Init => ExclusionInv
  BY InitType DEF Init, StoreInit, WorkerInit, ReaperInit, ExclusionInv,
     RunIsExclusive, ListedAreDead, ExpiredAreDead, SnapshotHeld, LiveRun, RunSteps
<1>2. ExclusionInv /\ [TimelyNext]_vars => ExclusionInv'
  BY TimelyStep
<1> QED
  BY <1>1, <1>2, PTL DEF TimelySpec

(* With one reaper, and with no run outliving its run_timeout, a claimed   *)
(* row is running and its worker's alone until the worker reports, whoever *)
(* crashes, is revoked or receives the message again.                      *)
THEOREM RunsAreExclusive ==
  ASSUME OneReaper
  PROVE  TimelySpec => []RunIsExclusive
<1>1. ExclusionInv => RunIsExclusive
  BY DEF ExclusionInv
<1> QED
  BY <1>1, ExclusionInvariant, PTL

(* Under the same assumptions the payload recorded on a completed row is   *)
(* the one the completing worker's handler was called with.                *)
THEOREM SnapshotsAreTrue ==
  ASSUME OneReaper
  PROVE  TimelySpec => SnapshotIsWhatRan
<1> DEFINE Ran == \A w \in Workers, j \in JobIds :
             (/\ wpc[w] = "complete" /\ wjob[w] = j /\ wpc'[w] = "commit"
              /\ status[j] = "running" /\ status'[j] = "completed")
                => payload[j] = wpayload[w]
<1>1. ExclusionInv => [Ran]_vars
  BY DEF ExclusionInv, SnapshotHeld
<1> HIDE DEF Ran
<1>2. TimelySpec => [][Ran]_vars
  BY <1>1, ExclusionInvariant, PTL DEF TimelySpec
<1> QED
  BY <1>2 DEF Ran, SnapshotIsWhatRan

(* Under the same assumptions process answers no_config only for a type    *)
(* that has no job_type_config row.                                        *)
THEOREM NoConfigIsTrue ==
  ASSUME OneReaper
  PROVE  TimelySpec => NoConfigMeansNoRow
<1> DEFINE NoRowThen == \A w \in Workers :
             (outcome[w] # "no_config" /\ outcome'[w] = "no_config")
               => config[jobType[wjob[w]]] = NoRow
<1>1. ASSUME ExclusionInv, [TimelyNext]_vars PROVE [NoRowThen]_vars
  <2>1. SUFFICES ASSUME NEW w \in Workers, outcome[w] # "no_config",
                        outcome'[w] = "no_config"
                 PROVE  config[jobType[wjob[w]]] = NoRow
    OBVIOUS
  <2>2. ResolveNone(w)
    <3>1. outcome' # outcome
      BY <2>1
    <3>2. outcome \in [Workers -> Outcomes]
      BY <1>1 DEF ExclusionInv, TypeInv, TypeOK, WorkerTypeOK
    <3>3. CASE \E v \in Workers : Protocol(v) \/ Handled(v)
      BY <2>1, <3>2, <3>3 DEF Protocol, Handled, WorkerProtocolStep, Poll, ClaimWon,
         ClaimLost, Resolve, ResolveNone, RunHandler, Report, CommitOffset,
         WorkerReset, Goto
    <3>4. CASE Crashed
      BY <2>1, <3>2, <3>4 DEF Crashed, WorkerCrash, WorkerReset, workerVars
    <3> QED
      BY <1>1, <3>1, <3>3, <3>4 DEF TimelyNext, Next, StaticNext, Produced, Dispatched,
         Reaped, TimePasses, Configured, Rebalanced, MessageLost, vars, workerVars
  <2>3. wjob[w] \in JobIds /\ LiveRun(w, wjob[w])
    BY <1>1, <2>2, ExclusionTypes DEF ExclusionInv, ResolveNone, LiveRun, RunSteps
  <2> QED
    BY <1>1, <2>2, <2>3 DEF ExclusionInv, RunIsExclusive, ResolveNone, Resolvable
<1> HIDE DEF NoRowThen
<1>2. TimelySpec => [][NoRowThen]_vars
  BY <1>1, ExclusionInvariant, PTL DEF TimelySpec
<1> QED
  BY <1>2 DEF NoRowThen, NoConfigMeansNoRow

=============================================================================
