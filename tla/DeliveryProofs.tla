--------------------------- MODULE DeliveryProofs ---------------------------
(***************************************************************************)
(* No job is stranded: under ReliableSpec every queued or dispatched job   *)
(* has a publishable outbox row or a message in the topic.  The inductive  *)
(* invariant is WaitingHasMessage together with two facts about how the    *)
(* broker's state, the workers' and the dispatchers' fit together.         *)
(***************************************************************************)
EXTENDS OrchestratorProofs

(* The inductive form: the message has not been used for a claim yet, and  *)
(* a dispatcher about to mark a waiting job's row has such a message.      *)
Unclaimed(j) == \E i \in 1 .. Len(topic[PartitionOf[j]]) :
  /\ topic[PartitionOf[j]][i] = j
  /\ i = 1 => \/ inflight[PartitionOf[j]] = NoWorker
              \/ wpc[inflight[PartitionOf[j]]] = "claim"

WaitingHasMessage == \A j \in JobIds : status[j] \in {"queued", "dispatched"} =>
  /\ j \in unpublished \/ Unclaimed(j)
  /\ InMarkWindow(j) => Unclaimed(j)

(* A consumer that has read a partition's head is working on that message, *)
(* and a partition holds only its own jobs' messages.                      *)
PositionsAgree ==
  /\ \A p \in Partitions : \A w \in Workers : inflight[p] = w =>
       /\ wpc[w] # "idle"
       /\ wjob[w] = topic[p][1]
       /\ PartitionOf[wjob[w]] = p
  /\ \A p \in Partitions : \A i \in 1 .. Len(topic[p]) :
       PartitionOf[topic[p][i]] = p

(* Outbox rows, and the rows in a dispatcher's batch, belong to jobs.      *)
RowsHaveJobs ==
  /\ \A j \in unpublished : status[j] # "absent"
  /\ \A d \in Dispatchers : \A j \in batch[d] : status[j] # "absent"

DeliveryInv == TypeInv /\ PositionsAgree /\ RowsHaveJobs /\ WaitingHasMessage

-----------------------------------------------------------------------------
(* Once published and not yet used for a claim, a message survives every   *)
(* step of the broker and the workers except the claim that uses it.       *)

(* publish of any job keeps the messages that are there and adds its own.  *)
LEMMA ProduceDelivers ==
  ASSUME TypeInv, PositionsAgree, NEW k \in JobIds, Produce(k),
         UNCHANGED <<wpc, wjob>>
  PROVE  /\ Unclaimed(k)'
         /\ \A j \in JobIds : Unclaimed(j) => Unclaimed(j)'
         /\ PositionsAgree'
<1> DEFINE p == PartitionOf[k]
           q == topic[p]
<1>1. KafkaWF /\ PartitionOf \in [JobIds -> Partitions]
  BY TypeInvParts, OrchestratorAssumption
<1>2. p \in Partitions /\ q \in Seq(JobIds)
  BY <1>1 DEF KafkaWF
<1>3. /\ topic' = [topic EXCEPT ![p] = Append(q, k)]
      /\ inflight' = inflight /\ wpc' = wpc /\ wjob' = wjob
  BY DEF Produce
<1>4. /\ Append(q, k) \in Seq(JobIds)
      /\ Len(Append(q, k)) = Len(q) + 1
      /\ Append(q, k)[Len(q) + 1] = k
      /\ \A i \in 1 .. Len(q) : Append(q, k)[i] = q[i]
      /\ Len(q) \in Nat
      /\ q # << >> => Len(q) > 0
  BY <1>2
<1>5. \A r \in Partitions : r # p => topic'[r] = topic[r]
  BY <1>1, <1>3 DEF KafkaWF
<1>6. topic'[p] = Append(q, k)
  BY <1>1, <1>2, <1>3 DEF KafkaWF
<1>7. Unclaimed(k)'
  <2>1. Len(q) + 1 = 1 => inflight[p] = NoWorker
    BY <1>1, <1>2, <1>4 DEF KafkaWF
  <2> QED
    BY <1>3, <1>4, <1>6, <2>1 DEF Unclaimed
<1>8. ASSUME NEW j \in JobIds, Unclaimed(j) PROVE Unclaimed(j)'
  <2>1. CASE PartitionOf[j] = p
    BY <1>3, <1>4, <1>6, <1>8, <2>1 DEF Unclaimed
  <2>2. CASE PartitionOf[j] # p
    BY <1>1, <1>3, <1>5, <1>8, <2>2 DEF Unclaimed
  <2> QED
    BY <2>1, <2>2
<1>9. PositionsAgree'
  <2>1. ASSUME NEW r \in Partitions, NEW i \in 1 .. Len(topic'[r])
        PROVE  PartitionOf[topic'[r][i]] = r
    <3>1. CASE r # p
      BY <1>5, <2>1, <3>1 DEF PositionsAgree
    <3>2. CASE r = p /\ i = Len(q) + 1
      BY <1>4, <1>6, <3>2
    <3>3. CASE r = p /\ i # Len(q) + 1
      <4>1. i \in 1 .. Len(q)
        BY <1>4, <1>6, <2>1, <3>3
      <4>2. topic'[r][i] = topic[p][i]
        BY <1>4, <1>6, <3>3, <4>1
      <4>3. PartitionOf[topic[p][i]] = p
        BY <1>2, <4>1 DEF PositionsAgree
      <4> QED
        BY <3>3, <4>2, <4>3
    <3> QED
      BY <3>1, <3>2, <3>3
  <2>2. ASSUME NEW r \in Partitions, NEW w \in Workers, inflight'[r] = w
        PROVE  wpc'[w] # "idle" /\ wjob'[w] = topic'[r][1] /\ PartitionOf[wjob'[w]] = r
    <3>1. wpc[w] # "idle" /\ wjob[w] = topic[r][1] /\ PartitionOf[wjob[w]] = r
      BY <1>3, <2>2 DEF PositionsAgree
    <3>2. topic'[r][1] = topic[r][1]
      <4>1. topic[r] # << >>
        BY <1>1, <1>3, <2>2, KafkaAssumption DEF KafkaWF
      <4> QED
        BY <1>4, <1>5, <1>6, <4>1
    <3> QED
      BY <1>3, <3>1, <3>2
  <2> QED
    BY <2>1, <2>2 DEF PositionsAgree
<1> QED
  BY <1>7, <1>8, <1>9

(* A worker step that neither reads nor commits: only the message in hand  *)
(* can stop counting, and then its job is no longer waiting.               *)
LEMMA StepInHand ==
  ASSUME TypeInv, PositionsAgree, NEW w \in Workers, wpc[w] # "idle",
         UNCHANGED kafkaVars, UNCHANGED wjob,
         NEW step \in WorkerSteps \ {"idle"}, wpc' = [wpc EXCEPT ![w] = step]
  PROVE  /\ PositionsAgree'
         /\ \A j \in JobIds : (Unclaimed(j) /\ (wpc[w] = "claim" => j # wjob[w]))
                               => Unclaimed(j)'
<1>1. wpc \in [Workers -> WorkerSteps] /\ PartitionOf \in [JobIds -> Partitions]
  BY OrchestratorAssumption DEF TypeInv, TypeOK, WorkerTypeOK
<1>2. inflight \in [Partitions -> Workers \cup {NoWorker}]
  BY DEF TypeInv, TypeOK
<1>3. topic' = topic /\ inflight' = inflight /\ wjob' = wjob
  BY DEF kafkaVars
<1>4. PositionsAgree'
  BY <1>1, <1>3 DEF PositionsAgree, WorkerSteps
<1>5. ASSUME NEW j \in JobIds, Unclaimed(j), wpc[w] = "claim" => j # wjob[w]
      PROVE  Unclaimed(j)'
  <2> DEFINE p == PartitionOf[j]
  <2>1. p \in Partitions
    BY <1>1
  <2>2. PICK i \in 1 .. Len(topic[p]) :
          /\ topic[p][i] = j
          /\ i = 1 => inflight[p] = NoWorker \/ wpc[inflight[p]] = "claim"
    BY <1>5 DEF Unclaimed
  <2>3. ASSUME i = 1, inflight[p] = w PROVE FALSE
    <3>1. wjob[w] = topic[p][1] /\ wpc[w] = "claim"
      BY <2>1, <2>2, <2>3, KafkaAssumption DEF PositionsAgree
    <3> QED
      BY <1>5, <2>2, <2>3, <3>1
  <2>4. i = 1 => inflight'[p] = NoWorker \/ wpc'[inflight'[p]] = "claim"
    BY <1>1, <1>2, <1>3, <2>1, <2>2, <2>3
  <2> QED
    BY <1>3, <2>2, <2>4 DEF Unclaimed
<1> QED
  BY <1>4, <1>5

(* Reading a partition's head uses no message up.                          *)
LEMMA PollDelivers ==
  ASSUME TypeInv, PositionsAgree, NEW w \in Workers, NEW p \in Partitions, Poll(w, p)
  PROVE  PositionsAgree' /\ \A j \in JobIds : Unclaimed(j) => Unclaimed(j)'
<1>1. /\ wpc \in [Workers -> WorkerSteps] /\ PartitionOf \in [JobIds -> Partitions]
      /\ wjob \in [Workers -> JobIds \cup {NoJob}]
      /\ inflight \in [Partitions -> Workers \cup {NoWorker}]
      /\ topic \in [Partitions -> Seq(JobIds)]
  BY OrchestratorAssumption DEF TypeInv, TypeOK, WorkerTypeOK
<1>2. /\ wpc[w] = "idle" /\ inflight[p] = NoWorker /\ topic[p] # << >>
      /\ topic' = topic
      /\ inflight' = [inflight EXCEPT ![p] = w]
      /\ wpc' = [wpc EXCEPT ![w] = "claim"]
      /\ wjob' = [wjob EXCEPT ![w] = Head(topic[p])]
  BY DEF Poll, Deliver, Goto
<1>3. Head(topic[p]) = topic[p][1] /\ 1 \in 1 .. Len(topic[p])
  BY <1>1, <1>2
<1>4. \A r \in Partitions : inflight[r] # w
  BY <1>2 DEF PositionsAgree
<1>5. ASSUME NEW r \in Partitions, NEW v \in Workers, inflight'[r] = v
      PROVE  wpc'[v] # "idle" /\ wjob'[v] = topic'[r][1] /\ PartitionOf[wjob'[v]] = r
  <2>1. CASE r = p
    <3>1. v = w /\ wpc'[v] = "claim" /\ wjob'[v] = topic[r][1]
      BY <1>1, <1>2, <1>3, <1>5, <2>1
    <3>2. PartitionOf[topic[r][1]] = r
      BY <1>3, <2>1 DEF PositionsAgree
    <3> QED
      BY <1>2, <3>1, <3>2
  <2>2. CASE r # p
    <3>1. inflight[r] = v /\ v # w
      BY <1>1, <1>2, <1>4, <1>5, <2>2
    <3>2. wpc'[v] = wpc[v] /\ wjob'[v] = wjob[v]
      BY <1>1, <1>2, <3>1
    <3> QED
      BY <1>2, <3>1, <3>2 DEF PositionsAgree
  <2> QED
    BY <2>1, <2>2
<1>6. PositionsAgree'
  BY <1>2, <1>5 DEF PositionsAgree
<1>7. ASSUME NEW j \in JobIds, Unclaimed(j) PROVE Unclaimed(j)'
  <2>1. \A r \in Partitions :
          (inflight[r] = NoWorker \/ wpc[inflight[r]] = "claim")
            => wpc'[inflight'[r]] = "claim" \/ inflight'[r] = NoWorker
    BY <1>1, <1>2
  <2> QED
    BY <1>1, <1>2, <1>7, <2>1 DEF Unclaimed
<1> QED
  BY <1>6, <1>7

(* A worker lets go of its job and the partitions it had read: nothing it  *)
(* read is lost.                                                           *)
LEMMA ReleaseDelivers ==
  ASSUME TypeInv, PositionsAgree, NEW w \in Workers, WorkerReset(w),
         UNCHANGED topic, inflight' \in [Partitions -> Workers \cup {NoWorker}],
         \A p \in Partitions : \/ inflight'[p] = inflight[p] /\ inflight[p] # w
                              \/ inflight'[p] = NoWorker
  PROVE  PositionsAgree' /\ \A j \in JobIds : Unclaimed(j) => Unclaimed(j)'
<1>1. /\ wpc \in [Workers -> WorkerSteps] /\ PartitionOf \in [JobIds -> Partitions]
      /\ wjob \in [Workers -> JobIds \cup {NoJob}]
      /\ inflight \in [Partitions -> Workers \cup {NoWorker}]
  BY OrchestratorAssumption DEF TypeInv, TypeOK, WorkerTypeOK
<1>2. \A v \in Workers : v # w => wpc'[v] = wpc[v] /\ wjob'[v] = wjob[v]
  BY <1>1 DEF WorkerReset
<1>3. PositionsAgree'
  BY <1>1, <1>2, KafkaAssumption DEF PositionsAgree
<1>4. ASSUME NEW j \in JobIds, Unclaimed(j) PROVE Unclaimed(j)'
  <2>1. \A p \in Partitions :
          (inflight[p] = NoWorker \/ wpc[inflight[p]] = "claim")
            => wpc'[inflight'[p]] = "claim" \/ inflight'[p] = NoWorker
    BY <1>1, <1>2
  <2> QED
    BY <1>1, <1>4, <2>1 DEF Unclaimed
<1> QED
  BY <1>3, <1>4

(* Committing removes the message in hand, which no longer counted.        *)
LEMMA CommitDelivers ==
  ASSUME TypeInv, PositionsAgree, NEW w \in Workers, CommitOffset(w)
  PROVE  PositionsAgree' /\ \A j \in JobIds : Unclaimed(j) => Unclaimed(j)'
<1> DEFINE p == PartitionOf[wjob[w]]
<1>1. /\ wpc \in [Workers -> WorkerSteps] /\ PartitionOf \in [JobIds -> Partitions]
      /\ wjob \in [Workers -> JobIds \cup {NoJob}]
      /\ inflight \in [Partitions -> Workers \cup {NoWorker}]
      /\ topic \in [Partitions -> Seq(JobIds)]
  BY OrchestratorAssumption DEF TypeInv, TypeOK, WorkerTypeOK
<1>2. wpc[w] = "commit" /\ p \in Partitions
  BY <1>1 DEF CommitOffset, TypeInv, WellFormed
<1>3. \A r \in Partitions : r # p => inflight[r] # w
  BY DEF PositionsAgree
<1>4. CASE inflight[p] # w /\ UNCHANGED kafkaVars
  <2>1. WorkerReset(w) /\ topic' = topic /\ inflight' = inflight
    BY <1>4 DEF CommitOffset, kafkaVars
  <2> QED
    BY <1>1, <1>3, <1>4, <2>1, ReleaseDelivers
<1>5. CASE Acknowledge(w, p)
  <2>1. /\ inflight[p] = w
        /\ topic' = [topic EXCEPT ![p] = Tail(topic[p])]
        /\ inflight' = [inflight EXCEPT ![p] = NoWorker]
        /\ topic[p] # << >>
    BY <1>2, <1>5, KafkaAssumption DEF Acknowledge, TypeInv, WellFormed
  <2>2. /\ Len(topic[p]) \in Nat /\ Len(topic[p]) > 0
        /\ Len(Tail(topic[p])) = Len(topic[p]) - 1
        /\ \A i \in 1 .. Len(topic[p]) - 1 : Tail(topic[p])[i] = topic[p][i + 1]
    BY <1>1, <1>2, <2>1
  <2>3. topic'[p] = Tail(topic[p]) /\ \A r \in Partitions : r # p => topic'[r] = topic[r]
    BY <1>1, <1>2, <2>1
  <2>4. inflight'[p] = NoWorker /\ \A r \in Partitions : r # p => inflight'[r] = inflight[r]
    BY <1>1, <1>2, <2>1
  <2>5. \A v \in Workers : v # w => wpc'[v] = wpc[v] /\ wjob'[v] = wjob[v]
    BY <1>1 DEF CommitOffset, WorkerReset
  <2> HIDE DEF p
  <2>6. ASSUME NEW r \in Partitions, NEW v \in Workers, inflight'[r] = v
        PROVE  wpc'[v] # "idle" /\ wjob'[v] = topic'[r][1] /\ PartitionOf[wjob'[v]] = r
    <3>1. r # p /\ inflight[r] = v /\ v # w
      BY <1>3, <2>4, <2>6, KafkaAssumption
    <3> QED
      BY <2>3, <2>5, <3>1 DEF PositionsAgree
  <2>7. ASSUME NEW r \in Partitions, NEW i \in 1 .. Len(topic'[r])
        PROVE  PartitionOf[topic'[r][i]] = r
    <3>1. CASE r # p
      BY <2>3, <2>7, <3>1 DEF PositionsAgree
    <3>2. CASE r = p
      <4>0. i \in 1 .. Len(topic[p]) - 1
        <5>1. Len(topic'[r]) = Len(topic[p]) - 1
          BY <2>2, <2>3, <3>2
        <5> QED
          BY <5>1
      <4>1. i + 1 \in 1 .. Len(topic[p])
        BY <2>2, <4>0
      <4>2. topic'[r] = Tail(topic[p])
        BY <2>3, <3>2
      <4>3. topic'[r][i] = topic[p][i + 1]
        BY <2>2, <4>0, <4>2
      <4> QED
        BY <1>2, <3>2, <4>1, <4>3 DEF PositionsAgree
    <3> QED
      BY <3>1, <3>2
  <2>8. ASSUME NEW j \in JobIds, Unclaimed(j) PROVE Unclaimed(j)'
    <3>1. CASE PartitionOf[j] = p
      <4>1. PICK i \in 1 .. Len(topic[p]) :
              /\ topic[p][i] = j
              /\ i = 1 => inflight[p] = NoWorker \/ wpc[inflight[p]] = "claim"
        BY <2>8, <3>1 DEF Unclaimed
      <4>2. i # 1
        BY <1>2, <2>1, <4>1, KafkaAssumption
      <4>3. i - 1 \in 1 .. Len(topic'[p]) /\ topic'[p][i - 1] = j
        BY <2>2, <2>3, <4>1, <4>2
      <4> QED
        BY <2>4, <3>1, <4>3 DEF Unclaimed
    <3>2. CASE PartitionOf[j] # p
      <4>1. PartitionOf[j] \in Partitions
        BY <1>1
      <4>2. inflight[PartitionOf[j]] # w
        BY <1>3, <3>2, <4>1
      <4>3. \/ inflight[PartitionOf[j]] = NoWorker
            \/ wpc'[inflight[PartitionOf[j]]] = wpc[inflight[PartitionOf[j]]]
        BY <1>1, <2>5, <4>1, <4>2
      <4> QED
        BY <2>3, <2>4, <2>8, <3>2, <4>1, <4>3 DEF Unclaimed
    <3> QED
      BY <3>1, <3>2
  <2> QED
    BY <2>6, <2>7, <2>8 DEF PositionsAgree
<1> QED
  BY <1>4, <1>5 DEF CommitOffset

(* A rebalance gives read messages back.                                   *)
LEMMA RevokeDelivers ==
  ASSUME TypeInv, PositionsAgree, NEW p \in Partitions, Revoke(p),
         UNCHANGED <<wpc, wjob>>
  PROVE  PositionsAgree' /\ \A j \in JobIds : Unclaimed(j) => Unclaimed(j)'
<1>1. /\ PartitionOf \in [JobIds -> Partitions]
      /\ inflight \in [Partitions -> Workers \cup {NoWorker}]
  BY OrchestratorAssumption DEF TypeInv, TypeOK
<1>2. topic' = topic /\ inflight' = [inflight EXCEPT ![p] = NoWorker]
  BY DEF Revoke
<1>3. PositionsAgree'
  BY <1>1, <1>2, KafkaAssumption DEF PositionsAgree
<1>4. ASSUME NEW j \in JobIds, Unclaimed(j) PROVE Unclaimed(j)'
  BY <1>1, <1>2, <1>4 DEF Unclaimed
<1> QED
  BY <1>3, <1>4

-----------------------------------------------------------------------------
Waiting == {"queued", "dispatched"}

(* A step keeps WaitingHasMessage if it makes no job wait, takes no row    *)
(* and no unused message from a waiting job and opens no mark window.      *)
LEMMA KeepsWaiting ==
  ASSUME WaitingHasMessage,
         \A j \in JobIds : status'[j] \in Waiting =>
           /\ status[j] \in Waiting
           /\ j \in unpublished => j \in unpublished'
           /\ Unclaimed(j) => Unclaimed(j)'
           /\ InMarkWindow(j)' => InMarkWindow(j)
  PROVE  WaitingHasMessage'
BY DEF WaitingHasMessage, Waiting

(* Nothing happens to messages when neither Kafka nor the workers move.    *)
LEMMA MessagesUnchanged ==
  ASSUME UNCHANGED <<topic, inflight, wpc, wjob>>
  PROVE  /\ PositionsAgree => PositionsAgree'
         /\ \A j \in JobIds : Unclaimed(j) <=> Unclaimed(j)'
BY DEF PositionsAgree, Unclaimed

(* The dispatcher's steps, none of which loses a message.                  *)
LEMMA DispatcherDelivers ==
  ASSUME DeliveryInv, NEW d \in Dispatchers,
         DispatcherStep(d) \/ DispatcherCrash(d), UNCHANGED workerVars
  PROVE  PositionsAgree' /\ RowsHaveJobs' /\ WaitingHasMessage'
<1>1. TypeInv /\ PositionsAgree /\ RowsHaveJobs /\ WaitingHasMessage
  BY DEF DeliveryInv
<1>2. /\ dpc \in [Dispatchers -> DispatcherSteps]
      /\ batch \in [Dispatchers -> SUBSET JobIds]
      /\ StoreTypeOK
  BY <1>1 DEF TypeInv, TypeOK, DispatcherTypeOK
<1>3. wpc' = wpc /\ wjob' = wjob
  BY DEF workerVars
<1>4. CASE FetchSelect(d)
  <2> DEFINE rows == FetchUnpublished(Locked(Dispatchers \ {d}), BatchSize)
  <2>1. /\ status' = status /\ unpublished' = unpublished
        /\ topic' = topic /\ inflight' = inflight
        /\ batch' = [batch EXCEPT ![d] = rows]
        /\ dpc' = [dpc EXCEPT ![d] = "fetching"]
    BY <1>4 DEF FetchSelect, storeVars, kafkaVars
  <2>2. rows \subseteq unpublished
    BY DEF FetchUnpublished
  <2> HIDE DEF rows
  <2>3. RowsHaveJobs'
    BY <1>1, <1>2, <2>1, <2>2 DEF RowsHaveJobs
  <2>4. \A j \in JobIds : InMarkWindow(j)' => InMarkWindow(j)
    BY <1>2, <2>1 DEF InMarkWindow, Current
  <2> QED
    BY <1>1, <1>3, <2>1, <2>3, <2>4, MessagesUnchanged, KeepsWaiting
<1>5. CASE FetchCommit(d)
  <2>1. /\ status' = status /\ unpublished' = unpublished
        /\ topic' = topic /\ inflight' = inflight /\ batch' = batch
        /\ dpc' = [dpc EXCEPT ![d] = "publish"]
    BY <1>5 DEF FetchCommit, storeVars, kafkaVars
  <2>2. RowsHaveJobs'
    BY <1>1, <2>1 DEF RowsHaveJobs
  <2>3. \A j \in JobIds : InMarkWindow(j)' => InMarkWindow(j)
    BY <1>2, <2>1 DEF InMarkWindow, Current
  <2> QED
    BY <1>1, <1>3, <2>1, <2>2, <2>3, MessagesUnchanged, KeepsWaiting
<1>6. ASSUME NEW k \in JobIds, Publish(d, k)
      PROVE  PositionsAgree' /\ RowsHaveJobs' /\ WaitingHasMessage'
  <2>1. /\ status' = status /\ unpublished' = unpublished /\ batch' = batch
        /\ Produce(k) /\ Current(d, k)
        /\ dpc' = [dpc EXCEPT ![d] = "mark"]
    BY <1>6 DEF Publish, storeVars
  <2>2. /\ PositionsAgree' /\ Unclaimed(k)'
        /\ \A j \in JobIds : Unclaimed(j) => Unclaimed(j)'
    BY <1>1, <1>3, <2>1, ProduceDelivers
  <2>3. RowsHaveJobs'
    BY <1>1, <2>1 DEF RowsHaveJobs
  <2>4. ASSUME NEW j \in JobIds, InMarkWindow(j)' PROVE InMarkWindow(j) \/ j = k
    <3>1. PICK e \in Dispatchers : dpc'[e] = "mark" /\ Current(e, j)
      BY <2>1, <2>4 DEF InMarkWindow, Current
    <3>2. CASE e = d
      <4>1. j \in Nat /\ k \in Nat
        BY StoreAssumption
      <4> QED
        BY <2>1, <3>1, <3>2, <4>1 DEF Current
    <3>3. CASE e # d
      BY <1>2, <2>1, <3>1, <3>3 DEF InMarkWindow
    <3> QED
      BY <3>2, <3>3
  <2> QED
    BY <1>1, <2>1, <2>2, <2>3, <2>4 DEF WaitingHasMessage
<1>7. ASSUME NEW k \in JobIds, Mark(d, k)
      PROVE  PositionsAgree' /\ RowsHaveJobs' /\ WaitingHasMessage'
  <2>1. /\ unpublished' = unpublished \ {k}
        /\ topic' = topic /\ inflight' = inflight
        /\ dpc[d] = "mark" /\ Current(d, k)
        /\ batch' = [batch EXCEPT ![d] = @ \ {k}]
        /\ dpc' = [dpc EXCEPT ![d] = IF batch[d] = {k} THEN "idle" ELSE "publish"]
    BY <1>7 DEF Mark, MarkDispatched, kafkaVars
  <2>2. \A j \in JobIds : /\ status'[j] = "absent" <=> status[j] = "absent"
                          /\ status'[j] \in Waiting <=> status[j] \in Waiting
    BY <1>2, <1>7 DEF Mark, MarkDispatched, StoreTypeOK, Waiting
  <2>3. RowsHaveJobs'
    BY <1>1, <1>2, <2>1, <2>2 DEF RowsHaveJobs, StoreTypeOK
  <2>4. \A j \in JobIds : InMarkWindow(j)' => InMarkWindow(j)
    BY <1>2, <2>1 DEF InMarkWindow, Current
  <2>5. InMarkWindow(k)
    BY <2>1 DEF InMarkWindow
  <2>6. PositionsAgree' /\ \A j \in JobIds : Unclaimed(j) <=> Unclaimed(j)'
    BY <1>1, <1>3, <2>1, MessagesUnchanged
  <2> QED
    BY <1>1, <2>1, <2>2, <2>3, <2>4, <2>5, <2>6 DEF WaitingHasMessage, Waiting
<1>8. CASE DispatcherCrash(d)
  <2>1. /\ status' = status /\ unpublished' = unpublished
        /\ topic' = topic /\ inflight' = inflight
        /\ batch' = [batch EXCEPT ![d] = {}]
        /\ dpc' = [dpc EXCEPT ![d] = "idle"]
    BY <1>8 DEF DispatcherCrash, storeVars, kafkaVars
  <2>2. RowsHaveJobs'
    BY <1>1, <1>2, <2>1 DEF RowsHaveJobs
  <2>3. \A j \in JobIds : InMarkWindow(j)' => InMarkWindow(j)
    BY <1>2, <2>1 DEF InMarkWindow, Current
  <2> QED
    BY <1>1, <1>3, <2>1, <2>2, <2>3, MessagesUnchanged, KeepsWaiting
<1> QED
  BY <1>4, <1>5, <1>6, <1>7, <1>8 DEF DispatcherStep

(* The worker's steps: a message is only used up by the claim that makes   *)
(* its job running, or when its job is not waiting.                        *)
LEMMA WorkerDelivers ==
  ASSUME DeliveryInv, NEW w \in Workers,
         WorkerStep(w) \/ WorkerCrash(w), UNCHANGED dispatcherVars
  PROVE  PositionsAgree' /\ RowsHaveJobs' /\ WaitingHasMessage'
<1>1. TypeInv /\ PositionsAgree /\ RowsHaveJobs /\ WaitingHasMessage
  BY DEF DeliveryInv
<1>2. /\ StoreTypeOK /\ wpc \in [Workers -> WorkerSteps]
      /\ batch \in [Dispatchers -> SUBSET JobIds]
      /\ \A v \in Workers : wpc[v] # "idle" => wjob[v] \in JobIds
  BY <1>1 DEF TypeInv, TypeOK, WorkerTypeOK, WellFormed, DispatcherTypeOK
<1>3. /\ dpc' = dpc /\ batch' = batch
      /\ \A j \in JobIds : InMarkWindow(j)' <=> InMarkWindow(j)
  BY DEF dispatcherVars, InMarkWindow, Current
<1>4. ASSUME unpublished' = unpublished,
             \A j \in JobIds : /\ status'[j] = "absent" => status[j] = "absent"
                               /\ status'[j] \in Waiting => status[j] \in Waiting,
             PositionsAgree',
             \A j \in JobIds : status'[j] \in Waiting /\ Unclaimed(j) => Unclaimed(j)'
      PROVE  PositionsAgree' /\ RowsHaveJobs' /\ WaitingHasMessage'
  <2>1. RowsHaveJobs'
    BY <1>1, <1>2, <1>3, <1>4 DEF RowsHaveJobs, StoreTypeOK
  <2> QED
    BY <1>1, <1>3, <1>4, <2>1, KeepsWaiting
<1>5. ASSUME NEW p \in Partitions, Poll(w, p)
      PROVE  PositionsAgree' /\ RowsHaveJobs' /\ WaitingHasMessage'
  <2>1. status' = status /\ unpublished' = unpublished
    BY <1>5 DEF Poll, storeVars
  <2> QED
    BY <1>1, <1>4, <1>5, <2>1, PollDelivers
<1>6. CASE ClaimWon(w)
  <2>1. /\ wpc[w] = "claim" /\ wjob' = wjob /\ UNCHANGED kafkaVars
        /\ wpc' = [wpc EXCEPT ![w] = "resolve"]
        /\ unpublished' = unpublished
        /\ status' = [status EXCEPT ![wjob[w]] = "running"]
    BY <1>6 DEF ClaimWon, Claim, Goto
  <2>2. /\ PositionsAgree'
        /\ \A j \in JobIds : Unclaimed(j) /\ j # wjob[w] => Unclaimed(j)'
    BY <1>1, <2>1, StepInHand DEF WorkerSteps
  <2>3. \A j \in JobIds : /\ status'[j] = "absent" => status[j] = "absent"
                          /\ status'[j] \in Waiting => /\ status[j] \in Waiting
                                                       /\ j # wjob[w]
    BY <1>2, <2>1 DEF StoreTypeOK, Waiting
  <2> QED
    BY <1>4, <2>1, <2>2, <2>3
<1>7. CASE ClaimLost(w)
  <2>1. /\ wpc[w] = "claim" /\ wjob' = wjob /\ UNCHANGED kafkaVars
        /\ wpc' = [wpc EXCEPT ![w] = "commit"]
        /\ unpublished' = unpublished /\ status' = status
        /\ status[wjob[w]] \notin Waiting
    BY <1>7 DEF ClaimLost, Claimable, Goto, storeVars, Waiting
  <2>2. /\ PositionsAgree'
        /\ \A j \in JobIds : Unclaimed(j) /\ j # wjob[w] => Unclaimed(j)'
    BY <1>1, <2>1, StepInHand DEF WorkerSteps
  <2> QED
    BY <1>4, <2>1, <2>2
<1>8. CASE Resolve(w) \/ ResolveNone(w) \/ RunHandler(w) \/ Report(w)
  <2>1. /\ wpc[w] \notin {"claim", "idle"} /\ wjob' = wjob /\ UNCHANGED kafkaVars
        /\ \E step \in WorkerSteps \ {"idle"} : wpc' = [wpc EXCEPT ![w] = step]
    BY <1>8 DEF Resolve, ResolveNone, RunHandler, Report, Goto, WorkerSteps
  <2>2. /\ unpublished' = unpublished
        /\ \A j \in JobIds : /\ status'[j] = "absent" => status[j] = "absent"
                             /\ status'[j] \in Waiting => status[j] \in Waiting
    <3>1. wjob[w] \in JobIds
      BY <1>2, <2>1
    <3> QED
      BY <1>2, <1>8, <3>1 DEF Resolve, ResolvePayload, ResolveNone, RunHandler,
         Report, Complete, Fail, GuardedUpdate, StoreTypeOK, storeVars, Waiting
  <2>3. PositionsAgree' /\ \A j \in JobIds : Unclaimed(j) => Unclaimed(j)'
    BY <1>1, <2>1, StepInHand
  <2> QED
    BY <1>4, <2>2, <2>3
<1>9. CASE CommitOffset(w)
  <2>1. status' = status /\ unpublished' = unpublished
    BY <1>9 DEF CommitOffset, WorkerReset, storeVars
  <2> QED
    BY <1>1, <1>4, <1>9, <2>1, CommitDelivers
<1>10. CASE WorkerCrash(w)
  <2>1. status' = status /\ unpublished' = unpublished /\ WorkerReset(w)
    BY <1>10 DEF WorkerCrash, WorkerReset, storeVars
  <2>2. inflight \in [Partitions -> Workers \cup {NoWorker}]
    BY <1>1 DEF TypeInv, TypeOK
  <2>3. /\ topic' = topic
        /\ inflight' \in [Partitions -> Workers \cup {NoWorker}]
        /\ \A p \in Partitions : \/ inflight'[p] = inflight[p] /\ inflight[p] # w
                                 \/ inflight'[p] = NoWorker
    BY <1>10, <2>2 DEF WorkerCrash, ConsumerGone
  <2>4. PositionsAgree' /\ \A j \in JobIds : Unclaimed(j) => Unclaimed(j)'
    BY <1>1, <2>1, <2>3, ReleaseDelivers
  <2> QED
    BY <1>4, <2>1, <2>4
<1> QED
  BY <1>5, <1>6, <1>7, <1>8, <1>9, <1>10 DEF WorkerStep, WorkerProtocolStep

(* A step of the store alone, on behalf of a producer, the reaper or the   *)
(* clock: a job that starts to wait does so with a publishable row, and    *)
(* outside any mark window.                                                *)
LEMMA StoreStepDelivers ==
  ASSUME DeliveryInv, UNCHANGED <<kafkaVars, dispatcherVars, workerVars>>,
         unpublished \subseteq unpublished',
         \A j \in unpublished' : j \in unpublished \/ status'[j] # "absent",
         \A j \in JobIds :
           /\ status'[j] = "absent" => status[j] = "absent"
           /\ status'[j] \in Waiting => \/ status[j] \in Waiting
                                        \/ j \in unpublished' /\ ~InMarkWindow(j)
  PROVE  PositionsAgree' /\ RowsHaveJobs' /\ WaitingHasMessage'
<1>1. TypeInv /\ PositionsAgree /\ RowsHaveJobs /\ WaitingHasMessage
  BY DEF DeliveryInv
<1>2. /\ unpublished \subseteq JobIds
      /\ batch \in [Dispatchers -> SUBSET JobIds]
  BY <1>1 DEF TypeInv, TypeOK, StoreTypeOK, DispatcherTypeOK
<1>3. /\ topic' = topic /\ inflight' = inflight /\ wpc' = wpc /\ wjob' = wjob
      /\ dpc' = dpc /\ batch' = batch
  BY DEF kafkaVars, dispatcherVars, workerVars
<1>4. PositionsAgree' /\ \A j \in JobIds : Unclaimed(j) <=> Unclaimed(j)'
  BY <1>1, <1>3, MessagesUnchanged
<1>5. RowsHaveJobs'
  BY <1>1, <1>2, <1>3 DEF RowsHaveJobs
<1>6. \A j \in JobIds : InMarkWindow(j)' <=> InMarkWindow(j)
  BY <1>3 DEF InMarkWindow, Current
<1>7. WaitingHasMessage'
  BY <1>1, <1>4, <1>6 DEF WaitingHasMessage, Waiting
<1> QED
  BY <1>4, <1>5, <1>7

(* Every step under the reliability assumption keeps the invariant.        *)
LEMMA ReliableStep ==
  ASSUME DeliveryInv, [ReliableNext]_vars
  PROVE  DeliveryInv'
<1>1. TypeInv /\ PositionsAgree /\ RowsHaveJobs /\ WaitingHasMessage /\ StoreTypeOK
  BY DEF DeliveryInv, TypeInv, TypeOK
<1>2. [Next]_vars
  BY DEF ReliableNext
<1>3. TypeInv'
  BY <1>1, <1>2, NextType
<1> SUFFICES PositionsAgree' /\ RowsHaveJobs' /\ WaitingHasMessage'
  BY <1>3 DEF DeliveryInv
<1>4. CASE Produced
  <2>1. PICK j \in JobIds, t \in JobTypes, input \in Inputs :
          /\ Enqueue(j, t, input)
          /\ UNCHANGED <<kafkaVars, dispatcherVars, workerVars, reaperVars, faults>>
    BY <1>4 DEF Produced
  <2>2. ~InMarkWindow(j)
    BY <1>1, <2>1 DEF Enqueue, InsertJob, NextId, InMarkWindow, Current, RowsHaveJobs
  <2> QED
    BY <1>1, <2>1, <2>2, StoreStepDelivers DEF Enqueue, InsertJob, StoreTypeOK, Waiting
<1>5. ASSUME NEW d \in Dispatchers, Dispatched(d)
      PROVE  PositionsAgree' /\ RowsHaveJobs' /\ WaitingHasMessage'
  BY <1>5, DispatcherDelivers DEF Dispatched
<1>6. ASSUME NEW w \in Workers, Protocol(w) \/ Handled(w)
      PROVE  PositionsAgree' /\ RowsHaveJobs' /\ WaitingHasMessage'
  BY <1>6, WorkerDelivers DEF Protocol, Handled, WorkerStep
<1>7. ASSUME NEW r \in Reapers, Reaped(r), ReliableNext
      PROVE  PositionsAgree' /\ RowsHaveJobs' /\ WaitingHasMessage'
  <2>1. UNCHANGED <<kafkaVars, dispatcherVars, workerVars>>
    BY <1>7 DEF Reaped
  <2>2. ASSUME NEW j \in JobIds, Requeue(r, j)
        PROVE  PositionsAgree' /\ RowsHaveJobs' /\ WaitingHasMessage'
    <3>1. /\ status[j] = "running"
          /\ status' = [status EXCEPT ![j] = "queued"]
          /\ unpublished' = unpublished \cup {j}
      BY <2>2 DEF Requeue, RequeueStuck, Requeueable
    <3>2. ~InMarkWindow(j)
      BY <1>1, <1>7, <3>1 DEF ReliableNext, Requeues, StoreTypeOK
    <3> QED
      BY <1>1, <2>1, <3>1, <3>2, StoreStepDelivers DEF StoreTypeOK, Waiting
  <2>3. ASSUME NEW j \in JobIds, GiveUp(r, j)
        PROVE  PositionsAgree' /\ RowsHaveJobs' /\ WaitingHasMessage'
    <3>1. /\ unpublished' = unpublished
          /\ \A k \in JobIds : /\ status'[k] = "absent" => status[k] = "absent"
                               /\ status'[k] \in Waiting => status[k] \in Waiting
      BY <1>1, <2>3 DEF GiveUp, DeadLetter, GuardedUpdate, StoreTypeOK, storeVars,
         Waiting
    <3> QED
      BY <2>1, <3>1, StoreStepDelivers
  <2>4. CASE Sweep(r) \/ \E j \in JobIds : RequeueRefused(r, j)
    <3>1. unpublished' = unpublished /\ status' = status
      BY <2>4 DEF Sweep, RequeueRefused, storeVars
    <3> QED
      BY <2>1, <3>1, StoreStepDelivers
  <2> QED
    BY <1>7, <2>2, <2>3, <2>4 DEF Reaped
<1>8. CASE (\E j \in JobIds : TimePasses(j)) \/ Configured
  <2>1. /\ UNCHANGED <<kafkaVars, dispatcherVars, workerVars>>
        /\ unpublished' = unpublished /\ status' = status
    BY <1>8 DEF TimePasses, Expire, Configured, SetTypeConfig
  <2> QED
    BY <2>1, StoreStepDelivers
<1>9. CASE Crashed
  <2>1. ASSUME NEW d \in Dispatchers, DispatcherCrash(d),
               UNCHANGED <<workerVars, reaperVars>>
        PROVE  PositionsAgree' /\ RowsHaveJobs' /\ WaitingHasMessage'
    BY <2>1, DispatcherDelivers
  <2>2. ASSUME NEW w \in Workers, WorkerCrash(w),
               UNCHANGED <<dispatcherVars, reaperVars>>
        PROVE  PositionsAgree' /\ RowsHaveJobs' /\ WaitingHasMessage'
    BY <2>2, WorkerDelivers
  <2>3. ASSUME NEW r \in Reapers, ReaperCrash(r),
               UNCHANGED <<kafkaVars, dispatcherVars, workerVars>>
        PROVE  PositionsAgree' /\ RowsHaveJobs' /\ WaitingHasMessage'
    <3>1. unpublished' = unpublished /\ status' = status
      BY <2>3 DEF ReaperCrash, storeVars
    <3> QED
      BY <2>3, <3>1, StoreStepDelivers
  <2> QED
    BY <1>9, <2>1, <2>2, <2>3 DEF Crashed
<1>10. CASE Rebalanced
  <2>1. PICK p \in Partitions : Revoke(p)
    BY <1>10 DEF Rebalanced
  <2>2. /\ wpc' = wpc /\ wjob' = wjob /\ dpc' = dpc /\ batch' = batch
        /\ status' = status /\ unpublished' = unpublished
    BY <1>10 DEF Rebalanced, storeVars, workerVars, dispatcherVars
  <2>3. PositionsAgree' /\ \A j \in JobIds : Unclaimed(j) => Unclaimed(j)'
    BY <1>1, <2>1, <2>2, RevokeDelivers
  <2>4. RowsHaveJobs'
    BY <1>1, <2>2 DEF RowsHaveJobs
  <2>5. \A j \in JobIds : InMarkWindow(j)' <=> InMarkWindow(j)
    BY <2>2 DEF InMarkWindow, Current
  <2> QED
    BY <1>1, <2>2, <2>3, <2>4, <2>5, KeepsWaiting
<1>11. CASE UNCHANGED vars
  <2>1. /\ UNCHANGED <<kafkaVars, dispatcherVars, workerVars>>
        /\ unpublished' = unpublished /\ status' = status
    BY <1>11 DEF vars, storeVars
  <2> QED
    BY <2>1, StoreStepDelivers
<1> QED
  BY <1>4, <1>5, <1>6, <1>7, <1>8, <1>9, <1>10, <1>11
     DEF ReliableNext, Next, StaticNext

(* No job is stranded: as long as the broker keeps the messages it accepts *)
(* and the reaper does not requeue a job in the instant between a          *)
(* dispatcher's publish and mark_dispatched, every job waiting for a       *)
(* worker has a publishable outbox row or a message in the topic, through  *)
(* any crashes, redeliveries, rebalances and late workers.                 *)
THEOREM NeverStranded == ReliableSpec => []NoJobStranded
<1>1. Init => DeliveryInv
  <2> SUFFICES ASSUME Init PROVE DeliveryInv
    OBVIOUS
  <2>1. TypeInv
    BY InitType
  <2>2. PositionsAgree
    BY KafkaAssumption DEF Init, KafkaInit, PositionsAgree
  <2>3. RowsHaveJobs /\ WaitingHasMessage
    BY DEF Init, StoreInit, DispatcherInit, RowsHaveJobs, WaitingHasMessage
  <2> QED
    BY <2>1, <2>2, <2>3 DEF DeliveryInv
<1>2. DeliveryInv /\ [ReliableNext]_vars => DeliveryInv'
  BY ReliableStep
<1>3. DeliveryInv => NoJobStranded
  BY DEF DeliveryInv, WaitingHasMessage, NoJobStranded, Unclaimed, InTopic
<1> QED
  BY <1>1, <1>2, <1>3, PTL DEF ReliableSpec

=============================================================================
