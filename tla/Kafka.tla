-------------------------------- MODULE Kafka --------------------------------
(***************************************************************************)
(* The jobs topic as common/messaging.py uses it (the broker and the       *)
(* client library are external).  The producer keys a message by its job   *)
(* id, so a job's messages share one partition; the consumer commits by    *)
(* hand, after each message, so the uncommitted part of a partition is a   *)
(* queue whose head is the only message delivered and not yet committed.   *)
(* A message is its job's id: build_envelope makes it a pure pointer.      *)
(***************************************************************************)
EXTENDS Integers, Sequences

CONSTANTS
  Partitions, PartitionOf,  \* the topic's partitions; PartitionOf[job id]
  Workers, NoWorker,
  MaxTopic                  \* bound on the uncommitted messages of a partition

ASSUME KafkaAssumption ==
  /\ NoWorker \notin Workers
  /\ MaxTopic \in Nat

VARIABLES
  topic,     \* per partition, the messages after the committed offset
  inflight   \* the worker whose consumer has read the head, if any

kafkaVars == <<topic, inflight>>

KafkaInit ==
  /\ topic = [p \in Partitions |-> << >>]
  /\ inflight = [p \in Partitions |-> NoWorker]

(* produce() and flush(): the broker stored the message.                   *)
Produce(j) ==
  /\ Len(topic[PartitionOf[j]]) < MaxTopic
  /\ topic' = [topic EXCEPT ![PartitionOf[j]] = Append(@, j)]
  /\ UNCHANGED inflight

(* flush() also returns when librdkafka gives the message up: publish      *)
(* registers no delivery callback and returns just the same.               *)
ProduceLost == UNCHANGED kafkaVars

(* poll: the consumer reads the first message it has no position after.    *)
Deliver(w, p) ==
  /\ inflight[p] = NoWorker
  /\ topic[p] # << >>
  /\ inflight' = [inflight EXCEPT ![p] = w]
  /\ UNCHANGED topic

(* commit(asynchronous=False) while the partition is still assigned.       *)
Acknowledge(w, p) ==
  /\ inflight[p] = w
  /\ topic' = [topic EXCEPT ![p] = Tail(@)]
  /\ inflight' = [inflight EXCEPT ![p] = NoWorker]

(* The group coordinator takes the partition from a consumer that read its *)
(* head (max.poll.interval exceeded, a member joins or leaves): the next   *)
(* owner starts again from the committed offset.                           *)
Revoke(p) ==
  /\ inflight[p] # NoWorker
  /\ inflight' = [inflight EXCEPT ![p] = NoWorker]
  /\ UNCHANGED topic

(* A consumer's process ends: everything it had read is delivered again.   *)
ConsumerGone(w) ==
  /\ inflight' = [p \in Partitions |->
                    IF inflight[p] = w THEN NoWorker ELSE inflight[p]]
  /\ UNCHANGED topic

=============================================================================
