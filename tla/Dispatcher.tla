----------------------------- MODULE Dispatcher -----------------------------
(***************************************************************************)
(* dispatcher/service.py: each dispatcher loops over dispatch_once, which  *)
(* fetches a batch of outbox rows and then, row by row, publishes the      *)
(* message and marks the row.  Fetching is two steps because the row locks *)
(* of FOR UPDATE live until the connection block of fetch_unpublished      *)
(* commits; publishing and marking are two steps because Kafka and         *)
(* Postgres share no transaction.                                          *)
(***************************************************************************)
EXTENDS JobStore, Kafka

CONSTANTS Dispatchers,
          BatchSize    \* cfg.dispatcher_batch_size

ASSUME DispatcherAssumption == BatchSize \in Nat \ {0}

VARIABLES
  dpc,    \* the step a dispatcher is at
  batch   \* the rows of its batch it has not finished

dispatcherVars == <<dpc, batch>>

DispatcherSteps == {"idle", "fetching", "publish", "mark"}

DispatcherTypeOK ==
  /\ dpc \in [Dispatchers -> DispatcherSteps]
  /\ batch \in [Dispatchers -> SUBSET JobIds]

DispatcherInit ==
  /\ dpc = [d \in Dispatchers |-> "idle"]
  /\ batch = [d \in Dispatchers |-> {}]

(* Outbox rows locked by a fetch that has not committed yet.               *)
Locked(ds) == UNION {batch[d] : d \in {e \in ds : dpc[e] = "fetching"}}

(* The row of the batch a dispatcher is working on (ORDER BY id).          *)
Current(d, j) == j \in batch[d] /\ \A k \in batch[d] : j =< k

(* fetch_unpublished: the SELECT; an empty batch only makes the loop sleep.*)
FetchSelect(d) ==
  LET rows == FetchUnpublished(Locked(Dispatchers \ {d}), BatchSize)
  IN  /\ dpc[d] = "idle"
      /\ rows # {}
      /\ batch' = [batch EXCEPT ![d] = rows]
      /\ dpc' = [dpc EXCEPT ![d] = "fetching"]
      /\ UNCHANGED <<storeVars, kafkaVars>>

(* ... and the end of its transaction, which releases the locks.           *)
FetchCommit(d) ==
  /\ dpc[d] = "fetching"
  /\ dpc' = [dpc EXCEPT ![d] = "publish"]
  /\ UNCHANGED <<batch, storeVars, kafkaVars>>

Publish(d, j) ==
  /\ dpc[d] = "publish"
  /\ Current(d, j)
  /\ Produce(j)
  /\ dpc' = [dpc EXCEPT ![d] = "mark"]
  /\ UNCHANGED <<batch, storeVars>>

PublishLost(d, j) ==
  /\ dpc[d] = "publish"
  /\ Current(d, j)
  /\ ProduceLost
  /\ dpc' = [dpc EXCEPT ![d] = "mark"]
  /\ UNCHANGED <<batch, storeVars>>

(* mark_dispatched waits for a fetch that has the row locked.              *)
Mark(d, j) ==
  /\ dpc[d] = "mark"
  /\ Current(d, j)
  /\ j \notin Locked(Dispatchers)
  /\ MarkDispatched(j)
  /\ batch' = [batch EXCEPT ![d] = @ \ {j}]
  /\ dpc' = [dpc EXCEPT ![d] = IF batch[d] = {j} THEN "idle" ELSE "publish"]
  /\ UNCHANGED kafkaVars

(* The process dies (or a call raises, which ends main) and is restarted.  *)
DispatcherCrash(d) ==
  /\ dpc[d] # "idle"
  /\ dpc' = [dpc EXCEPT ![d] = "idle"]
  /\ batch' = [batch EXCEPT ![d] = {}]
  /\ UNCHANGED <<storeVars, kafkaVars>>

DispatcherStep(d) ==
  \/ FetchSelect(d)
  \/ FetchCommit(d)
  \/ \E j \in JobIds : Publish(d, j) \/ Mark(d, j)

=============================================================================
