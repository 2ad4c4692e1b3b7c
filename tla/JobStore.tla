------------------------------ MODULE JobStore ------------------------------
(***************************************************************************)
(* The Postgres store of common/db.py: the tables jobs, outbox and         *)
(* job_type_config and one operator per Store method that changes them.    *)
(* Every method is one transaction, so every operator is one atomic step.  *)
(* An operator constrains the store's variables only; the module of the    *)
(* process that calls it says what happens to the caller.                  *)
(*                                                                         *)
(* Data abstraction: a job id is a positive number (BIGINT IDENTITY), a    *)
(* jsonb object is a function from Keys to Values \cup {NoValue}, and      *)
(* "updated_at is older than the type's run_timeout" is membership in the  *)
(* set expired, which the environment grows and every write of updated_at  *)
(* shrinks.  Each job has exactly one outbox row, written in the same      *)
(* transaction, so the row is named by its job.                            *)
(***************************************************************************)
EXTENDS Integers, FiniteSets

CONSTANTS
  JobIds,             \* the ids the run may hand out (bound on the number of jobs)
  JobTypes,           \* values of jobs.job_type
  Keys, Values, NoValue,   \* jsonb payloads
  Inputs,             \* input payloads producers send, a subset of Payloads
  ConfigRows,         \* rows an operator may write to job_type_config
  NoRow,              \* the type has no job_type_config row
  InitConfig,         \* job_type_config at the start
  DefaultMaxAttempts  \* _DEFAULT_MAX_ATTEMPTS

Payloads == [Keys -> Values \cup {NoValue}]

ASSUME StoreAssumption ==
  /\ JobIds \subseteq Nat \ {0}
  /\ DefaultMaxAttempts \in Nat
  /\ Inputs \subseteq Payloads
  /\ ConfigRows \subseteq [payload : Payloads, max_attempts : Nat]
  /\ NoRow \notin ConfigRows
  /\ InitConfig \in [JobTypes -> ConfigRows \cup {NoRow}]

VARIABLES
  status,       \* jobs.status, "absent" for an id not handed out yet
  jobType,      \* jobs.job_type
  attempts,     \* jobs.attempts
  inputPayload, \* jobs.input_payload
  payload,      \* jobs.payload
  unpublished,  \* jobs whose outbox row has published_at IS NULL
  config,       \* job_type_config
  expired       \* jobs whose updated_at is older than their run_timeout

storeVars == <<status, jobType, attempts, inputPayload, payload, unpublished,
               config, expired>>

Active   == {"queued", "dispatched", "running"}
Terminal == {"completed", "failed"}
Statuses == Active \cup Terminal \cup {"absent"}
NoType   == "no type yet"

EmptyPayload == [k \in Keys |-> NoValue]

StoreTypeOK ==
  /\ status \in [JobIds -> Statuses]
  /\ jobType \in [JobIds -> JobTypes \cup {NoType}]
  /\ attempts \in [JobIds -> Nat]
  /\ inputPayload \in [JobIds -> Payloads]
  /\ payload \in [JobIds -> Payloads]
  /\ unpublished \subseteq JobIds
  /\ config \in [JobTypes -> ConfigRows \cup {NoRow}]
  /\ expired \subseteq JobIds

StoreInit ==
  /\ status = [j \in JobIds |-> "absent"]
  /\ jobType = [j \in JobIds |-> NoType]
  /\ attempts = [j \in JobIds |-> 0]
  /\ inputPayload = [j \in JobIds |-> EmptyPayload]
  /\ payload = [j \in JobIds |-> EmptyPayload]
  /\ unpublished = {}
  /\ config = InitConfig
  /\ expired = {}

-----------------------------------------------------------------------------
(* Mutant: the index predicate forgets running.                            *)
SlotFreeForgetsRunning(t) == \A k \in JobIds :
  jobType[k] = t => status[k] \notin {"queued", "dispatched"}

(* Handler: enqueue.  The guard on k is the partial unique index: with it  *)
(* false the INSERT ... ON CONFLICT DO NOTHING returns no row and enqueue  *)
(* returns None having changed nothing.  An id the sequence burns on a     *)
(* conflict is skipped over: only the order of the ids matters here.       *)
SlotFree(t) == \A k \in JobIds : jobType[k] = t => status[k] \notin Active

NextId(j) ==
  /\ status[j] = "absent"
  /\ \A k \in JobIds : k < j => status[k] # "absent"

InsertJob(j, t, input) ==
  /\ status[j] = "absent"
  /\ SlotFree(t)
  /\ status' = [status EXCEPT ![j] = "queued"]
  /\ jobType' = [jobType EXCEPT ![j] = t]
  /\ inputPayload' = [inputPayload EXCEPT ![j] = input]
  /\ unpublished' = unpublished \cup {j}
  /\ UNCHANGED <<attempts, payload, config, expired>>

Enqueue(j, t, input) == NextId(j) /\ InsertJob(j, t, input)

(* Dispatcher: the rows SELECT ... WHERE published_at IS NULL ORDER BY id  *)
(* FOR UPDATE SKIP LOCKED LIMIT limit returns when the rows in locked are  *)
(* locked by other transactions.                                           *)
FetchUnpublished(locked, limit) ==
  LET free == unpublished \ locked
  IN  {j \in free : Cardinality({k \in free : k < j}) < limit}

(* The row's published_at is set whatever the job's status, the status     *)
(* only moves from queued.                                                 *)
MarkDispatched(j) ==
  /\ unpublished' = unpublished \ {j}
  /\ status' = IF status[j] = "queued"
                 THEN [status EXCEPT ![j] = "dispatched"] ELSE status
  /\ UNCHANGED <<jobType, attempts, inputPayload, payload, config, expired>>

(* Mutants: claim also takes a running row; claim insists on dispatched.   *)
ClaimableWhileRunning(j) == status[j] \in Active
ClaimableOnceMarked(j) == status[j] = "dispatched"

(* Worker: the guarded updates.  A guard that fails updates no row.        *)
Claimable(j) == status[j] \in {"queued", "dispatched"}

Claim(j) ==
  /\ Claimable(j)
  /\ status' = [status EXCEPT ![j] = "running"]
  /\ expired' = expired \ {j}
  /\ UNCHANGED <<jobType, attempts, inputPayload, payload, unpublished, config>>

(* Mutant: an empty input is NULL in the table, and base || NULL is NULL.  *)
MergeNull(base, input) ==
  IF input = EmptyPayload THEN NoValue
  ELSE [k \in Keys |-> IF input[k] = NoValue THEN base[k] ELSE input[k]]

(* jsonb ||: a shallow merge, the right side wins.                         *)
Merge(base, input) ==
  [k \in Keys |-> IF input[k] = NoValue THEN base[k] ELSE input[k]]

(* Mutant: an empty input is stored as NULL, and config || NULL is NULL,   *)
(* which the worker takes for a missing row.                               *)
ResolvableWithInput(j) ==
  /\ status[j] = "running" /\ config[jobType[j]] # NoRow
  /\ inputPayload[j] # EmptyPayload

(* Mutant: the UPDATE lacks AND j.status = 'running'.                      *)
ResolvableWhenever(j) == config[jobType[j]] # NoRow

Resolvable(j) == status[j] = "running" /\ config[jobType[j]] # NoRow

ResolvePayload(j) ==
  /\ Resolvable(j)
  /\ payload' = [payload EXCEPT
                   ![j] = Merge(config[jobType[j]].payload, inputPayload[j])]
  /\ expired' = expired \ {j}
  /\ UNCHANGED <<status, jobType, attempts, inputPayload, unpublished, config>>

GuardedUpdate(j, to) ==
  /\ status[j] = "running"
  /\ status' = [status EXCEPT ![j] = to]
  /\ expired' = expired \ {j}
  /\ UNCHANGED <<jobType, attempts, inputPayload, payload, unpublished, config>>

Complete(j)   == GuardedUpdate(j, "completed")
Fail(j)       == GuardedUpdate(j, "failed")
DeadLetter(j) == GuardedUpdate(j, "failed")

(* Mutant: the timeout is not compared.                                    *)
FindRunning == {j \in JobIds : status[j] = "running"}

(* Reaper.  COALESCE: a type without a row has the default cap.            *)
FindStuck == {j \in JobIds : status[j] = "running" /\ j \in expired}

Cap(t) == IF config[t] = NoRow THEN DefaultMaxAttempts
                               ELSE config[t].max_attempts

(* Mutants: one attempt too many, one too few.                             *)
RequeueableAtCap(j) == status[j] = "running" /\ attempts[j] =< Cap(jobType[j])
RequeueableBelowCap(j) == status[j] = "running" /\ attempts[j] + 1 < Cap(jobType[j])

Requeueable(j) == status[j] = "running" /\ attempts[j] < Cap(jobType[j])

(* Mutants: the outbox row is not re-armed; attempts counts down.          *)
RequeueWithoutRearm(j) ==
  /\ Requeueable(j)
  /\ status' = [status EXCEPT ![j] = "queued"]
  /\ attempts' = [attempts EXCEPT ![j] = @ + 1]
  /\ expired' = expired \ {j}
  /\ UNCHANGED <<jobType, inputPayload, payload, config, unpublished>>

RequeueCountsDown(j) ==
  /\ Requeueable(j)
  /\ status' = [status EXCEPT ![j] = "queued"]
  /\ attempts' = [attempts EXCEPT ![j] = @ - 1]
  /\ unpublished' = unpublished \cup {j}
  /\ expired' = expired \ {j}
  /\ UNCHANGED <<jobType, inputPayload, payload, config>>

RequeueStuck(j) ==
  /\ Requeueable(j)
  /\ status' = [status EXCEPT ![j] = "queued"]
  /\ attempts' = [attempts EXCEPT ![j] = @ + 1]
  /\ unpublished' = unpublished \cup {j}
  /\ expired' = expired \ {j}
  /\ UNCHANGED <<jobType, inputPayload, payload, config>>

(* An operator writes a type's job_type_config row.                        *)
SetTypeConfig(t, row) ==
  /\ config[t] # row
  /\ config' = [config EXCEPT ![t] = row]
  /\ UNCHANGED <<status, jobType, attempts, inputPayload, payload,
                 unpublished, expired>>

(* now() moves past a running job's updated_at + run_timeout.              *)
Expire(j) ==
  /\ status[j] = "running"
  /\ j \notin expired
  /\ expired' = expired \cup {j}
  /\ UNCHANGED <<status, jobType, attempts, inputPayload, payload,
                 unpublished, config>>

(* The contract of the Store protocol on its own: any caller may call any  *)
(* method, each call is one transaction (Transactions shows why that is so:*)
(* a transaction may commit after one that drew a later id).               *)
StoreStep ==
  \/ \E j \in JobIds, t \in JobTypes, input \in Inputs : InsertJob(j, t, input)
  \/ \E j \in JobIds :
       \/ MarkDispatched(j) \/ Claim(j) \/ ResolvePayload(j)
       \/ Complete(j) \/ Fail(j) \/ DeadLetter(j) \/ RequeueStuck(j) \/ Expire(j)
  \/ \E t \in JobTypes, row \in ConfigRows \cup {NoRow} : SetTypeConfig(t, row)

StoreSpec == StoreInit /\ [][StoreStep]_storeVars

=============================================================================
