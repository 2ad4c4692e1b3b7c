---------------------------- MODULE MemoryStore ----------------------------
(***************************************************************************)
(* InMemoryStore of common/store.py: the Store on Python dictionaries that *)
(* the tests use and that handlerAPIv2 serves when DATABASE_URL is unset.  *)
(* The methods hold no lock.  Called from one thread they are atomic and   *)
(* the store is meant to mirror JobStore; FastAPI calls enqueue from a     *)
(* pool of threads, which may switch between any two of its steps.         *)
(***************************************************************************)
EXTENDS Integers, Sequences, FiniteSets

CONSTANTS JobIds, JobTypes, Keys, Values, NoValue, Inputs, ConfigRows, NoRow,
          DefaultMaxAttempts,
          Threads   \* the threads that call enqueue

ASSUME MemoryAssumption ==
  /\ JobIds \subseteq Nat \ {0} /\ DefaultMaxAttempts \in Nat
  /\ Inputs \subseteq [Keys -> Values \cup {NoValue}]
  /\ ConfigRows \subseteq [payload : [Keys -> Values \cup {NoValue}], max_attempts : Nat]
  /\ NoRow \notin ConfigRows

VARIABLES
  jobs,       \* _jobs: a function on the ids inserted so far
  outbox,     \* _outbox: outbox id |-> job id
  published,  \* _published, a set of outbox ids
  typeConfig, \* _type_config, NoRow where there is no entry
  late,       \* jobs with utcnow() - updated_at > _timeout(job_type)
  nextJob,    \* _job_ids
  nextOutbox, \* _outbox_ids
  pc,         \* the step of enqueue a thread is at
  req,        \* its arguments, job_type and input_payload
  size,       \* the dictionary's size when _active began to iterate
  scanned,    \* the jobs the iteration has passed
  newId       \* the job id the thread drew

callVars  == <<pc, req, size, scanned, newId>>
tableVars == <<jobs, outbox, published, typeConfig, late, nextJob, nextOutbox>>
memoryVars == <<tableVars, callVars>>

EmptyInput == [k \in Keys |-> NoValue]
NoRequest  == [type |-> NoRow, input |-> EmptyInput]

MemoryInit ==
  /\ jobs = << >> /\ outbox = << >> /\ published = {}
  /\ typeConfig = [t \in JobTypes |-> NoRow]
  /\ late = {} /\ nextJob = 1 /\ nextOutbox = 1
  /\ pc = [h \in Threads |-> "idle"]
  /\ req = [h \in Threads |-> NoRequest]
  /\ size = [h \in Threads |-> 0]
  /\ scanned = [h \in Threads |-> {}]
  /\ newId = [h \in Threads |-> 0]

Ids == DOMAIN jobs
Active == {"queued", "dispatched", "running"}
Put(f, k, v) == [x \in DOMAIN f \cup {k} |-> IF x = k THEN v ELSE f[x]]

-----------------------------------------------------------------------------
(* enqueue.  _active iterates over _jobs; before every element Python      *)
(* checks that the dictionary still has its size and raises RuntimeError   *)
(* otherwise.  Which element comes next is left open.                      *)
Enter(h, t, input) ==
  /\ pc[h] = "idle"
  /\ nextJob \in JobIds
  /\ pc' = [pc EXCEPT ![h] = "scan"]
  /\ req' = [req EXCEPT ![h] = [type |-> t, input |-> input]]
  /\ size' = [size EXCEPT ![h] = Cardinality(Ids)]
  /\ scanned' = [scanned EXCEPT ![h] = {}]
  /\ UNCHANGED <<tableVars, newId>>

Matches(h, j) == jobs[j].type = req[h].type /\ jobs[j].status \in Active

ScanPasses(h, j) ==
  /\ pc[h] = "scan" /\ size[h] = Cardinality(Ids)
  /\ j \in Ids \ scanned[h] /\ ~Matches(h, j)
  /\ scanned' = [scanned EXCEPT ![h] = @ \cup {j}]
  /\ UNCHANGED <<tableVars, pc, req, size, newId>>

(* An active job of the type: None.  The size changed: RuntimeError.       *)
ScanEnds(h) ==
  /\ pc[h] = "scan"
  /\ \/ size[h] # Cardinality(Ids)
     \/ \E j \in Ids \ scanned[h] : Matches(h, j)
  /\ pc' = [pc EXCEPT ![h] = "idle"]
  /\ UNCHANGED <<tableVars, req, size, scanned, newId>>

(* Nothing active: next(self._job_ids), which is atomic, draws the id.     *)
DrawId(h) ==
  /\ pc[h] = "scan" /\ size[h] = Cardinality(Ids) /\ Ids \subseteq scanned[h]
  /\ nextJob \in JobIds
  /\ newId' = [newId EXCEPT ![h] = nextJob]
  /\ nextJob' = nextJob + 1
  /\ pc' = [pc EXCEPT ![h] = "insert"]
  /\ UNCHANGED <<jobs, outbox, published, typeConfig, late, nextOutbox,
                 req, size, scanned>>

InsertJob(h) ==
  /\ pc[h] = "insert"
  /\ jobs' = Put(jobs, newId[h],
               [type |-> req[h].type, status |-> "queued", attempts |-> 0,
                input |-> req[h].input, payload |-> EmptyInput])
  /\ pc' = [pc EXCEPT ![h] = "outbox"]
  /\ UNCHANGED <<outbox, published, typeConfig, late, nextJob, nextOutbox,
                 req, size, scanned, newId>>

(* Drawing the outbox id and storing the row need not be told apart: only  *)
(* single-threaded callers read the outbox.                                *)
InsertOutbox(h) ==
  /\ pc[h] = "outbox"
  /\ outbox' = Put(outbox, nextOutbox, newId[h])
  /\ nextOutbox' = nextOutbox + 1
  /\ pc' = [pc EXCEPT ![h] = "idle"]
  /\ UNCHANGED <<jobs, published, typeConfig, late, nextJob,
                 req, size, scanned, newId>>

EnqueueStep(h) ==
  \/ \E t \in JobTypes, input \in Inputs : Enter(h, t, input)
  \/ \E j \in JobIds : ScanPasses(h, j)
  \/ ScanEnds(h) \/ DrawId(h) \/ InsertJob(h) \/ InsertOutbox(h)

-----------------------------------------------------------------------------
(* The other methods.  Every write of updated_at makes the job current.    *)
SetStatus(j, to) == jobs' = [jobs EXCEPT ![j].status = to] /\ late' = late \ {j}

MarkDispatched(m, j) ==
  /\ published' = published \cup {m}
  /\ IF j \in Ids /\ jobs[j].status = "queued" THEN SetStatus(j, "dispatched")
                                               ELSE UNCHANGED <<jobs, late>>
  /\ UNCHANGED <<outbox, typeConfig, nextJob, nextOutbox>>

Claim(j) ==
  /\ j \in Ids /\ jobs[j].status \in {"queued", "dispatched"}
  /\ SetStatus(j, "running")
  /\ UNCHANGED <<outbox, published, typeConfig, nextJob, nextOutbox>>

ResolvePayload(j) ==
  /\ j \in Ids /\ jobs[j].status = "running"
  /\ typeConfig[jobs[j].type] # NoRow
  /\ jobs' = [jobs EXCEPT ![j].payload = [k \in Keys |->
                IF jobs[j].input[k] # NoValue
                  THEN jobs[j].input[k]
                  ELSE typeConfig[jobs[j].type].payload[k]]]
  /\ late' = late \ {j}
  /\ UNCHANGED <<outbox, published, typeConfig, nextJob, nextOutbox>>

(* _terminal for complete and fail; dead_letter does the same.             *)
End(j, to) ==
  /\ j \in Ids /\ jobs[j].status = "running"
  /\ SetStatus(j, to)
  /\ UNCHANGED <<outbox, published, typeConfig, nextJob, nextOutbox>>

MaxAttempts(t) == IF typeConfig[t] = NoRow THEN DefaultMaxAttempts
                                           ELSE typeConfig[t].max_attempts

(* Mutant: the job is requeued and its outbox row stays published.         *)
RequeueWithoutRearm(j) ==
  /\ j \in Ids /\ jobs[j].status = "running"
  /\ jobs[j].attempts < MaxAttempts(jobs[j].type)
  /\ jobs' = [jobs EXCEPT ![j].status = "queued", ![j].attempts = @ + 1]
  /\ late' = late \ {j}
  /\ published' = published
  /\ UNCHANGED <<outbox, typeConfig, nextJob, nextOutbox>>

RequeueStuck(j) ==
  /\ j \in Ids /\ jobs[j].status = "running"
  /\ jobs[j].attempts < MaxAttempts(jobs[j].type)
  /\ jobs' = [jobs EXCEPT ![j].status = "queued", ![j].attempts = @ + 1]
  /\ late' = late \ {j}
  /\ published' = published \ {m \in DOMAIN outbox : outbox[m] = j}
  /\ UNCHANGED <<outbox, typeConfig, nextJob, nextOutbox>>

SetTypeConfig(t, row) ==
  /\ typeConfig' = [typeConfig EXCEPT ![t] = row]
  /\ UNCHANGED <<jobs, outbox, published, late, nextJob, nextOutbox>>

(* The clock passes a running job's timeout.                               *)
GrowsLate(j) ==
  /\ j \in Ids \ late /\ jobs[j].status = "running"
  /\ late' = late \cup {j}
  /\ UNCHANGED <<jobs, outbox, published, typeConfig, nextJob, nextOutbox>>

(* Mutant: the first limit rows are taken before the published ones go.    *)
FetchCutsFirst(limit) ==
  LET rows == DOMAIN outbox
  IN  {outbox[m] : m \in {r \in rows \ published :
                            Cardinality({q \in rows : q < r}) < limit}}

(* fetch_unpublished and find_stuck, which only read.                      *)
FetchUnpublished(limit) ==
  LET rows == DOMAIN outbox \ published
  IN  {outbox[m] : m \in {r \in rows : Cardinality({q \in rows : q < r}) < limit}}

FindStuck == {j \in Ids : jobs[j].status = "running" /\ j \in late}

-----------------------------------------------------------------------------
(* One thread calls one method at a time.                                  *)
SequentialNext ==
  \/ \E h \in Threads : EnqueueStep(h) /\ \A g \in Threads \ {h} : pc[g] = "idle"
  \/ /\ \A h \in Threads : pc[h] = "idle"
     /\ \/ \E m \in DOMAIN outbox : MarkDispatched(m, outbox[m])
        \/ \E j \in JobIds :
             \/ Claim(j) \/ ResolvePayload(j) \/ RequeueStuck(j) \/ GrowsLate(j)
             \/ \E to \in {"completed", "failed"} : End(j, to)
        \/ \E t \in JobTypes, row \in ConfigRows : SetTypeConfig(t, row)
     /\ UNCHANGED callVars

SequentialSpec == MemoryInit /\ [][SequentialNext]_memoryVars

(* handlerAPIv2 without a database: only enqueue changes the store.        *)
ThreadedSpec == MemoryInit /\ [][\E h \in Threads : EnqueueStep(h)]_memoryVars

-----------------------------------------------------------------------------
(* What the dictionaries stand for in the tables of JobStore: a job is     *)
(* there once its outbox row is.                                           *)
Stored == {outbox[m] : m \in DOMAIN outbox}

statusOf  == [j \in JobIds |-> IF j \in Stored THEN jobs[j].status ELSE "absent"]
typeOf    == [j \in JobIds |-> IF j \in Stored THEN jobs[j].type ELSE "no type yet"]
triesOf   == [j \in JobIds |-> IF j \in Stored THEN jobs[j].attempts ELSE 0]
inputOf   == [j \in JobIds |-> IF j \in Stored THEN jobs[j].input ELSE EmptyInput]
payloadOf == [j \in JobIds |-> IF j \in Stored THEN jobs[j].payload ELSE EmptyInput]
toPublish == {outbox[m] : m \in DOMAIN outbox \ published}

Tables == INSTANCE JobStore WITH
  InitConfig <- [t \in JobTypes |-> NoRow],
  status <- statusOf, jobType <- typeOf, attempts <- triesOf,
  inputPayload <- inputOf, payload <- payloadOf,
  unpublished <- toPublish, config <- typeConfig, expired <- late

(* Called from one thread, the in-memory store does what the Postgres      *)
(* store does: every method call changes the tables as JobStore says.      *)
MirrorsPostgres == Tables!StoreSpec

(* ... and fetch_unpublished and find_stuck return what the SELECTs would. *)
ReadsMirrorPostgres ==
  /\ FindStuck = Tables!FindStuck
  /\ \A n \in 1 .. Cardinality(JobIds) :
       FetchUnpublished(n) = Tables!FetchUnpublished({}, n)

(* enqueue dedups on active status: two jobs of one type are never both    *)
(* active.                                                                 *)
DedupHolds == \A j, k \in Ids :
  (j # k /\ jobs[j].type = jobs[k].type /\ jobs[j].status \in Active)
    => jobs[k].status \notin Active

=============================================================================
