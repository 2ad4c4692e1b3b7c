------------------------- MODULE MemoryStoreProofs -------------------------
(***************************************************************************)
(* InMemoryStore called from one thread implements JobStore, for any       *)
(* number of jobs, types, payloads and configurations.                     *)
(***************************************************************************)
EXTENDS MemoryStore, TLAPS

Payloads == [Keys -> Values \cup {NoValue}]
Statuses == Active \cup {"completed", "failed"}
Rows == [type : JobTypes, status : Statuses, attempts : Nat,
         input : Payloads, payload : Payloads]

MemoryTypes ==
  /\ \A j \in Ids : j \in JobIds /\ jobs[j] \in Rows
  /\ typeConfig \in [JobTypes -> ConfigRows \cup {NoRow}]
  /\ nextJob \in Nat /\ nextOutbox \in Nat \ {0}
  /\ pc \in [Threads -> {"idle", "scan", "insert", "outbox"}]
  /\ req \in [Threads -> [type : JobTypes \cup {NoRow}, input : Payloads]]
  /\ scanned \in [Threads -> SUBSET JobIds]
  /\ newId \in [Threads -> JobIds \cup {0}]

(* One caller at a time: the two id sequences run in step, so an outbox    *)
(* row has its job's number.                                               *)
InStep ==
  /\ DOMAIN outbox = 1 .. nextOutbox - 1
  /\ \A m \in DOMAIN outbox : outbox[m] = m
  /\ published \subseteq DOMAIN outbox

(* A job that is late is running.                                          *)
LateRuns == \A j \in late : j \in Ids /\ jobs[j].status = "running"

Waiting(h) == pc[h] \in {"idle", "scan"}
NewRow(h)  == [type |-> req[h].type, status |-> "queued", attempts |-> 0,
               input |-> req[h].input, payload |-> EmptyInput]
NoneActive(h) == \A j \in DOMAIN outbox : ~Matches(h, j)

(* Between calls the two dictionaries hold the same jobs; what enqueue has *)
(* seen is still so when it inserts.                                       *)
Calling ==
  /\ \A g, h \in Threads : pc[g] # "idle" /\ pc[h] # "idle" => g = h
  /\ (\A h \in Threads : Waiting(h)) => Ids = DOMAIN outbox /\ nextJob = nextOutbox
  /\ \A h \in Threads :
       /\ pc[h] # "idle" => req[h].type \in JobTypes /\ req[h].input \in Inputs
       /\ pc[h] = "scan" => \A j \in scanned[h] \cap Ids : ~Matches(h, j)
       /\ pc[h] \in {"insert", "outbox"} =>
            /\ newId[h] = nextOutbox /\ newId[h] \in JobIds
            /\ nextJob = nextOutbox + 1 /\ NoneActive(h)
       /\ pc[h] = "insert" => Ids = DOMAIN outbox
       /\ pc[h] = "outbox" =>
            Ids = DOMAIN outbox \cup {newId[h]} /\ jobs[newId[h]] = NewRow(h)

MemoryInv == MemoryTypes /\ InStep /\ LateRuns /\ Calling

-----------------------------------------------------------------------------
columns == <<statusOf, typeOf, triesOf, inputOf, payloadOf, toPublish, typeConfig, late>>

(* With outbox rows numbered like their jobs the mapping is simple.        *)
LEMMA StoredRows ==
  ASSUME InStep
  PROVE  Stored = DOMAIN outbox /\ toPublish = DOMAIN outbox \ published
BY DEF InStep, Stored, toPublish

(* What leaves the dictionaries alone leaves the columns alone.            *)
LEMMA SameTables == ASSUME UNCHANGED tableVars PROVE UNCHANGED columns
BY DEF tableVars, columns, statusOf, typeOf, triesOf, inputOf, payloadOf, toPublish, Stored

(* A step of enqueue before it writes: the tables are what they were.      *)
LEMMA TablesKept ==
  ASSUME MemoryTypes, InStep, LateRuns, UNCHANGED tableVars,
         pc' \in [Threads -> {"idle", "scan", "insert", "outbox"}],
         req' \in [Threads -> [type : JobTypes \cup {NoRow}, input : Payloads]],
         scanned' \in [Threads -> SUBSET JobIds], newId' = newId
  PROVE  MemoryTypes' /\ InStep' /\ LateRuns'
<1>1. UNCHANGED <<jobs, outbox, published, typeConfig, late, nextJob, nextOutbox>>
  BY DEF tableVars
<1>2. MemoryTypes'
  BY <1>1 DEF MemoryTypes, Ids
<1>3. InStep' /\ LateRuns'
  BY <1>1 DEF InStep, LateRuns, Ids
<1> QED
  BY <1>2, <1>3

(* enqueue is called: a stutter of the tables.                             *)
LEMMA EnterKeeps ==
  ASSUME MemoryInv, NEW h \in Threads, \A g \in Threads \ {h} : pc[g] = "idle",
         NEW t \in JobTypes, NEW input \in Inputs, Enter(h, t, input)
  PROVE  MemoryInv'
<1>1. UNCHANGED <<jobs, outbox, published, typeConfig, late, nextJob, nextOutbox>>
      /\ UNCHANGED tableVars /\ newId' = newId
  BY DEF Enter, tableVars
<1>2. input \in Payloads
  BY MemoryAssumption DEF Payloads
<1>3. [type |-> t, input |-> input] \in [type : JobTypes \cup {NoRow}, input : Payloads]
  BY <1>2
<1>4. /\ pc' \in [Threads -> {"idle", "scan", "insert", "outbox"}]
      /\ req' \in [Threads -> [type : JobTypes \cup {NoRow}, input : Payloads]]
      /\ scanned' \in [Threads -> SUBSET JobIds]
      /\ pc[h] = "idle" /\ pc'[h] = "scan" /\ scanned'[h] = {}
      /\ req'[h] = [type |-> t, input |-> input]
      /\ \A g \in Threads : g # h => pc'[g] = "idle"
  BY <1>3 DEF MemoryInv, MemoryTypes, Enter
<1>5. MemoryTypes' /\ InStep' /\ LateRuns'
  BY <1>1, <1>4, TablesKept DEF MemoryInv
<1>6. \A g \in Threads : Waiting(g)
  BY <1>4 DEF Waiting
<1>7. Calling'
  BY <1>1, <1>4, <1>6 DEF MemoryInv, Calling, Waiting, Ids
<1> QED
  BY <1>5, <1>7 DEF MemoryInv

(* _active looks at one job: a stutter of the tables.                      *)
LEMMA ScanKeeps ==
  ASSUME MemoryInv, NEW h \in Threads, \A g \in Threads \ {h} : pc[g] = "idle",
         (\E j \in JobIds : ScanPasses(h, j)) \/ ScanEnds(h)
  PROVE  MemoryInv'
<1>1. UNCHANGED <<jobs, outbox, published, typeConfig, late, nextJob, nextOutbox>>
      /\ UNCHANGED tableVars /\ newId' = newId /\ req' = req /\ pc[h] = "scan"
  BY DEF ScanPasses, ScanEnds, tableVars
<1>2. \A g \in Threads : Waiting(g)
  BY <1>1 DEF Waiting
<1>3. CASE ScanEnds(h)
  <2>1. /\ pc' \in [Threads -> {"idle", "scan", "insert", "outbox"}] /\ scanned' = scanned
        /\ \A g \in Threads : pc'[g] = "idle"
    BY <1>3 DEF MemoryInv, MemoryTypes, ScanEnds
  <2>2. MemoryTypes' /\ InStep' /\ LateRuns'
    BY <1>1, <2>1, TablesKept DEF MemoryInv, MemoryTypes
  <2>3. Calling'
    BY <1>1, <1>2, <2>1 DEF MemoryInv, Calling, Waiting, Ids
  <2> QED
    BY <2>2, <2>3 DEF MemoryInv
<1>4. ASSUME NEW j \in JobIds, ScanPasses(h, j) PROVE MemoryInv'
  <2>1. /\ pc' = pc /\ scanned' \in [Threads -> SUBSET JobIds]
        /\ scanned'[h] = scanned[h] \cup {j} /\ ~Matches(h, j)
        /\ \A g \in Threads : g # h => scanned'[g] = scanned[g]
    BY <1>4 DEF MemoryInv, MemoryTypes, ScanPasses
  <2>2. MemoryTypes' /\ InStep' /\ LateRuns'
    BY <1>1, <2>1, TablesKept DEF MemoryInv, MemoryTypes
  <2>3. \A k \in scanned'[h] \cap Ids : ~Matches(h, k)
    BY <1>1, <2>1 DEF MemoryInv, Calling
  <2>4. Calling'
    BY <1>1, <1>2, <2>1, <2>3 DEF MemoryInv, Calling, Waiting, Ids, Matches
  <2> QED
    BY <2>2, <2>4 DEF MemoryInv
<1> QED
  BY <1>3, <1>4

(* The whole dictionary has been passed: no active job of the type.        *)
LEMMA DrawIdKeeps ==
  ASSUME MemoryInv, NEW h \in Threads, \A g \in Threads \ {h} : pc[g] = "idle", DrawId(h)
  PROVE  MemoryInv' /\ UNCHANGED columns
<1>1. /\ UNCHANGED <<jobs, outbox, published, typeConfig, late, nextOutbox, req, scanned>>
      /\ pc[h] = "scan" /\ Ids \subseteq scanned[h] /\ nextJob \in JobIds
      /\ newId' = [newId EXCEPT ![h] = nextJob] /\ nextJob' = nextJob + 1
      /\ pc' = [pc EXCEPT ![h] = "insert"]
  BY DEF DrawId
<1>2. /\ pc' \in [Threads -> {"idle", "scan", "insert", "outbox"}]
      /\ newId' \in [Threads -> JobIds \cup {0}]
      /\ pc'[h] = "insert" /\ newId'[h] = nextJob
      /\ \A g \in Threads : g # h => pc'[g] = "idle"
  BY <1>1 DEF MemoryInv, MemoryTypes
<1>3. MemoryTypes'
  BY <1>1, <1>2 DEF MemoryInv, MemoryTypes, Ids
<1>4. InStep' /\ LateRuns'
  BY <1>1 DEF MemoryInv, InStep, LateRuns, Ids
<1>5. Ids = DOMAIN outbox /\ nextJob = nextOutbox
  BY <1>1 DEF MemoryInv, Calling, Waiting
<1>6. NoneActive(h)
  BY <1>1, <1>5 DEF MemoryInv, Calling, NoneActive
<1>7. Calling'
  <2>1. NoneActive(h)'
    BY <1>1, <1>6 DEF NoneActive, Matches
  <2>2. req'[h].type \in JobTypes /\ req'[h].input \in Inputs /\ Ids' = DOMAIN outbox'
    BY <1>1, <1>5 DEF MemoryInv, Calling, Ids
  <2> QED
    BY <1>1, <1>2, <1>5, <2>1, <2>2 DEF Calling, Waiting
<1>8. UNCHANGED columns
  BY <1>1 DEF columns, statusOf, typeOf, triesOf, inputOf, payloadOf, toPublish, Stored
<1> QED
  BY <1>3, <1>4, <1>7, <1>8 DEF MemoryInv

(* The new job is in _jobs and not stored yet: its outbox row is missing.  *)
LEMMA InsertJobKeeps ==
  ASSUME MemoryInv, NEW h \in Threads, \A g \in Threads \ {h} : pc[g] = "idle", InsertJob(h)
  PROVE  MemoryInv' /\ UNCHANGED columns
<1> DEFINE id == newId[h]
           row == NewRow(h)
<1>1. /\ UNCHANGED <<outbox, published, typeConfig, late, nextJob, nextOutbox,
                     req, scanned, newId>>
      /\ pc[h] = "insert" /\ pc' = [pc EXCEPT ![h] = "outbox"]
      /\ jobs' = Put(jobs, id, row)
  BY DEF InsertJob, NewRow
<1>2. /\ id = nextOutbox /\ id \in JobIds /\ nextJob = nextOutbox + 1 /\ NoneActive(h)
      /\ Ids = DOMAIN outbox /\ req[h].type \in JobTypes /\ req[h].input \in Inputs
  BY <1>1 DEF MemoryInv, Calling
<1>3. id \notin DOMAIN outbox
  BY <1>2 DEF MemoryInv, InStep, MemoryTypes
<1>4. row \in Rows
  BY <1>2, MemoryAssumption DEF NewRow, Rows, Statuses, Active, Payloads, EmptyInput
<1> HIDE DEF id, row
<1>5. /\ DOMAIN jobs' = Ids \cup {id} /\ jobs'[id] = row
      /\ \A j \in Ids : jobs'[j] = jobs[j]
  BY <1>1, <1>2, <1>3 DEF Put, Ids
<1>6. /\ pc' \in [Threads -> {"idle", "scan", "insert", "outbox"}]
      /\ pc'[h] = "outbox" /\ \A g \in Threads : g # h => pc'[g] = "idle"
  BY <1>1 DEF MemoryInv, MemoryTypes
<1>7. MemoryTypes'
  BY <1>1, <1>2, <1>4, <1>5, <1>6 DEF MemoryInv, MemoryTypes, Ids
<1>8. InStep' /\ LateRuns'
  BY <1>1, <1>5 DEF MemoryInv, InStep, LateRuns, Ids
<1>9. Calling'
  <2>1. NoneActive(h)'
    BY <1>1, <1>2, <1>5 DEF NoneActive, Matches
  <2>2. Ids' = DOMAIN outbox' \cup {newId'[h]} /\ jobs'[newId'[h]] = NewRow(h)'
    BY <1>1, <1>2, <1>5 DEF Ids, id, row, NewRow
  <2>3. newId'[h] = nextOutbox' /\ newId'[h] \in JobIds /\ nextJob' = nextOutbox' + 1
        /\ req'[h].type \in JobTypes /\ req'[h].input \in Inputs
    BY <1>1, <1>2 DEF id
  <2> QED
    BY <1>6, <2>1, <2>2, <2>3 DEF Calling, Waiting
<1>10. UNCHANGED columns
  <2>1. Stored = DOMAIN outbox /\ Stored' = Stored
    BY <1>1, StoredRows DEF MemoryInv, Stored
  <2>2. \A j \in Stored : jobs'[j] = jobs[j]
    BY <1>2, <1>5, <2>1
  <2> QED
    BY <1>1, <2>1, <2>2 DEF columns, statusOf, typeOf, triesOf, inputOf, payloadOf, toPublish
<1> QED
  BY <1>7, <1>8, <1>9, <1>10 DEF MemoryInv

(* The outbox row makes the job appear: this step is Postgres's COMMIT.    *)
LEMMA InsertOutboxKeeps ==
  ASSUME MemoryInv, NEW h \in Threads, \A g \in Threads \ {h} : pc[g] = "idle",
         InsertOutbox(h)
  PROVE  MemoryInv' /\ Tables!StoreStep
<1> DEFINE id == newId[h]
<1>1. /\ UNCHANGED <<jobs, published, typeConfig, late, nextJob, req, scanned, newId>>
      /\ pc[h] = "outbox" /\ pc' = [pc EXCEPT ![h] = "idle"]
      /\ outbox' = Put(outbox, nextOutbox, id) /\ nextOutbox' = nextOutbox + 1
  BY DEF InsertOutbox
<1>2. /\ id = nextOutbox /\ id \in JobIds /\ nextJob = nextOutbox + 1 /\ NoneActive(h)
      /\ Ids = DOMAIN outbox \cup {id} /\ jobs[id] = NewRow(h)
      /\ req[h].type \in JobTypes /\ req[h].input \in Inputs
  BY <1>1 DEF MemoryInv, Calling
<1>3. DOMAIN outbox = 1 .. nextOutbox - 1 /\ nextOutbox \in Nat \ {0}
      /\ published \subseteq DOMAIN outbox /\ \A m \in DOMAIN outbox : outbox[m] = m
  BY DEF MemoryInv, InStep, MemoryTypes
<1> HIDE DEF id
<1>4. /\ DOMAIN outbox' = DOMAIN outbox \cup {id} /\ id \notin DOMAIN outbox
      /\ \A m \in DOMAIN outbox' : outbox'[m] = m
  BY <1>1, <1>2, <1>3 DEF Put
<1>5. /\ pc' \in [Threads -> {"idle", "scan", "insert", "outbox"}]
      /\ \A g \in Threads : pc'[g] = "idle"
  BY <1>1 DEF MemoryInv, MemoryTypes
<1>6. MemoryTypes'
  BY <1>1, <1>3, <1>5 DEF MemoryInv, MemoryTypes, Ids
<1>7. InStep'
  <2>1. DOMAIN outbox' = 1 .. nextOutbox' - 1
    BY <1>1, <1>2, <1>3, <1>4
  <2> QED
    BY <1>1, <1>3, <1>4, <2>1 DEF InStep
<1>8. LateRuns'
  BY <1>1 DEF MemoryInv, LateRuns, Ids
<1>9. Calling'
  <2>1. Ids' = DOMAIN outbox' /\ nextJob' = nextOutbox'
    BY <1>1, <1>2, <1>4 DEF Ids
  <2> QED
    BY <1>5, <2>1 DEF Calling, Waiting
<1>10. Stored = DOMAIN outbox /\ toPublish = DOMAIN outbox \ published
       /\ Stored' = DOMAIN outbox' /\ toPublish' = DOMAIN outbox' \ published'
  <2>1. Stored' = DOMAIN outbox' /\ toPublish' = DOMAIN outbox' \ published'
    BY <1>7 DEF InStep, Stored, toPublish
  <2> QED
    BY <2>1, StoredRows DEF MemoryInv
<1>11. jobs[id].type = req[h].type /\ jobs[id].status = "queued" /\ jobs[id].attempts = 0
       /\ jobs[id].input = req[h].input /\ jobs[id].payload = EmptyInput
  BY <1>2 DEF NewRow
<1>12. /\ statusOf' = [statusOf EXCEPT ![id] = "queued"]
       /\ typeOf' = [typeOf EXCEPT ![id] = req[h].type]
       /\ triesOf' = triesOf
       /\ inputOf' = [inputOf EXCEPT ![id] = req[h].input]
       /\ payloadOf' = payloadOf
       /\ toPublish' = toPublish \cup {id}
  <2>1. statusOf' = [statusOf EXCEPT ![id] = "queued"]
    BY <1>1, <1>2, <1>4, <1>10, <1>11 DEF statusOf
  <2>2. typeOf' = [typeOf EXCEPT ![id] = req[h].type]
    BY <1>1, <1>2, <1>4, <1>10, <1>11 DEF typeOf
  <2>3. triesOf' = triesOf
    BY <1>1, <1>2, <1>4, <1>10, <1>11 DEF triesOf
  <2>4. inputOf' = [inputOf EXCEPT ![id] = req[h].input]
    BY <1>1, <1>2, <1>4, <1>10, <1>11 DEF inputOf
  <2>5. payloadOf' = payloadOf
    BY <1>1, <1>2, <1>4, <1>10, <1>11 DEF payloadOf
  <2>6. toPublish' = toPublish \cup {id}
    BY <1>1, <1>3, <1>4, <1>10
  <2> QED
    BY <2>1, <2>2, <2>3, <2>4, <2>5, <2>6
<1>13. statusOf[id] = "absent" /\ Tables!SlotFree(req[h].type)
  <2>1. \A k \in JobIds : typeOf[k] = req[h].type => statusOf[k] \notin Active
    BY <1>2, <1>10 DEF typeOf, statusOf, NoneActive, Matches, Active
  <2> QED
    BY <1>2, <1>4, <1>10, <2>1 DEF Tables!SlotFree, Tables!Active, Active, statusOf
<1>14. Tables!InsertJob(id, req[h].type, req[h].input)
  BY <1>1, <1>12, <1>13 DEF Tables!InsertJob
<1>15. Tables!StoreStep
  BY <1>2, <1>14 DEF Tables!StoreStep
<1> QED
  BY <1>6, <1>7, <1>8, <1>9, <1>15 DEF MemoryInv

-----------------------------------------------------------------------------
AllIdle == \A h \in Threads : pc[h] = "idle"

(* Between calls, a method that rewrites one row keeps the invariant and   *)
(* rewrites the same row of the tables.                                    *)
LEMMA RowChange ==
  ASSUME MemoryInv, AllIdle, NEW j \in Ids, NEW st \in Statuses, NEW n \in Nat,
         NEW p \in Payloads, DOMAIN jobs' = Ids, \A k \in Ids : k # j => jobs'[k] = jobs[k],
         jobs'[j] = [type |-> jobs[j].type, status |-> st, attempts |-> n,
                     input |-> jobs[j].input, payload |-> p],
         published' \subseteq DOMAIN outbox, late' = late \ {j},
         UNCHANGED <<outbox, typeConfig, nextJob, nextOutbox, callVars>>
  PROVE  /\ MemoryInv'
         /\ statusOf' = [statusOf EXCEPT ![j] = st] /\ typeOf' = typeOf
         /\ triesOf' = [triesOf EXCEPT ![j] = n] /\ inputOf' = inputOf
         /\ payloadOf' = [payloadOf EXCEPT ![j] = p]
         /\ toPublish' = DOMAIN outbox \ published'
<1>1. /\ j \in JobIds /\ jobs[j] \in Rows /\ \A k \in Ids : k \in JobIds /\ jobs[k] \in Rows
  BY DEF MemoryInv, MemoryTypes
<1>2. jobs'[j] \in Rows
  BY <1>1 DEF Rows
<1>3. UNCHANGED <<pc, req, scanned, newId>>
  BY DEF callVars
<1>4. MemoryTypes'
  BY <1>1, <1>2, <1>3 DEF MemoryInv, MemoryTypes, Ids
<1>5. InStep'
  BY DEF MemoryInv, InStep
<1>6. LateRuns'
  BY DEF MemoryInv, LateRuns, Ids
<1>7. Ids = DOMAIN outbox /\ nextJob = nextOutbox
  BY DEF MemoryInv, Calling, AllIdle, Waiting
<1>8. Calling'
  BY <1>3, <1>7 DEF AllIdle, Calling, Ids, Waiting
<1>9. Stored = Ids /\ Stored' = Stored
  BY <1>7, StoredRows DEF MemoryInv, Stored
<1> DEFINE same(k) == /\ jobs'[k].status = jobs[k].status /\ jobs'[k].type = jobs[k].type
                      /\ jobs'[k].attempts = jobs[k].attempts
                      /\ jobs'[k].input = jobs[k].input /\ jobs'[k].payload = jobs[k].payload
<1>10. /\ jobs'[j].status = st /\ jobs'[j].type = jobs[j].type /\ jobs'[j].attempts = n
      /\ jobs'[j].input = jobs[j].input /\ jobs'[j].payload = p
      /\ \A k \in Ids : k # j => same(k)
  OBVIOUS
<1>11. statusOf' = [statusOf EXCEPT ![j] = st]
  BY <1>1, <1>9, <1>10 DEF statusOf
<1>12. typeOf' = typeOf
  BY <1>1, <1>9, <1>10 DEF typeOf
<1>13. triesOf' = [triesOf EXCEPT ![j] = n]
  BY <1>1, <1>9, <1>10 DEF triesOf
<1>14. inputOf' = inputOf
  BY <1>1, <1>9, <1>10 DEF inputOf
<1>15. payloadOf' = [payloadOf EXCEPT ![j] = p]
  BY <1>1, <1>9, <1>10 DEF payloadOf
<1>16. toPublish' = DOMAIN outbox \ published'
  BY <1>5 DEF InStep, toPublish
<1> QED
  BY <1>4, <1>5, <1>6, <1>8, <1>11, <1>12, <1>13, <1>14, <1>15, <1>16 DEF MemoryInv

(* The columns of a stored row.                                            *)
LEMMA StoredColumns ==
  ASSUME MemoryInv, AllIdle, NEW j \in Ids
  PROVE  /\ j \in JobIds /\ j \in DOMAIN outbox /\ outbox[j] = j
         /\ jobs[j] \in Rows
         /\ jobs[j] = [type |-> jobs[j].type, status |-> jobs[j].status,
                       attempts |-> jobs[j].attempts, input |-> jobs[j].input,
                       payload |-> jobs[j].payload]
         /\ statusOf[j] = jobs[j].status /\ typeOf[j] = jobs[j].type
         /\ triesOf[j] = jobs[j].attempts /\ inputOf[j] = jobs[j].input
         /\ payloadOf[j] = jobs[j].payload
         /\ toPublish = DOMAIN outbox \ published /\ published \subseteq DOMAIN outbox
<1>1. j \in JobIds /\ jobs[j] \in Rows
  BY DEF MemoryInv, MemoryTypes
<1>2. Ids = DOMAIN outbox
  BY DEF MemoryInv, Calling, AllIdle, Waiting
<1>3. Stored = Ids /\ toPublish = DOMAIN outbox \ published
  BY <1>2, StoredRows DEF MemoryInv
<1>4. outbox[j] = j /\ published \subseteq DOMAIN outbox
  BY <1>2 DEF MemoryInv, InStep
<1>5. /\ statusOf[j] = jobs[j].status /\ typeOf[j] = jobs[j].type
      /\ triesOf[j] = jobs[j].attempts /\ inputOf[j] = jobs[j].input
      /\ payloadOf[j] = jobs[j].payload
  BY <1>1, <1>3 DEF statusOf, typeOf, triesOf, inputOf, payloadOf
<1>6. jobs[j] = [type |-> jobs[j].type, status |-> jobs[j].status,
                 attempts |-> jobs[j].attempts, input |-> jobs[j].input,
                 payload |-> jobs[j].payload]
  BY <1>1 DEF Rows
<1> QED
  BY <1>1, <1>2, <1>3, <1>4, <1>5, <1>6

(* A method that only moves a row's status.                                *)
LEMMA StatusChange ==
  ASSUME MemoryInv, AllIdle, NEW j \in Ids, NEW to \in Statuses, SetStatus(j, to),
         published' \subseteq DOMAIN outbox,
         UNCHANGED <<outbox, typeConfig, nextJob, nextOutbox, callVars>>
  PROVE  /\ MemoryInv'
         /\ statusOf' = [statusOf EXCEPT ![j] = to]
         /\ UNCHANGED <<typeOf, triesOf, inputOf, payloadOf>>
         /\ toPublish' = DOMAIN outbox \ published'
<1> DEFINE row == jobs[j]
<1>1. /\ row \in Rows /\ j \in JobIds
      /\ row = [type |-> row.type, status |-> row.status, attempts |-> row.attempts,
                input |-> row.input, payload |-> row.payload]
      /\ triesOf[j] = row.attempts /\ payloadOf[j] = row.payload
  BY StoredColumns
<1>2. late' = late \ {j} /\ jobs' = [jobs EXCEPT ![j] = [row EXCEPT !.status = to]]
  BY DEF SetStatus
<1>3. [row EXCEPT !.status = to]
        = [type |-> row.type, status |-> to, attempts |-> row.attempts,
           input |-> row.input, payload |-> row.payload]
  <2> HIDE DEF row
  <2> QED
    BY <1>1
<1>4. /\ DOMAIN jobs' = Ids /\ \A k \in Ids : k # j => jobs'[k] = jobs[k]
      /\ jobs'[j] = [type |-> jobs[j].type, status |-> to, attempts |-> jobs[j].attempts,
                     input |-> jobs[j].input, payload |-> jobs[j].payload]
  BY <1>2, <1>3 DEF Ids
<1>5. jobs[j].attempts \in Nat /\ jobs[j].payload \in Payloads /\ late' = late \ {j}
  BY <1>1, <1>2 DEF Rows
<1>6. /\ MemoryInv' /\ statusOf' = [statusOf EXCEPT ![j] = to]
      /\ typeOf' = typeOf /\ inputOf' = inputOf
      /\ triesOf' = [triesOf EXCEPT ![j] = jobs[j].attempts]
      /\ payloadOf' = [payloadOf EXCEPT ![j] = jobs[j].payload]
      /\ toPublish' = DOMAIN outbox \ published'
  BY <1>4, <1>5, RowChange
<1>7. /\ triesOf = [k \in JobIds |-> triesOf[k]]
      /\ payloadOf = [k \in JobIds |-> payloadOf[k]]
  BY DEF triesOf, payloadOf
<1>8. triesOf' = triesOf /\ payloadOf' = payloadOf
  BY <1>1, <1>6, <1>7
<1> QED
  BY <1>6, <1>8

-----------------------------------------------------------------------------
(* mark_dispatched is the UPDATE of outbox and jobs.                       *)
LEMMA MarkDispatchedKeeps ==
  ASSUME MemoryInv, AllIdle, NEW m \in DOMAIN outbox, MarkDispatched(m, outbox[m]),
         UNCHANGED callVars
  PROVE  MemoryInv' /\ Tables!StoreStep
<1>1. outbox[m] = m /\ m \in Ids
  BY DEF MemoryInv, InStep, Calling, AllIdle, Waiting
<1>2. /\ m \in JobIds /\ statusOf[m] = jobs[m].status
      /\ toPublish = DOMAIN outbox \ published /\ published \subseteq DOMAIN outbox
  BY <1>1, StoredColumns
<1>3. /\ published' = published \cup {m} /\ published' \subseteq DOMAIN outbox
      /\ UNCHANGED <<outbox, typeConfig, nextJob, nextOutbox, callVars>>
  BY <1>1, <1>2 DEF MarkDispatched
<1>4. DOMAIN outbox \ published' = toPublish \ {m}
  BY <1>2, <1>3
<1>5. CASE jobs[m].status = "queued"
  <2>1. SetStatus(m, "dispatched") /\ "dispatched" \in Statuses
    BY <1>1, <1>5 DEF MarkDispatched, Statuses, Active
  <2>2. /\ MemoryInv' /\ statusOf' = [statusOf EXCEPT ![m] = "dispatched"]
        /\ UNCHANGED <<typeOf, triesOf, inputOf, payloadOf>>
        /\ toPublish' = DOMAIN outbox \ published'
    BY <1>1, <1>3, <2>1, StatusChange
  <2>3. late' = late
    BY <1>5, <2>1 DEF SetStatus, MemoryInv, LateRuns
  <2>4. Tables!MarkDispatched(m)
    BY <1>2, <1>3, <1>4, <1>5, <2>2, <2>3 DEF Tables!MarkDispatched
  <2> QED
    BY <1>2, <2>2, <2>4 DEF Tables!StoreStep
<1>6. CASE jobs[m].status # "queued"
  <2>1. jobs' = jobs /\ late' = late
    BY <1>1, <1>6 DEF MarkDispatched
  <2>2. UNCHANGED <<pc, req, scanned, newId>>
    BY DEF callVars
  <2>3. MemoryTypes' /\ LateRuns'
    BY <1>3, <2>1, <2>2 DEF MemoryInv, MemoryTypes, LateRuns, Ids
  <2>4. InStep' /\ Calling'
    BY <1>3, <2>1, <2>2
    DEF MemoryInv, InStep, Calling, Ids, Waiting, Matches, NoneActive, NewRow
  <2>5. toPublish' = DOMAIN outbox \ published' /\ Stored' = Stored
    BY <1>3, <2>4 DEF InStep, toPublish, Stored
  <2>6. UNCHANGED <<statusOf, typeOf, triesOf, inputOf, payloadOf>>
    BY <2>1, <2>5 DEF statusOf, typeOf, triesOf, inputOf, payloadOf
  <2>7. Tables!MarkDispatched(m)
    BY <1>2, <1>3, <1>4, <1>6, <2>1, <2>5, <2>6 DEF Tables!MarkDispatched
  <2> QED
    BY <1>2, <2>3, <2>4, <2>7 DEF Tables!StoreStep, MemoryInv
<1> QED
  BY <1>5, <1>6

(* claim is the UPDATE with its guard on the status.                       *)
LEMMA ClaimKeeps ==
  ASSUME MemoryInv, AllIdle, NEW j \in JobIds, Claim(j), UNCHANGED callVars
  PROVE  MemoryInv' /\ Tables!StoreStep
<1>1. /\ j \in Ids /\ jobs[j].status \in {"queued", "dispatched"} /\ SetStatus(j, "running")
      /\ UNCHANGED <<outbox, published, typeConfig, nextJob, nextOutbox, callVars>>
  BY DEF Claim
<1>2. /\ statusOf[j] = jobs[j].status /\ published' \subseteq DOMAIN outbox
      /\ toPublish = DOMAIN outbox \ published' /\ "running" \in Statuses
  BY <1>1, StoredColumns DEF Statuses, Active
<1>3. /\ MemoryInv' /\ statusOf' = [statusOf EXCEPT ![j] = "running"]
      /\ UNCHANGED <<typeOf, triesOf, inputOf, payloadOf>> /\ toPublish' = toPublish
  BY <1>1, <1>2, StatusChange
<1>4. Tables!Claim(j)
  BY <1>1, <1>2, <1>3 DEF Tables!Claim, Tables!Claimable, SetStatus
<1> QED
  BY <1>3, <1>4 DEF Tables!StoreStep

(* complete, fail and dead_letter end a running job.                       *)
LEMMA EndKeeps ==
  ASSUME MemoryInv, AllIdle, NEW j \in JobIds, NEW to \in {"completed", "failed"},
         End(j, to), UNCHANGED callVars
  PROVE  MemoryInv' /\ Tables!StoreStep
<1>1. /\ j \in Ids /\ jobs[j].status = "running" /\ SetStatus(j, to)
      /\ UNCHANGED <<outbox, published, typeConfig, nextJob, nextOutbox, callVars>>
  BY DEF End
<1>2. /\ statusOf[j] = jobs[j].status /\ published' \subseteq DOMAIN outbox
      /\ toPublish = DOMAIN outbox \ published' /\ to \in Statuses
  BY <1>1, StoredColumns DEF Statuses
<1>3. /\ MemoryInv' /\ statusOf' = [statusOf EXCEPT ![j] = to]
      /\ UNCHANGED <<typeOf, triesOf, inputOf, payloadOf>> /\ toPublish' = toPublish
  BY <1>1, <1>2, StatusChange
<1>4. Tables!GuardedUpdate(j, to)
  BY <1>1, <1>2, <1>3 DEF Tables!GuardedUpdate, SetStatus
<1>5. Tables!Complete(j) \/ Tables!Fail(j)
  BY <1>4 DEF Tables!Complete, Tables!Fail
<1> QED
  BY <1>3, <1>5 DEF Tables!StoreStep

(* {**base, **input} is base || input.                                     *)
LEMMA ResolveKeeps ==
  ASSUME MemoryInv, AllIdle, NEW j \in JobIds, ResolvePayload(j), UNCHANGED callVars
  PROVE  MemoryInv' /\ Tables!StoreStep
<1> DEFINE row == jobs[j]
           base == typeConfig[jobs[j].type]
           merged == [k \in Keys |-> IF jobs[j].input[k] # NoValue
                                       THEN jobs[j].input[k] ELSE base.payload[k]]
<1>1. /\ j \in Ids /\ row.status = "running" /\ base # NoRow /\ late' = late \ {j}
      /\ jobs' = [jobs EXCEPT ![j] = [row EXCEPT !.payload = merged]]
      /\ UNCHANGED <<outbox, published, typeConfig, nextJob, nextOutbox, callVars>>
  BY DEF ResolvePayload
<1>2. /\ statusOf[j] = row.status /\ typeOf[j] = row.type /\ inputOf[j] = row.input
      /\ triesOf[j] = row.attempts
      /\ published' \subseteq DOMAIN outbox /\ toPublish = DOMAIN outbox \ published'
      /\ row \in Rows
      /\ row = [type |-> row.type, status |-> row.status, attempts |-> row.attempts,
                input |-> row.input, payload |-> row.payload]
  BY <1>1, StoredColumns
<1>3. row.type \in JobTypes /\ row.input \in Payloads /\ row.attempts \in Nat
  BY <1>2 DEF Rows
<1>4. base \in ConfigRows
  BY <1>1, <1>3 DEF MemoryInv, MemoryTypes
<1>5. base.payload \in Payloads
  BY <1>4, MemoryAssumption DEF Payloads
<1>6. merged \in Payloads
  BY <1>3, <1>5 DEF Payloads
<1>7. merged = Tables!Merge(typeConfig[typeOf[j]].payload, inputOf[j])
  BY <1>2 DEF Tables!Merge
<1> HIDE DEF merged, base
<1>8. [row EXCEPT !.payload = merged]
        = [type |-> row.type, status |-> row.status, attempts |-> row.attempts,
           input |-> row.input, payload |-> merged]
  <2> HIDE DEF row
  <2> QED
    BY <1>2
<1>9. /\ DOMAIN jobs' = Ids /\ \A k \in Ids : k # j => jobs'[k] = jobs[k]
      /\ jobs'[j] = [type |-> jobs[j].type, status |-> "running", attempts |-> jobs[j].attempts,
                     input |-> jobs[j].input, payload |-> merged]
  BY <1>1, <1>8 DEF Ids
<1>10. /\ MemoryInv' /\ statusOf' = [statusOf EXCEPT ![j] = "running"]
       /\ typeOf' = typeOf /\ inputOf' = inputOf
       /\ triesOf' = [triesOf EXCEPT ![j] = jobs[j].attempts]
       /\ payloadOf' = [payloadOf EXCEPT ![j] = merged]
       /\ toPublish' = toPublish
  <2>1. "running" \in Statuses /\ jobs[j].attempts \in Nat
    BY <1>3 DEF Statuses, Active
  <2> QED
    BY <1>1, <1>2, <1>6, <1>9, <2>1, RowChange
<1>11. statusOf' = statusOf /\ triesOf' = triesOf
  <2>1. /\ triesOf = [k \in JobIds |-> triesOf[k]]
        /\ statusOf = [k \in JobIds |-> statusOf[k]]
    BY DEF triesOf, statusOf
  <2> QED
    BY <1>1, <1>2, <1>10, <2>1
<1>12. Tables!ResolvePayload(j)
  BY <1>1, <1>2, <1>7, <1>10, <1>11 DEF Tables!ResolvePayload, Tables!Resolvable, base
<1> QED
  BY <1>10, <1>12 DEF Tables!StoreStep

(* requeue_stuck re-arms job and outbox row.                               *)
LEMMA RequeueKeeps ==
  ASSUME MemoryInv, AllIdle, NEW j \in JobIds, RequeueStuck(j), UNCHANGED callVars
  PROVE  MemoryInv' /\ Tables!StoreStep
<1> DEFINE row == jobs[j]
           queued == [row EXCEPT !.status = "queued"]
<1>1. /\ j \in Ids /\ row.status = "running" /\ row.attempts < MaxAttempts(row.type)
      /\ late' = late \ {j}
      /\ published' = published \ {m \in DOMAIN outbox : outbox[m] = j}
      /\ UNCHANGED <<outbox, typeConfig, nextJob, nextOutbox, callVars>>
  BY DEF RequeueStuck
<1>2. jobs' = [[jobs EXCEPT ![j] = queued] EXCEPT
                 ![j] = [queued EXCEPT !.attempts = queued.attempts + 1]]
  <2>1. [jobs EXCEPT ![j] = queued][j] = queued
    BY <1>1 DEF Ids
  <2> HIDE DEF queued
  <2>2. jobs' = [[jobs EXCEPT ![j] = queued] EXCEPT
                 ![j] = [[jobs EXCEPT ![j] = queued][j] EXCEPT
                           !.attempts = [jobs EXCEPT ![j] = queued][j].attempts + 1]]
    BY DEF RequeueStuck, queued
  <2> QED
    BY <2>1, <2>2
<1>3. /\ statusOf[j] = row.status /\ typeOf[j] = row.type /\ triesOf[j] = row.attempts
      /\ payloadOf[j] = row.payload /\ j \in DOMAIN outbox
      /\ toPublish = DOMAIN outbox \ published /\ published \subseteq DOMAIN outbox
      /\ row \in Rows
      /\ row = [type |-> row.type, status |-> row.status, attempts |-> row.attempts,
                input |-> row.input, payload |-> row.payload]
  BY <1>1, StoredColumns
<1>4. row.attempts + 1 \in Nat /\ row.payload \in Payloads
  BY <1>3 DEF Rows
<1>5. /\ queued.attempts = row.attempts
      /\ [queued EXCEPT !.attempts = queued.attempts + 1]
        = [type |-> row.type, status |-> "queued", attempts |-> row.attempts + 1,
           input |-> row.input, payload |-> row.payload]
  <2> HIDE DEF row
  <2>1. queued = [type |-> row.type, status |-> "queued", attempts |-> row.attempts,
                  input |-> row.input, payload |-> row.payload]
    BY <1>3
  <2> HIDE DEF queued
  <2> QED
    BY <2>1
<1> HIDE DEF queued
<1>6. /\ DOMAIN jobs' = Ids /\ \A k \in Ids : k # j => jobs'[k] = jobs[k]
      /\ jobs'[j] = [type |-> jobs[j].type, status |-> "queued",
                     attempts |-> jobs[j].attempts + 1,
                     input |-> jobs[j].input, payload |-> jobs[j].payload]
  BY <1>1, <1>2, <1>5 DEF Ids
<1>7. published' = published \ {j}
  BY <1>1, <1>3 DEF MemoryInv, InStep
<1>8. /\ MemoryInv' /\ statusOf' = [statusOf EXCEPT ![j] = "queued"]
      /\ typeOf' = typeOf /\ inputOf' = inputOf
      /\ triesOf' = [triesOf EXCEPT ![j] = jobs[j].attempts + 1]
      /\ payloadOf' = [payloadOf EXCEPT ![j] = jobs[j].payload]
      /\ toPublish' = DOMAIN outbox \ published'
  <2>1. "queued" \in Statuses /\ published' \subseteq DOMAIN outbox
    BY <1>3, <1>7 DEF Statuses, Active
  <2> QED
    BY <1>1, <1>4, <1>6, <2>1, RowChange
<1>9. payloadOf' = payloadOf
  <2>1. payloadOf = [k \in JobIds |-> payloadOf[k]]
    BY DEF payloadOf
  <2> QED
    BY <1>3, <1>8, <2>1
<1>10. toPublish' = toPublish \cup {j}
  BY <1>3, <1>7, <1>8
<1>11. triesOf' = [triesOf EXCEPT ![j] = triesOf[j] + 1]
  BY <1>3, <1>8
<1>12. Tables!Requeueable(j)
  BY <1>1, <1>3 DEF Tables!Requeueable, Tables!Cap, MaxAttempts
<1>13. Tables!RequeueStuck(j)
  BY <1>1, <1>8, <1>9, <1>10, <1>11, <1>12 DEF Tables!RequeueStuck
<1> QED
  BY <1>8, <1>13 DEF Tables!StoreStep

(* set_type_config writes the row of a type.                               *)
LEMMA SetTypeConfigKeeps ==
  ASSUME MemoryInv, AllIdle, NEW t \in JobTypes, NEW row \in ConfigRows,
         SetTypeConfig(t, row), UNCHANGED callVars
  PROVE  MemoryInv' /\ (Tables!StoreStep \/ UNCHANGED columns)
<1>1. /\ typeConfig' = [typeConfig EXCEPT ![t] = row]
      /\ UNCHANGED <<jobs, outbox, published, late, nextJob, nextOutbox,
                     pc, req, scanned, newId>>
  BY DEF SetTypeConfig, callVars
<1>2. MemoryTypes' /\ LateRuns'
  BY <1>1 DEF MemoryInv, MemoryTypes, LateRuns, Ids
<1>3. InStep' /\ Calling'
  BY <1>1 DEF MemoryInv, InStep, Calling, Ids, Waiting, Matches, NoneActive, NewRow
<1>4. UNCHANGED <<statusOf, typeOf, triesOf, inputOf, payloadOf, toPublish>>
  BY <1>1 DEF statusOf, typeOf, triesOf, inputOf, payloadOf, toPublish, Stored
<1>5. CASE typeConfig[t] = row
  <2>1. typeConfig' = typeConfig
    BY <1>1, <1>5 DEF MemoryInv, MemoryTypes
  <2> QED
    BY <1>1, <1>2, <1>3, <1>4, <2>1 DEF columns, MemoryInv
<1>6. CASE typeConfig[t] # row
  <2>1. Tables!SetTypeConfig(t, row)
    BY <1>1, <1>4, <1>6 DEF Tables!SetTypeConfig
  <2> QED
    BY <1>2, <1>3, <2>1 DEF Tables!StoreStep, MemoryInv
<1> QED
  BY <1>5, <1>6

(* A running job passes its timeout.                                       *)
LEMMA GrowsLateKeeps ==
  ASSUME MemoryInv, AllIdle, NEW j \in JobIds, GrowsLate(j), UNCHANGED callVars
  PROVE  MemoryInv' /\ Tables!StoreStep
<1>1. /\ j \in Ids /\ j \notin late /\ jobs[j].status = "running" /\ late' = late \cup {j}
      /\ UNCHANGED <<jobs, outbox, published, typeConfig, nextJob, nextOutbox,
                     pc, req, scanned, newId>>
  BY DEF GrowsLate, callVars
<1>2. MemoryTypes' /\ LateRuns'
  BY <1>1 DEF MemoryInv, MemoryTypes, LateRuns, Ids
<1>3. InStep' /\ Calling'
  BY <1>1 DEF MemoryInv, InStep, Calling, Ids, Waiting, Matches, NoneActive, NewRow
<1>4. UNCHANGED <<statusOf, typeOf, triesOf, inputOf, payloadOf, toPublish>>
  BY <1>1 DEF statusOf, typeOf, triesOf, inputOf, payloadOf, toPublish, Stored
<1>5. statusOf[j] = "running"
  BY <1>1, StoredColumns
<1>6. Tables!Expire(j)
  BY <1>1, <1>4, <1>5 DEF Tables!Expire
<1> QED
  BY <1>2, <1>3, <1>6 DEF Tables!StoreStep, MemoryInv

-----------------------------------------------------------------------------
(* An empty store stands for empty tables.                                 *)
LEMMA InitMemory == ASSUME MemoryInit PROVE MemoryInv /\ Tables!StoreInit
<1>1. DOMAIN jobs = {} /\ DOMAIN outbox = {} /\ DOMAIN outbox = 1 .. 0
  BY DEF MemoryInit
<1>2. EmptyInput \in Payloads
  BY DEF EmptyInput, Payloads
<1>3. NoRequest \in [type : JobTypes \cup {NoRow}, input : Payloads]
  BY <1>2 DEF NoRequest
<1>4. MemoryTypes
  BY <1>1, <1>3 DEF MemoryInit, MemoryTypes, Ids
<1>5. InStep
  BY <1>1 DEF MemoryInit, InStep
<1>6. LateRuns /\ Calling
  BY <1>1 DEF MemoryInit, LateRuns, Calling, Waiting, Ids
<1>7. Stored = {} /\ toPublish = {}
  BY <1>1 DEF Stored, toPublish
<1>8. Tables!StoreInit
  BY <1>7 DEF MemoryInit, Tables!StoreInit, Tables!EmptyPayload, Tables!NoType, EmptyInput,
    statusOf, typeOf, triesOf, inputOf, payloadOf
<1> QED
  BY <1>4, <1>5, <1>6, <1>8 DEF MemoryInv

(* Every step keeps the invariant and is a step of the tables or none.     *)
LEMMA MemoryStep ==
  ASSUME MemoryInv, [SequentialNext]_memoryVars
  PROVE  MemoryInv' /\ (Tables!StoreStep \/ UNCHANGED columns)
<1>1. ASSUME NEW h \in Threads, EnqueueStep(h), \A g \in Threads \ {h} : pc[g] = "idle"
      PROVE  MemoryInv' /\ (Tables!StoreStep \/ UNCHANGED columns)
  <2>1. CASE \E t \in JobTypes, input \in Inputs : Enter(h, t, input)
    <3>1. UNCHANGED columns
      BY <2>1, SameTables DEF Enter
    <3> QED
      BY <1>1, <2>1, <3>1, EnterKeeps
  <2>2. CASE (\E j \in JobIds : ScanPasses(h, j)) \/ ScanEnds(h)
    <3>1. UNCHANGED columns
      BY <2>2, SameTables DEF ScanPasses, ScanEnds
    <3> QED
      BY <1>1, <2>2, <3>1, ScanKeeps
  <2> QED
    BY <1>1, <2>1, <2>2, DrawIdKeeps, InsertJobKeeps, InsertOutboxKeeps DEF EnqueueStep
<1>2. CASE /\ \A h \in Threads : pc[h] = "idle"
           /\ \/ \E m \in DOMAIN outbox : MarkDispatched(m, outbox[m])
              \/ \E j \in JobIds :
                   \/ Claim(j) \/ ResolvePayload(j) \/ RequeueStuck(j) \/ GrowsLate(j)
                   \/ \E to \in {"completed", "failed"} : End(j, to)
              \/ \E t \in JobTypes, row \in ConfigRows : SetTypeConfig(t, row)
           /\ UNCHANGED callVars
  <2>1. AllIdle
    BY <1>2 DEF AllIdle
  <2> QED
    BY <1>2, <2>1, MarkDispatchedKeeps, ClaimKeeps, ResolveKeeps, RequeueKeeps,
       GrowsLateKeeps, EndKeeps, SetTypeConfigKeeps
<1>3. CASE UNCHANGED memoryVars
  <2>1. UNCHANGED <<jobs, outbox, published, typeConfig, late, nextJob, nextOutbox,
                    pc, req, scanned, newId>>
    BY <1>3 DEF memoryVars, tableVars, callVars
  <2>2. UNCHANGED columns
    BY <1>3, SameTables DEF memoryVars
  <2>3. MemoryTypes' /\ LateRuns' /\ InStep'
    BY <2>1 DEF MemoryInv, MemoryTypes, LateRuns, InStep, Ids
  <2>4. Calling'
    BY <2>1 DEF MemoryInv, Calling, Ids, Waiting, Matches, NoneActive, NewRow
  <2> QED
    BY <2>2, <2>3, <2>4 DEF MemoryInv
<1> QED
  BY <1>1, <1>2, <1>3 DEF SequentialNext

(* The inductive invariant of the in-memory store.                         *)
LEMMA MemoryInvariant == SequentialSpec => []MemoryInv
<1>1. MemoryInit => MemoryInv
  BY InitMemory
<1>2. MemoryInv /\ [SequentialNext]_memoryVars => MemoryInv'
  BY MemoryStep
<1> QED
  BY <1>1, <1>2, PTL DEF SequentialSpec

(* InMemoryStore, called from one thread, changes its dictionaries exactly *)
(* as the Postgres store changes its tables: the tests that run on it run  *)
(* on JobStore.                                                            *)
THEOREM MemoryMirrorsPostgres == SequentialSpec => MirrorsPostgres
<1>1. MemoryInit => Tables!StoreInit
  BY InitMemory
<1>2. MemoryInv /\ [SequentialNext]_memoryVars => [Tables!StoreStep]_(Tables!storeVars)
  BY MemoryStep DEF columns, Tables!storeVars
<1> QED
  BY <1>1, <1>2, MemoryInvariant, PTL DEF SequentialSpec, MirrorsPostgres, Tables!StoreSpec

(* ... and its fetch_unpublished and find_stuck return what the SELECTs    *)
(* would, also while an enqueue is under way.                              *)
THEOREM MemoryReadsMirror == SequentialSpec => []ReadsMirrorPostgres
<1>1. MemoryInv => ReadsMirrorPostgres
  <2>1. SUFFICES ASSUME MemoryInv PROVE ReadsMirrorPostgres
    OBVIOUS
  <2>2. Stored = DOMAIN outbox /\ toPublish = DOMAIN outbox \ published
        /\ \A m \in DOMAIN outbox : outbox[m] = m
    BY <2>1, StoredRows DEF MemoryInv, InStep
  <2>3. FindStuck = Tables!FindStuck
    <3>1. /\ DOMAIN outbox \subseteq Ids /\ Ids \subseteq JobIds
          /\ \A j \in Ids \ DOMAIN outbox : jobs[j].status = "queued"
      <4>1. Ids \subseteq JobIds
        BY <2>1 DEF MemoryInv, MemoryTypes
      <4>2. CASE \A h \in Threads : Waiting(h)
        BY <2>1, <4>1, <4>2 DEF MemoryInv, Calling
      <4>3. ASSUME NEW h \in Threads, ~Waiting(h)
            PROVE  /\ DOMAIN outbox \subseteq Ids
                   /\ \A j \in Ids \ DOMAIN outbox : jobs[j].status = "queued"
        <5>1. pc[h] \in {"insert", "outbox"}
          BY <2>1, <4>3 DEF MemoryInv, MemoryTypes, Waiting
        <5>2. CASE pc[h] = "insert"
          BY <2>1, <5>2 DEF MemoryInv, Calling
        <5>3. CASE pc[h] = "outbox"
          <6>1. Ids = DOMAIN outbox \cup {newId[h]} /\ jobs[newId[h]] = NewRow(h)
            BY <2>1, <5>3 DEF MemoryInv, Calling
          <6>2. NewRow(h).status = "queued"
            BY DEF NewRow
          <6> QED
            BY <6>1, <6>2
        <5> QED
          BY <5>1, <5>2, <5>3
      <4> QED
        BY <4>1, <4>2, <4>3
    <3>2. \A j \in DOMAIN outbox : statusOf[j] = jobs[j].status
      BY <2>2, <3>1 DEF statusOf
    <3>3. \A j \in JobIds \ DOMAIN outbox : statusOf[j] = "absent"
      BY <2>2 DEF statusOf
    <3> QED
      BY <3>1, <3>2, <3>3 DEF FindStuck, Tables!FindStuck
  <2>4. ASSUME NEW n PROVE FetchUnpublished(n) = Tables!FetchUnpublished({}, n)
    <3> DEFINE First(rows) == {j \in rows : Cardinality({k \in rows : k < j}) < n}
               rows == DOMAIN outbox \ published
    <3>1. toPublish \ {} = rows
      BY <2>2
    <3>2. FetchUnpublished(n) = {outbox[m] : m \in First(rows)}
      BY Zenon DEF FetchUnpublished
    <3>3. Tables!FetchUnpublished({}, n) = First(toPublish \ {})
      BY Zenon DEF Tables!FetchUnpublished, Tables!Cardinality, Cardinality
    <3>4. First(rows) \subseteq DOMAIN outbox
      OBVIOUS
    <3> HIDE DEF First
    <3>5. First(toPublish \ {}) = First(rows)
      BY <3>1, Zenon
    <3>6. {outbox[m] : m \in First(rows)} = First(rows)
      BY <2>2, <3>4
    <3> QED
      BY <3>2, <3>3, <3>5, <3>6, Zenon
  <2> QED
    BY <2>3, <2>4 DEF ReadsMirrorPostgres
<1> QED
  BY <1>1, MemoryInvariant, PTL

=============================================================================
