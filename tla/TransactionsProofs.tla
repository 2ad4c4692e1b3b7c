------------------------- MODULE TransactionsProofs -------------------------
(***************************************************************************)
(* Theorems about Transactions, for any number of sessions, jobs and       *)
(* types: the methods of db.py never deadlock and are atomic.              *)
(***************************************************************************)
EXTENDS Transactions, TLAPS

(* The tables: a job that is there has a type, one that is not has the     *)
(* column defaults; nobody looks at the clock here.                        *)
RowsOK ==
  /\ \A j \in JobIds : status[j] # "absent" => jobType[j] \in JobTypes
  /\ \A j \in JobIds : status[j] = "absent" => attempts[j] = 0 /\ payload[j] = EmptyPayload
  /\ expired = {}

(* How far a transaction has come, by its method: the statements it has    *)
(* left, whether it has a version of its row, and its outbox locks.        *)
Progress(t) ==
  /\ t.method = "none" => t = Idle
  /\ t.method \in Methods \ {"fetch"} => t.job \in JobIds
  /\ t.method = "fetch" => t.job = 0 /\ t.row = NoRowYet /\ t.todo = <<>>
  /\ t.method = "mark" =>
       /\ t.outbox = {t.job}
       /\ t.todo = <<>> \/ (t.todo = <<"jobs">> /\ t.row = NoRowYet)
  /\ t.method \in {"enqueue", "requeue"} =>
       \/ t.todo = <<>> /\ t.row = NoRowYet /\ t.outbox = {}
       \/ t.todo = <<"outbox">> /\ t.row # NoRowYet /\ t.outbox = {}
       \/ t.todo = <<>> /\ t.row # NoRowYet /\ t.outbox = {t.job}
  /\ t.method \in Methods \ {"fetch", "mark", "enqueue", "requeue"} =>
       t.todo = <<>> /\ t.outbox = {}

NewRow(row) ==
  /\ row.status = "queued" /\ row.type \in JobTypes /\ row.attempts = 0
  /\ row.input \in Inputs /\ row.payload = EmptyPayload

(* What a transaction has seen is still so: the version it wrote is made   *)
(* from the committed row, the type it inserts for is still free, and a    *)
(* mark that passed over its job would still do so.                        *)
Fresh(t) ==
  /\ t.method \in Methods \ {"enqueue", "fetch"} => status[t.job] # "absent"
  /\ t.row # NoRowYet =>
       IF t.method = "enqueue"
         THEN NewRow(t.row) /\ status[t.job] = "absent" /\ SlotFree(t.row.type)
         ELSE Matches(t.method, t.job) /\ t.row = Updated(t.method, t.job)
  /\ t.method = "mark" /\ t.todo = <<>> /\ t.row = NoRowYet => status[t.job] # "queued"

(* Row locks: a row of jobs and an outbox row have one writer each, and a  *)
(* type that is being inserted for has one.                                *)
Apart(t, u) ==
  /\ t.row # NoRowYet /\ u.row # NoRowYet =>
       /\ t.job # u.job
       /\ t.method = "enqueue" => t.row.type # u.row.type
  /\ t.outbox \cap u.outbox = {}

TxInv ==
  /\ TypeOK
  /\ RowsOK
  /\ \A s \in Sessions : Progress(tx[s]) /\ Fresh(tx[s])
  /\ \A s, r \in Sessions : s # r => Apart(tx[s], tx[r])

-----------------------------------------------------------------------------
Transactions == [method : Methods \cup {"none"}, job : JobIds \cup {0},
                 todo : {<<>>, <<"jobs">>, <<"outbox">>},
                 row : JobRows \cup {NoRowYet}, outbox : SUBSET JobIds]

Wrote(s, u) == tx' = [tx EXCEPT ![s] = u] /\ UNCHANGED storeVars

(* The lists of statements are told apart and taken apart.                 *)
LEMMA Todos ==
  /\ <<"jobs">> # <<>> /\ <<"outbox">> # <<>> /\ <<"jobs">> # <<"outbox">>
  /\ Head(<<"jobs">>) = "jobs" /\ Tail(<<"jobs">>) = <<>>
  /\ Head(<<"outbox">>) = "outbox" /\ Tail(<<"outbox">>) = <<>>
  /\ <<"insert">> # <<>> /\ Tail(<<"insert">>) = <<>>
  /\ <<"select">> # <<>> /\ Head(<<"select">>) = "select" /\ Tail(<<"select">>) = <<>>
  /\ <<"insert", "outbox">> # <<>> /\ Head(<<"insert", "outbox">>) = "insert"
  /\ Tail(<<"insert", "outbox">>) = <<"outbox">>
  /\ <<"outbox", "jobs">> # <<>> /\ Head(<<"outbox", "jobs">>) = "outbox"
  /\ Tail(<<"outbox", "jobs">>) = <<"jobs">>
  /\ <<"jobs", "outbox">> # <<>> /\ Head(<<"jobs", "outbox">>) = "jobs"
  /\ Tail(<<"jobs", "outbox">>) = <<"outbox">>
OBVIOUS

(* jsonb || of two payloads is a payload (resolve_payload).                *)
LEMMA MergeType ==
  ASSUME NEW base \in Payloads, NEW input \in Payloads
  PROVE  Merge(base, input) \in Payloads
BY DEF Merge, Payloads

(* A matching UPDATE writes a well-typed version of the row.               *)
LEMMA UpdatedType ==
  ASSUME StoreTypeOK, RowsOK, NEW j \in JobIds, status[j] # "absent",
         NEW m \in Methods \ {"enqueue", "fetch"}, Matches(m, j)
  PROVE  Updated(m, j) \in JobRows /\ Updated(m, j).type = jobType[j]
<1>1. Committed(j) \in JobRows /\ Committed(j).type = jobType[j]
  BY DEF Committed, JobRows, StoreTypeOK, RowsOK
<1>2. CASE m = "resolve"
  <2>1. config[jobType[j]] \in ConfigRows
    BY <1>2 DEF Matches, Resolvable, StoreTypeOK, RowsOK
  <2>2. Merge(config[jobType[j]].payload, inputPayload[j]) \in Payloads
    BY <2>1, MergeType, StoreAssumption DEF StoreTypeOK
  <2> HIDE DEF Committed
  <2> QED
    BY <1>1, <1>2, <2>2 DEF Updated, JobRows
<1>3. CASE m = "requeue"
  <2> DEFINE queued == [Committed(j) EXCEPT !.status = "queued"]
  <2>1. /\ queued \in JobRows /\ queued.type = jobType[j]
        /\ queued.attempts + 1 \in Nat
    BY <1>1 DEF JobRows, Statuses, Active
  <2>2. Updated(m, j) = [queued EXCEPT !.attempts = queued.attempts + 1]
    BY <1>3 DEF Updated
  <2> HIDE DEF queued
  <2> QED
    BY <2>1, <2>2 DEF JobRows
<1>4. CASE m \notin {"resolve", "requeue"}
  <2>1. \E st \in Statuses : Updated(m, j) = [Committed(j) EXCEPT !.status = st]
    BY <1>4 DEF Updated, Methods, Statuses, Active, Terminal
  <2> QED
    BY <1>1, <2>1 DEF JobRows
<1> QED
  BY <1>2, <1>3, <1>4

(* A statement writes its session's transaction and nothing else, so the   *)
(* invariant is kept if the transaction's new state is in order.           *)
LEMMA WroteKeeps ==
  ASSUME TxInv, NEW s \in Sessions, NEW u \in Transactions, Wrote(s, u),
         Progress(u), Fresh(u),
         \A r \in Others(s) : Apart(u, tx[r]) /\ Apart(tx[r], u)
  PROVE  TxInv'
<1>1. /\ tx \in [Sessions -> Transactions]
      /\ tx' = [tx EXCEPT ![s] = u] /\ tx' \in [Sessions -> Transactions]
      /\ tx'[s] = u /\ \A r \in Sessions : r # s => tx'[r] = tx[r]
  BY DEF TxInv, TypeOK, Wrote, Transactions
<1>2. UNCHANGED storeVars
  BY DEF Wrote
<1>3. TypeOK' /\ RowsOK'
  BY <1>1, <1>2 DEF TxInv, TypeOK, Transactions, RowsOK, storeVars, StoreTypeOK
<1>4. ASSUME NEW r \in Sessions PROVE Progress(tx[r])' /\ Fresh(tx[r])'
  <2>1. Progress(tx'[r]) /\ Fresh(tx'[r])
    BY <1>1 DEF TxInv
  <2> QED
    BY <1>2, <2>1 DEF Progress, Fresh, storeVars, SlotFree, Matches, Updated, Committed,
          Markable, Claimable, Resolvable, Requeueable, Cap
<1>5. ASSUME NEW r \in Sessions, NEW q \in Sessions, r # q PROVE Apart(tx[r], tx[q])'
  <2>1. Apart(tx'[r], tx'[q])
    BY <1>1, <1>5 DEF TxInv, Others
  <2> QED
    BY <2>1 DEF Apart
<1> QED
  BY <1>3, <1>4, <1>5 DEF TxInv

-----------------------------------------------------------------------------
(* An UPDATE of jobs only ever matches an active row.                      *)
LEMMA MatchesActive ==
  ASSUME NEW j \in JobIds, NEW m \in Methods \ {"enqueue", "fetch"}, Matches(m, j)
  PROVE  status[j] \in Active
BY DEF Matches, Methods, Markable, Claimable, Resolvable, Requeueable, Active

(* What a session's transaction is after a statement.                      *)
LEMMA DidWrote ==
  ASSUME NEW s \in Sessions, NEW t,
         NEW m, NEW j, NEW todo, NEW row, NEW rows, NEW rest,
         t = [method |-> m, job |-> j, todo |-> todo, row |-> row, outbox |-> rows],
         Tail(todo) = rest, Did(s, t)
  PROVE  Wrote(s, [method |-> m, job |-> j, todo |-> rest, row |-> row, outbox |-> rows])
<1>1. Tail(t.todo) = rest
  OBVIOUS
<1>2. tx' = [tx EXCEPT ![s] = [t EXCEPT !.todo = rest]] /\ UNCHANGED storeVars
  BY <1>1, Zenon DEF Did
<1>3. [t EXCEPT !.todo = rest]
        = [method |-> m, job |-> j, todo |-> rest, row |-> row, outbox |-> rows]
  OBVIOUS
<1> QED
  BY <1>2, <1>3 DEF Wrote

(* enqueue's INSERT keeps the invariant: it has waited for the writers of  *)
(* the type and its id is new.                                             *)
LEMMA InsertKeeps ==
  ASSUME TxInv, NEW s \in Sessions, NEW j \in JobIds, tx[s] = Idle,
         Insert(s, Begin("enqueue", j))
  PROVE  TxInv'
<1> DEFINE begun == Begin("enqueue", j)
<1>1. /\ begun.job = j /\ begun.todo = <<"insert", "outbox">>
      /\ begun = [method |-> "enqueue", job |-> j, todo |-> <<"insert", "outbox">>,
                  row |-> NoRowYet, outbox |-> {}]
  BY DEF Begin, Statements
<1>2. PICK type \in JobTypes, input \in Inputs :
        /\ TypeLockers(s, type) = {}
        /\ status[j] = "absent" /\ \A r \in Others(s) : tx[r].job # j
        /\ \/ /\ SlotFree(type)
              /\ Did(s, [begun EXCEPT !.row = [status |-> "queued", type |-> type, attempts |-> 0,
                                     input |-> input, payload |-> EmptyPayload]])
           \/ ~SlotFree(type) /\ Did(s, [begun EXCEPT !.todo = <<"insert">>])
  BY <1>1 DEF Insert
<1>3. CASE ~SlotFree(type) /\ Did(s, [begun EXCEPT !.todo = <<"insert">>])
  <2> DEFINE u == [method |-> "enqueue", job |-> j, todo |-> <<>>,
                   row |-> NoRowYet, outbox |-> {}]
  <2>1. Wrote(s, u)
    <3>1. [begun EXCEPT !.todo = <<"insert">>]
            = [method |-> "enqueue", job |-> j, todo |-> <<"insert">>,
               row |-> NoRowYet, outbox |-> {}]
      BY <1>1
    <3> QED
      BY <1>3, <3>1, DidWrote, Todos
  <2>2. u \in Transactions /\ Progress(u) /\ Fresh(u)
    BY Todos DEF Transactions, Progress, Fresh, Methods
  <2>3. \A r \in Others(s) : Apart(u, tx[r]) /\ Apart(tx[r], u)
    BY DEF Apart
  <2> HIDE DEF u
  <2> QED
    BY <2>1, <2>2, <2>3, WroteKeeps
<1>4. CASE /\ SlotFree(type)
           /\ Did(s, [begun EXCEPT !.row = [status |-> "queued", type |-> type, attempts |-> 0,
                                     input |-> input, payload |-> EmptyPayload]])
  <2> DEFINE row == [status |-> "queued", type |-> type, attempts |-> 0,
                     input |-> input, payload |-> EmptyPayload]
             u == [method |-> "enqueue", job |-> j, todo |-> <<"outbox">>,
                   row |-> row, outbox |-> {}]
  <2>1. Wrote(s, u)
    <3> HIDE DEF row
    <3>1. [begun EXCEPT !.row = row]
            = [method |-> "enqueue", job |-> j, todo |-> <<"insert", "outbox">>,
               row |-> row, outbox |-> {}]
      BY <1>1
    <3>2. Did(s, [begun EXCEPT !.row = row])
      BY <1>4 DEF row
    <3> QED
      BY <3>1, <3>2, DidWrote, Todos
  <2>2. row \in JobRows /\ NewRow(row) /\ row.type = type
    BY StoreAssumption DEF JobRows, NewRow, EmptyPayload, Payloads, Statuses, Active
  <2> HIDE DEF row
  <2>3. u \in Transactions /\ Progress(u) /\ Fresh(u)
    BY <1>2, <1>4, <2>2, Todos, TransactionsAssumption
    DEF Transactions, Progress, Fresh, Methods
  <2>4. \A r \in Others(s) : Apart(u, tx[r]) /\ Apart(tx[r], u)
    BY <1>2, <2>2 DEF Apart, TypeLockers
  <2> HIDE DEF u
  <2> QED
    BY <2>1, <2>3, <2>4, WroteKeeps
<1> QED
  BY <1>2, <1>3, <1>4

(* A method that begins with an UPDATE of jobs keeps the invariant: a      *)
(* matching row is active, so nobody is inserting for its type.            *)
LEMMA UpdateKeeps ==
  ASSUME TxInv, NEW s \in Sessions, NEW j \in JobIds, tx[s] = Idle,
         NEW m \in Methods \ {"enqueue", "fetch", "mark"}, status[j] # "absent",
         UpdateJobs(s, Begin(m, j))
  PROVE  TxInv'
<1> DEFINE begun == Begin(m, j)
<1>1. begun = [method |-> m, job |-> j, todo |-> Statements(m),
               row |-> NoRowYet, outbox |-> {}]
  BY DEF Begin
<1>2. Tail(Statements(m)) = IF m = "requeue" THEN <<"outbox">> ELSE <<>>
  BY Todos DEF Statements, Methods
<1>3. CASE ~Matches(m, j)
  <2> DEFINE u == [method |-> m, job |-> j, todo |-> <<>>,
                   row |-> NoRowYet, outbox |-> {}]
  <2>1. Did(s, IF m = "requeue" THEN [begun EXCEPT !.todo = <<"jobs">>] ELSE begun)
    BY <1>1, <1>3 DEF UpdateJobs
  <2>2. Wrote(s, u)
    <3>1. CASE m = "requeue"
      <4>1. [begun EXCEPT !.todo = <<"jobs">>]
              = [method |-> m, job |-> j, todo |-> <<"jobs">>, row |-> NoRowYet, outbox |-> {}]
        BY <1>1
      <4> QED
        BY <2>1, <3>1, <4>1, DidWrote, Todos
    <3>2. CASE m # "requeue"
      BY <1>1, <1>2, <2>1, <3>2, DidWrote
    <3> QED
      BY <3>1, <3>2
  <2>3. u \in Transactions /\ Progress(u) /\ Fresh(u)
    BY DEF Transactions, Progress, Fresh, Methods
  <2>4. \A r \in Others(s) : Apart(u, tx[r]) /\ Apart(tx[r], u)
    BY DEF Apart
  <2> HIDE DEF u
  <2> QED
    BY <2>2, <2>3, <2>4, WroteKeeps
<1>4. CASE Matches(m, j)
  <2> DEFINE u == [method |-> m, job |-> j, todo |-> Tail(Statements(m)),
                   row |-> Updated(m, j), outbox |-> {}]
  <2>1. JobLockers(s, j) = {} /\ Did(s, [begun EXCEPT !.row = Updated(m, j)])
    BY <1>1, <1>4 DEF UpdateJobs
  <2>2. Wrote(s, u)
    <3>1. [begun EXCEPT !.row = Updated(m, j)]
            = [method |-> m, job |-> j, todo |-> Statements(m),
               row |-> Updated(m, j), outbox |-> {}]
      BY <1>1
    <3> QED
      BY <2>1, <3>1, DidWrote
  <2>3. Updated(m, j) \in JobRows /\ Updated(m, j).type = jobType[j]
    BY <1>4, UpdatedType DEF TxInv, TypeOK
  <2>4. u \in Transactions /\ Progress(u) /\ Fresh(u)
    BY <1>2, <1>4, <2>3, Todos, TransactionsAssumption
    DEF Transactions, Progress, Fresh, Methods
  <2>5. ASSUME NEW r \in Others(s) PROVE Apart(u, tx[r]) /\ Apart(tx[r], u)
    <3>1. tx[r].row # NoRowYet => tx[r].job # j
      BY <2>1 DEF JobLockers
    <3>2. tx[r].row # NoRowYet /\ tx[r].method = "enqueue" => tx[r].row.type # jobType[j]
      BY <1>4, MatchesActive DEF TxInv, Fresh, SlotFree, Others
    <3> QED
      BY <2>3, <3>1, <3>2 DEF Apart
  <2> HIDE DEF u
  <2> QED
    BY <2>2, <2>4, <2>5, WroteKeeps
<1> QED
  BY <1>3, <1>4

(* mark_dispatched's first UPDATE keeps the invariant: it has waited for   *)
(* the other writers of the outbox row.                                    *)
LEMMA MarkOutboxKeeps ==
  ASSUME TxInv, NEW s \in Sessions, NEW j \in JobIds, tx[s] = Idle,
         status[j] # "absent", WriteOutbox(s, Begin("mark", j))
  PROVE  TxInv'
<1> DEFINE begun == Begin("mark", j)
           u == [method |-> "mark", job |-> j, todo |-> <<"jobs">>,
                 row |-> NoRowYet, outbox |-> {j}]
<1>1. begun = [method |-> "mark", job |-> j, todo |-> <<"outbox", "jobs">>,
               row |-> NoRowYet, outbox |-> {}]
  BY DEF Begin, Statements
<1>2. OutboxLockers(s, j) = {} /\ Did(s, [begun EXCEPT !.outbox = {j}])
  BY <1>1 DEF WriteOutbox
<1>3. [begun EXCEPT !.outbox = {j}]
        = [method |-> "mark", job |-> j, todo |-> <<"outbox", "jobs">>,
           row |-> NoRowYet, outbox |-> {j}]
  BY <1>1
<1>4. Wrote(s, u)
  BY <1>2, <1>3, DidWrote, Todos
<1>5. u \in Transactions /\ Progress(u) /\ Fresh(u)
  BY Todos DEF Transactions, Progress, Fresh, Methods
<1>6. \A r \in Others(s) : Apart(u, tx[r]) /\ Apart(tx[r], u)
  BY <1>2 DEF Apart, OutboxLockers
<1> HIDE DEF u
<1> QED
  BY <1>4, <1>5, <1>6, WroteKeeps

(* mark_dispatched's second UPDATE keeps the invariant.                    *)
LEMMA MarkJobsKeeps ==
  ASSUME TxInv, NEW s \in Sessions, tx[s].method = "mark", tx[s].todo = <<"jobs">>,
         UpdateJobs(s, tx[s])
  PROVE  TxInv'
<1> DEFINE j == tx[s].job
<1>1. /\ j \in JobIds /\ status[j] # "absent"
      /\ tx[s] = [method |-> "mark", job |-> j, todo |-> <<"jobs">>,
                  row |-> NoRowYet, outbox |-> {j}]
  <2>1. tx[s] \in Transactions /\ Progress(tx[s]) /\ Fresh(tx[s])
    BY DEF TxInv, TypeOK, Transactions
  <2>2. j \in JobIds /\ status[j] # "absent" /\ tx[s].row = NoRowYet /\ tx[s].outbox = {j}
    BY <2>1, Todos DEF Progress, Fresh, Methods
  <2> QED
    BY <2>1, <2>2 DEF Transactions
<1>2. \A r \in Others(s) : j \notin tx[r].outbox
  BY <1>1 DEF TxInv, Apart, Others
<1> HIDE DEF j
<1>3. CASE ~Matches("mark", j)
  <2> DEFINE u == [method |-> "mark", job |-> j, todo |-> <<>>,
                   row |-> NoRowYet, outbox |-> {j}]
  <2>1. Did(s, tx[s])
    BY <1>1, <1>3 DEF UpdateJobs
  <2>2. Wrote(s, u)
    BY <1>1, <2>1, DidWrote, Todos
  <2>3. u \in Transactions /\ Progress(u) /\ Fresh(u)
    BY <1>1, <1>3 DEF Transactions, Progress, Fresh, Methods, Matches, Markable
  <2>4. \A r \in Others(s) : Apart(u, tx[r]) /\ Apart(tx[r], u)
    BY <1>2 DEF Apart
  <2> HIDE DEF u
  <2> QED
    BY <2>2, <2>3, <2>4, WroteKeeps
<1>4. CASE Matches("mark", j)
  <2> DEFINE u == [method |-> "mark", job |-> j, todo |-> <<>>,
                   row |-> Updated("mark", j), outbox |-> {j}]
  <2>1. JobLockers(s, j) = {} /\ Did(s, [tx[s] EXCEPT !.row = Updated("mark", j)])
    BY <1>1, <1>4 DEF UpdateJobs
  <2>2. Wrote(s, u)
    <3>1. ASSUME NEW row
          PROVE  [tx[s] EXCEPT !.row = row]
                   = [method |-> "mark", job |-> j, todo |-> <<"jobs">>,
                      row |-> row, outbox |-> {j}]
      BY <1>1
    <3> QED
      BY <2>1, <3>1, DidWrote, Todos
  <2>3. Updated("mark", j) \in JobRows /\ Updated("mark", j).type = jobType[j]
    BY <1>1, <1>4, UpdatedType DEF TxInv, TypeOK, Methods
  <2>4. u \in Transactions /\ Progress(u) /\ Fresh(u)
    BY <1>1, <1>4, <2>3, TransactionsAssumption
    DEF Transactions, Progress, Fresh, Methods
  <2>5. ASSUME NEW r \in Others(s) PROVE Apart(u, tx[r]) /\ Apart(tx[r], u)
    <3>1. tx[r].row # NoRowYet => tx[r].job # j
      BY <2>1 DEF JobLockers
    <3>2. status[j] \in Active
      BY <1>1, <1>4, MatchesActive DEF Methods
    <3>3. tx[r].row # NoRowYet /\ tx[r].method = "enqueue" => tx[r].row.type # jobType[j]
      <4>1. r \in Sessions /\ Fresh(tx[r])
        BY DEF TxInv, Others
      <4> QED
        BY <1>1, <3>2, <4>1 DEF Fresh, SlotFree
    <3> QED
      BY <1>2, <2>3, <3>1, <3>3 DEF Apart
  <2> HIDE DEF u
  <2> QED
    BY <2>2, <2>4, <2>5, WroteKeeps
<1> QED
  BY <1>3, <1>4

(* The outbox statement of enqueue and of requeue_stuck keeps the          *)
(* invariant.                                                              *)
LEMMA OutboxKeeps ==
  ASSUME TxInv, NEW s \in Sessions, tx[s].todo = <<"outbox">>, WriteOutbox(s, tx[s])
  PROVE  TxInv'
<1> DEFINE m == tx[s].method
           j == tx[s].job
           row == tx[s].row
           u == [method |-> m, job |-> j, todo |-> <<>>, row |-> row, outbox |-> {j}]
<1>1. tx[s] \in Transactions /\ Progress(tx[s]) /\ Fresh(tx[s])
  BY DEF TxInv, TypeOK, Transactions
<1>2. m \in {"enqueue", "requeue"} /\ j \in JobIds /\ row # NoRowYet
  BY <1>1, Todos DEF Progress, Methods, Idle, Transactions
<1>3. tx[s] = [method |-> m, job |-> j, todo |-> <<"outbox">>, row |-> row, outbox |-> {}]
  BY <1>1, <1>2, Todos DEF Transactions, Progress
<1>4. OutboxLockers(s, j) = {} /\ Did(s, [tx[s] EXCEPT !.outbox = {j}])
  BY DEF WriteOutbox
<1>5. ASSUME NEW r \in Others(s) PROVE Apart(tx[s], tx[r]) /\ Apart(tx[r], tx[s])
  BY DEF TxInv, Others
<1> HIDE DEF m, j, row
<1>6. [tx[s] EXCEPT !.outbox = {j}]
        = [method |-> m, job |-> j, todo |-> <<"outbox">>, row |-> row, outbox |-> {j}]
  BY <1>3
<1>7. Wrote(s, u)
  BY <1>4, <1>6, DidWrote, Todos
<1>8. u \in Transactions /\ Progress(u) /\ Fresh(u)
  BY <1>1, <1>2, <1>3, Todos DEF Transactions, Progress, Fresh, Methods
<1>9. \A r \in Others(s) : Apart(u, tx[r]) /\ Apart(tx[r], u)
  BY <1>3, <1>4, <1>5 DEF Apart, OutboxLockers
<1> HIDE DEF u
<1> QED
  BY <1>7, <1>8, <1>9, WroteKeeps

(* fetch_unpublished locks rows nobody else has locked.                    *)
LEMMA FetchKeeps ==
  ASSUME TxInv, NEW s \in Sessions, tx[s] = Idle, SelectOutbox(s, Begin("fetch", 0))
  PROVE  TxInv'
<1> DEFINE begun == Begin("fetch", 0)
           locked == UNION {tx[r].outbox : r \in Others(s)}
           rows == FetchUnpublished(locked, BatchSize)
           u == [method |-> "fetch", job |-> 0, todo |-> <<>>,
                 row |-> NoRowYet, outbox |-> rows]
<1>1. begun = [method |-> "fetch", job |-> 0, todo |-> <<"select">>,
               row |-> NoRowYet, outbox |-> {}]
  BY DEF Begin, Statements
<1>2. Did(s, [begun EXCEPT !.outbox = rows])
  BY DEF SelectOutbox
<1>3. rows \subseteq JobIds /\ rows \cap locked = {}
  BY DEF FetchUnpublished, TxInv, TypeOK, StoreTypeOK
<1>4. \A r \in Others(s) : rows \cap tx[r].outbox = {}
  BY <1>3
<1> HIDE DEF rows, locked
<1>5. [begun EXCEPT !.outbox = rows]
        = [method |-> "fetch", job |-> 0, todo |-> <<"select">>,
           row |-> NoRowYet, outbox |-> rows]
  BY <1>1
<1>6. Wrote(s, u)
  BY <1>2, <1>5, DidWrote, Todos
<1>7. u \in Transactions /\ Progress(u) /\ Fresh(u)
  BY <1>3 DEF Transactions, Progress, Fresh, Methods
<1>8. \A r \in Others(s) : Apart(u, tx[r]) /\ Apart(tx[r], u)
  BY <1>4 DEF Apart
<1> HIDE DEF u
<1> QED
  BY <1>6, <1>7, <1>8, WroteKeeps

-----------------------------------------------------------------------------
(* The version an UPDATE of jobs writes, column by column.                 *)
LEMMA UpdatedColumns ==
  ASSUME NEW j \in JobIds, NEW m \in Methods \ {"enqueue", "fetch"}
  PROVE  /\ Updated(m, j).type = jobType[j] /\ Updated(m, j).input = inputPayload[j]
         /\ Updated(m, j).attempts = IF m = "requeue" THEN attempts[j] + 1 ELSE attempts[j]
         /\ Updated(m, j).payload =
              IF m = "resolve" THEN Merge(config[jobType[j]].payload, inputPayload[j])
                               ELSE payload[j]
         /\ m = "mark" => Updated(m, j).status = "dispatched"
         /\ m = "claim" => Updated(m, j).status = "running"
         /\ m = "resolve" => Updated(m, j).status = status[j]
         /\ m = "complete" => Updated(m, j).status = "completed"
         /\ m \in {"fail", "dead_letter"} => Updated(m, j).status = "failed"
         /\ m = "requeue" => Updated(m, j).status = "queued"
<1> DEFINE old == Committed(j)
<1>1. old = [status |-> status[j], type |-> jobType[j], attempts |-> attempts[j],
             input |-> inputPayload[j], payload |-> payload[j]]
  BY DEF Committed
<1>2. CASE m = "resolve"
  <2>1. Updated(m, j) = [old EXCEPT !.payload = Merge(config[jobType[j]].payload, inputPayload[j])]
    BY <1>2 DEF Updated
  <2> HIDE DEF old
  <2> QED
    BY <1>1, <1>2, <2>1
<1>3. CASE m = "requeue"
  <2> DEFINE queued == [old EXCEPT !.status = "queued"]
  <2>1. Updated(m, j) = [queued EXCEPT !.attempts = queued.attempts + 1]
    BY <1>3 DEF Updated
  <2>2. queued = [status |-> "queued", type |-> jobType[j], attempts |-> attempts[j],
                  input |-> inputPayload[j], payload |-> payload[j]]
    BY <1>1
  <2> HIDE DEF queued, old
  <2> QED
    BY <1>3, <2>1, <2>2
<1>4. ASSUME NEW st, Updated(m, j) = [old EXCEPT !.status = st], m \notin {"resolve", "requeue"}
      PROVE  /\ Updated(m, j).type = jobType[j] /\ Updated(m, j).input = inputPayload[j]
             /\ Updated(m, j).attempts = attempts[j] /\ Updated(m, j).payload = payload[j]
             /\ Updated(m, j).status = st
  BY <1>1, <1>4
<1>5. /\ m = "mark" => Updated(m, j) = [old EXCEPT !.status = "dispatched"]
      /\ m = "claim" => Updated(m, j) = [old EXCEPT !.status = "running"]
      /\ m = "complete" => Updated(m, j) = [old EXCEPT !.status = "completed"]
      /\ m \in {"fail", "dead_letter"} => Updated(m, j) = [old EXCEPT !.status = "failed"]
  BY DEF Updated
<1> HIDE DEF old
<1>6. CASE m \in {"mark", "claim", "complete", "fail", "dead_letter"}
  BY <1>4, <1>5, <1>6
<1> QED
  BY <1>2, <1>3, <1>6 DEF Methods

(* A COMMIT with a version of the row, column by column.                   *)
CommitsRow(s) ==
  /\ status' = [status EXCEPT ![tx[s].job] = tx[s].row.status]
  /\ jobType' = [jobType EXCEPT ![tx[s].job] = tx[s].row.type]
  /\ attempts' = [attempts EXCEPT ![tx[s].job] = tx[s].row.attempts]
  /\ inputPayload' = [inputPayload EXCEPT ![tx[s].job] = tx[s].row.input]
  /\ payload' = [payload EXCEPT ![tx[s].job] = tx[s].row.payload]

(* Every COMMIT is the method's step of JobStore at that moment, or        *)
(* changes no table.                                                       *)
LEMMA CommitAtomic ==
  ASSUME TxInv, NEW s \in Sessions, Commit(s)
  PROVE  StoreStep \/ UNCHANGED storeVars
<1> DEFINE t == tx[s]
           j == tx[s].job
<1>1. /\ tx[s] # Idle /\ tx[s].todo = <<>>
      /\ tx[s].row = NoRowYet => UNCHANGED <<status, jobType, attempts, inputPayload, payload>>
      /\ tx[s].row # NoRowYet => CommitsRow(s)
      /\ unpublished' = IF tx[s].job \notin tx[s].outbox THEN unpublished
                        ELSE IF tx[s].method = "mark" THEN unpublished \ {tx[s].job}
                             ELSE unpublished \cup {tx[s].job}
      /\ config' = config /\ expired' = expired
  BY DEF Commit, CommitsRow
<1>2. tx[s] \in Transactions /\ Progress(tx[s]) /\ Fresh(tx[s])
  BY DEF TxInv, TypeOK, Transactions
<1>3. tx[s].method \in Methods
  BY <1>1, <1>2 DEF Transactions, Progress
<1>4. StoreTypeOK /\ RowsOK
  BY DEF TxInv, TypeOK
<1>5. CASE tx[s].method = "fetch"
  <2>1. 0 \notin JobIds /\ tx[s].outbox \subseteq JobIds
    BY <1>2, StoreAssumption DEF Transactions
  <2> QED
    BY <1>1, <1>2, <1>5, <2>1 DEF Progress, storeVars
<1>6. CASE tx[s].method # "fetch" /\ tx[s].row = NoRowYet
  <2>1. CASE tx[s].method = "mark"
    <3>1. MarkDispatched(tx[s].job)
      BY <1>1, <1>2, <1>6, <2>1 DEF Progress, Fresh, MarkDispatched
    <3>2. tx[s].job \in JobIds
      BY <1>2, <2>1 DEF Progress, Methods
    <3> QED
      BY <3>1, <3>2 DEF StoreStep
  <2>2. CASE tx[s].method # "mark"
    <3>1. tx[s].outbox = {}
      BY <1>1, <1>2, <1>3, <1>6, <2>2, Todos DEF Progress
    <3> QED
      BY <1>1, <1>6, <3>1 DEF storeVars
  <2> QED
    BY <2>1, <2>2
<1>7. CASE tx[s].method = "enqueue" /\ tx[s].row # NoRowYet
  <2>1. tx[s].job \in JobIds /\ tx[s].outbox = {tx[s].job}
    BY <1>1, <1>2, <1>7, Todos DEF Progress, Methods
  <2>2. NewRow(tx[s].row) /\ status[tx[s].job] = "absent" /\ SlotFree(tx[s].row.type)
    BY <1>2, <1>7 DEF Fresh
  <2>3. attempts' = attempts /\ payload' = payload
    BY <1>1, <1>4, <1>7, <2>1, <2>2 DEF CommitsRow, NewRow, RowsOK, StoreTypeOK
  <2>4. InsertJob(tx[s].job, tx[s].row.type, tx[s].row.input)
    BY <1>1, <1>7, <2>1, <2>2, <2>3 DEF CommitsRow, NewRow, InsertJob
  <2>5. tx[s].row.type \in JobTypes /\ tx[s].row.input \in Inputs
    BY <2>2 DEF NewRow
  <2> QED
    BY <2>1, <2>4, <2>5 DEF StoreStep
<1>8. CASE tx[s].method \notin {"enqueue", "fetch"} /\ tx[s].row # NoRowYet
  <2> DEFINE m == tx[s].method
  <2>1. m \in Methods \ {"enqueue", "fetch"} /\ j \in JobIds
    BY <1>2, <1>3, <1>8 DEF Progress
  <2>2. Matches(m, j) /\ tx[s].row = Updated(m, j)
    BY <1>2, <1>8 DEF Fresh
  <2> HIDE DEF m, j
  <2>3. /\ tx[s].row.type = jobType[j] /\ tx[s].row.input = inputPayload[j]
        /\ m # "requeue" => tx[s].row.attempts = attempts[j]
        /\ m = "requeue" => tx[s].row.attempts = attempts[j] + 1
        /\ m # "resolve" => tx[s].row.payload = payload[j]
        /\ m = "resolve" =>
             tx[s].row.payload = Merge(config[jobType[j]].payload, inputPayload[j])
    BY <2>1, <2>2, UpdatedColumns
  <2>4. /\ jobType' = [jobType EXCEPT ![j] = tx[s].row.type]
        /\ inputPayload' = [inputPayload EXCEPT ![j] = tx[s].row.input]
        /\ attempts' = [attempts EXCEPT ![j] = tx[s].row.attempts]
        /\ payload' = [payload EXCEPT ![j] = tx[s].row.payload]
    BY <1>1, <1>8 DEF CommitsRow, j
  <2>5. /\ jobType' = jobType /\ inputPayload' = inputPayload
        /\ m # "requeue" => attempts' = attempts
        /\ m # "resolve" => payload' = payload
    BY <1>4, <2>1, <2>3, <2>4 DEF StoreTypeOK
  <2>6. config' = config /\ expired' = expired \ {j} /\ expired' = expired
    BY <1>1, <1>4 DEF RowsOK
  <2>7. m \notin {"mark", "requeue"} => unpublished' = unpublished
    BY <1>1, <1>2, <2>1 DEF Progress, m
  <2>8. /\ m = "mark" => unpublished' = unpublished \ {j}
        /\ m = "requeue" => unpublished' = unpublished \cup {j}
    <3>1. m \in {"mark", "requeue"} => tx[s].outbox = {j}
      BY <1>1, <1>2, <1>8, Todos DEF Progress, m, j
    <3> QED
      BY <1>1, <3>1 DEF m, j
  <2>9. /\ status' = [status EXCEPT ![j] = Updated(m, j).status]
        /\ m = "mark" => status' = [status EXCEPT ![j] = "dispatched"]
        /\ m = "claim" => status' = [status EXCEPT ![j] = "running"]
        /\ m = "complete" => status' = [status EXCEPT ![j] = "completed"]
        /\ m \in {"fail", "dead_letter"} => status' = [status EXCEPT ![j] = "failed"]
        /\ m = "requeue" => status' = [status EXCEPT ![j] = "queued"]
    <3>1. status' = [status EXCEPT ![j] = Updated(m, j).status]
      BY <1>1, <1>8, <2>2 DEF CommitsRow, j
    <3> QED
      BY <2>1, <3>1, UpdatedColumns
  <2>10. CASE m = "mark"
    <3>1. MarkDispatched(j)
      BY <2>2, <2>5, <2>6, <2>8, <2>9, <2>10 DEF MarkDispatched, Matches, Markable
    <3> QED
      BY <2>1, <3>1 DEF StoreStep
  <2>11. CASE m = "claim"
    <3>1. Claim(j)
      BY <2>2, <2>5, <2>6, <2>7, <2>9, <2>11 DEF Claim, Matches
    <3> QED
      BY <2>1, <3>1 DEF StoreStep
  <2>12. CASE m = "resolve"
    <3>1. payload' = [payload EXCEPT ![j] = Merge(config[jobType[j]].payload, inputPayload[j])]
      BY <2>3, <2>4, <2>12
    <3>2. status' = status
      BY <1>4, <2>1, <2>9, <2>12, UpdatedColumns DEF StoreTypeOK
    <3>3. ResolvePayload(j)
      BY <2>2, <2>5, <2>6, <2>7, <2>12, <3>1, <3>2 DEF ResolvePayload, Matches
    <3> QED
      BY <2>1, <3>3 DEF StoreStep
  <2>13. CASE m = "requeue"
    <3>1. attempts' = [attempts EXCEPT ![j] = attempts[j] + 1]
      BY <2>3, <2>4, <2>13
    <3>2. RequeueStuck(j)
      BY <2>2, <2>5, <2>6, <2>8, <2>9, <2>13, <3>1 DEF RequeueStuck, Matches
    <3> QED
      BY <2>1, <3>2 DEF StoreStep
  <2>14. CASE m \in {"complete", "fail", "dead_letter"}
    <3>1. status[j] = "running"
      BY <2>2, <2>14 DEF Matches
    <3>2. Complete(j) \/ Fail(j)
      BY <2>5, <2>6, <2>7, <2>9, <2>14, <3>1 DEF Complete, Fail, GuardedUpdate
    <3> QED
      BY <2>1, <3>2 DEF StoreStep
  <2> QED
    BY <2>1, <2>10, <2>11, <2>12, <2>13, <2>14 DEF Methods
<1> QED
  BY <1>5, <1>6, <1>7, <1>8


-----------------------------------------------------------------------------
(* A version somebody has written belongs to a job and is not absent, and  *)
(* only enqueue and requeue_stuck, which hold the job's outbox row when    *)
(* they are done, write a queued one.                                      *)
LEMMA WrittenRow ==
  ASSUME TxInv, NEW s \in Sessions, tx[s].row # NoRowYet
  PROVE  /\ tx[s].method \in Methods \ {"fetch"} /\ tx[s].job \in JobIds
         /\ tx[s].row \in JobRows /\ tx[s].row.status # "absent"
         /\ tx[s].row.status = "queued" => tx[s].method \in {"enqueue", "requeue"}
<1>1. tx[s] \in Transactions /\ Progress(tx[s]) /\ Fresh(tx[s])
  BY DEF TxInv, TypeOK, Transactions
<1>2. tx[s].method \in Methods \ {"fetch"} /\ tx[s].job \in JobIds /\ tx[s].row \in JobRows
  BY <1>1 DEF Transactions, Progress, Idle
<1>3. CASE tx[s].method = "enqueue"
  BY <1>1, <1>2, <1>3 DEF Fresh, NewRow
<1>4. CASE tx[s].method # "enqueue"
  <2> DEFINE m == tx[s].method
             j == tx[s].job
  <2>1. Matches(m, j) /\ tx[s].row = Updated(m, j) /\ m \in Methods \ {"enqueue", "fetch"}
    BY <1>1, <1>2, <1>4 DEF Fresh
  <2>2. m = "resolve" => status[j] = "running"
    BY <2>1 DEF Matches, Resolvable
  <2> HIDE DEF m, j
  <2>3. j \in JobIds
    BY <1>2 DEF j
  <2>4. Updated(m, j).status \in {"dispatched", "running", "completed", "failed", "queued"}
        /\ (Updated(m, j).status = "queued" => m = "requeue")
    BY <2>1, <2>2, <2>3, UpdatedColumns DEF Methods
  <2> QED
    BY <1>2, <2>1, <2>4 DEF m
<1> QED
  BY <1>3, <1>4

(* A COMMIT keeps what the others have seen: their rows are other rows,    *)
(* the type they insert for is another type, and a job they passed over is *)
(* not queued again without its outbox row, which they have.               *)
LEMMA CommitKeeps ==
  ASSUME TxInv, NEW s \in Sessions, Commit(s)
  PROVE  TxInv'
<1>1. /\ tx[s] # Idle /\ tx[s].todo = <<>>
      /\ tx[s].row = NoRowYet => UNCHANGED <<status, jobType, attempts, inputPayload, payload>>
      /\ tx[s].row # NoRowYet => CommitsRow(s)
      /\ unpublished' = IF tx[s].job \notin tx[s].outbox THEN unpublished
                        ELSE IF tx[s].method = "mark" THEN unpublished \ {tx[s].job}
                             ELSE unpublished \cup {tx[s].job}
      /\ tx' = [tx EXCEPT ![s] = Idle] /\ config' = config /\ expired' = expired
  BY DEF Commit, CommitsRow
<1>2. /\ tx \in [Sessions -> Transactions]
      /\ tx[s] \in Transactions /\ Progress(tx[s]) /\ Fresh(tx[s])
  BY DEF TxInv, TypeOK, Transactions
<1>3. StoreTypeOK /\ RowsOK
  BY DEF TxInv, TypeOK
<1>4. /\ Idle \in Transactions /\ tx' \in [Sessions -> Transactions]
      /\ tx'[s] = Idle /\ \A r \in Sessions : r # s => tx'[r] = tx[r]
  BY <1>1, <1>2 DEF Transactions, Idle
<1>5. unpublished' \subseteq JobIds
  BY <1>1, <1>2, <1>3 DEF StoreTypeOK, Transactions
<1>6. ASSUME NEW r \in Sessions, NEW q \in Sessions, r # q PROVE Apart(tx[r], tx[q])'
  <2>1. Apart(tx'[r], tx'[q])
    BY <1>4, <1>6 DEF TxInv, Apart, Idle
  <2> QED
    BY <2>1 DEF Apart
<1>7. ASSUME NEW r \in Sessions PROVE Progress(tx[r])'
  <2>1. Progress(tx'[r])
    BY <1>4 DEF TxInv, Progress, Idle, Methods
  <2> QED
    BY <2>1 DEF Progress
<1>8. CASE tx[s].row = NoRowYet
  <2>1. UNCHANGED <<status, jobType, attempts, inputPayload, payload>>
    BY <1>1, <1>8
  <2>2. TypeOK' /\ RowsOK'
    BY <1>1, <1>3, <1>4, <1>5, <2>1 DEF TypeOK, StoreTypeOK, RowsOK, Transactions
  <2>3. ASSUME NEW r \in Sessions PROVE Fresh(tx[r])'
    <3>1. Fresh(tx'[r])
      BY <1>4 DEF TxInv, Fresh, Idle, Methods
    <3> QED
      BY <1>1, <2>1, <3>1 DEF Fresh, SlotFree, Matches, Updated, Committed,
            Markable, Claimable, Resolvable, Requeueable, Cap
  <2> QED
    BY <1>6, <1>7, <2>2, <2>3 DEF TxInv
<1>9. CASE tx[s].row # NoRowYet
  <2> DEFINE j == tx[s].job
             new == tx[s].row
  <2>1. /\ j \in JobIds /\ new \in JobRows /\ new.status # "absent"
        /\ new.status = "queued" => tx[s].outbox = {j}
    <3>1. new.status = "queued" => tx[s].method \in {"enqueue", "requeue"}
      BY <1>9, WrittenRow
    <3> QED
      BY <1>1, <1>2, <1>9, <3>1, WrittenRow, Todos DEF Progress
  <2>2. /\ status' = [status EXCEPT ![j] = new.status]
        /\ jobType' = [jobType EXCEPT ![j] = new.type]
        /\ attempts' = [attempts EXCEPT ![j] = new.attempts]
        /\ inputPayload' = [inputPayload EXCEPT ![j] = new.input]
        /\ payload' = [payload EXCEPT ![j] = new.payload]
    BY <1>1, <1>9 DEF CommitsRow
  <2>3. ASSUME NEW r \in Sessions, r # s
        PROVE  /\ tx[r].row # NoRowYet =>
                    tx[r].job # j /\ (tx[r].method = "enqueue" => tx[r].row.type # new.type)
               /\ tx[r].outbox \cap tx[s].outbox = {}
    BY <1>9, <2>3 DEF TxInv, Apart
  <2> HIDE DEF j, new
  <2>4. /\ status'[j] = new.status /\ jobType'[j] = new.type
        /\ \A k \in JobIds : k # j =>
             /\ status'[k] = status[k] /\ jobType'[k] = jobType[k]
             /\ attempts'[k] = attempts[k] /\ inputPayload'[k] = inputPayload[k]
             /\ payload'[k] = payload[k]
    BY <1>3, <2>1, <2>2 DEF StoreTypeOK
  <2>5. StoreTypeOK'
    BY <1>1, <1>3, <1>5, <2>1, <2>2 DEF StoreTypeOK, JobRows
  <2>6. RowsOK'
    BY <1>1, <1>3, <2>1, <2>4 DEF RowsOK, JobRows
  <2>7. ASSUME NEW r \in Sessions PROVE Fresh(tx[r])'
    <3>1. CASE r = s
      BY <1>4, <3>1 DEF Fresh, Idle, Methods
    <3>2. CASE r # s
      <4>0. PICK u \in Transactions : u = tx[r]
        BY <1>2
      <4>1. tx'[r] = u /\ u \in Transactions /\ Progress(u) /\ Fresh(u)
        BY <1>2, <1>4, <3>2, <4>0 DEF TxInv
      <4>2. u.row # NoRowYet =>
              u.job # j /\ (u.method = "enqueue" => u.row.type # new.type)
        BY <2>3, <3>2, <4>0
      <4>3. u.outbox \cap tx[s].outbox = {}
        BY <2>3, <3>2, <4>0
      <4>4. /\ u.method \in Methods \ {"fetch"} => u.job \in JobIds
            /\ u.row # NoRowYet => u.method \in Methods \ {"fetch"}
            /\ u.method = "mark" => u.outbox = {u.job}
        BY <4>0, <4>1, WrittenRow DEF Progress
      <4>5. u.method \in Methods \ {"enqueue", "fetch"} => status'[u.job] # "absent"
        BY <2>1, <2>4, <4>1, <4>4 DEF Fresh
      <4>6. u.row # NoRowYet /\ u.method = "enqueue" =>
              NewRow(u.row) /\ status'[u.job] = "absent" /\ SlotFree(u.row.type)'
        <5>1. SUFFICES ASSUME u.row # NoRowYet, u.method = "enqueue"
                       PROVE  NewRow(u.row) /\ status'[u.job] = "absent"
                              /\ \A k \in JobIds : jobType'[k] = u.row.type
                                                     => status'[k] \notin Active
          BY <4>1 DEF SlotFree
        <5>2. NewRow(u.row) /\ status[u.job] = "absent" /\ SlotFree(u.row.type)
          BY <4>1, <5>1 DEF Fresh
        <5> QED
          BY <2>4, <4>2, <4>4, <5>1, <5>2 DEF SlotFree
      <4>7. u.row # NoRowYet /\ u.method # "enqueue" =>
              Matches(u.method, u.job)' /\ u.row = Updated(u.method, u.job)'
        <5>1. SUFFICES ASSUME u.row # NoRowYet, u.method # "enqueue"
                       PROVE  Matches(u.method, u.job)' /\ u.row = Updated(u.method, u.job)'
          OBVIOUS
        <5> DEFINE k == u.job
        <5>2. /\ status'[k] = status[k] /\ jobType'[k] = jobType[k]
              /\ attempts'[k] = attempts[k] /\ inputPayload'[k] = inputPayload[k]
              /\ payload'[k] = payload[k] /\ config' = config
          BY <1>1, <2>4, <4>2, <4>4, <5>1
        <5>3. Matches(u.method, k) /\ u.row = Updated(u.method, k)
          BY <4>1, <5>1 DEF Fresh
        <5> HIDE DEF k
        <5> QED
          BY <4>1, <5>2, <5>3 DEF Matches, Updated, Committed, Markable, Claimable,
               Resolvable, Requeueable, Cap, k
      <4>8. u.method = "mark" /\ u.todo = <<>> /\ u.row = NoRowYet => status'[u.job] # "queued"
        <5>1. SUFFICES ASSUME u.method = "mark", u.todo = <<>>, u.row = NoRowYet
                       PROVE  status'[u.job] # "queued"
          OBVIOUS
        <5>2. u.job \in JobIds /\ status[u.job] # "queued" /\ u.outbox = {u.job}
          BY <4>1, <4>4, <5>1 DEF Fresh, Methods
        <5> QED
          BY <2>1, <2>4, <4>3, <5>2
      <4> QED
        BY <4>1, <4>5, <4>6, <4>7, <4>8 DEF Fresh, NewRow
    <3> QED
      BY <3>1, <3>2
  <2>8. TypeOK'
    BY <1>4, <2>5 DEF TypeOK, Transactions
  <2> QED
    BY <1>6, <1>7, <2>6, <2>7, <2>8 DEF TxInv
<1> QED
  BY <1>8, <1>9

(* A rollback forgets the transaction.                                     *)
LEMMA AbortKeeps ==
  ASSUME TxInv, NEW s \in Sessions, Abort(s)
  PROVE  TxInv'
<1>1. Wrote(s, Idle)
  BY DEF Abort, Wrote
<1>2. Idle \in Transactions /\ Progress(Idle) /\ Fresh(Idle)
  BY DEF Idle, Transactions, Progress, Fresh, Methods
<1>3. \A r \in Others(s) : Apart(Idle, tx[r]) /\ Apart(tx[r], Idle)
  BY DEF Apart, Idle
<1> QED
  BY <1>1, <1>2, <1>3, WroteKeeps

-----------------------------------------------------------------------------
(* The invariant holds before the first call.                              *)
LEMMA InitTx == ASSUME Init PROVE TxInv
<1>1. Idle \in Transactions /\ Progress(Idle) /\ Fresh(Idle) /\ Apart(Idle, Idle)
  BY DEF Idle, Transactions, Progress, Fresh, Apart, Methods
<1>2. \A s \in Sessions : tx[s] = Idle
  BY DEF Init
<1>3. TypeOK
  BY <1>1, StoreAssumption
  DEF Init, TypeOK, Transactions, StoreInit, StoreTypeOK, Statuses, EmptyPayload, Payloads
<1>4. RowsOK
  BY DEF Init, StoreInit, RowsOK
<1> QED
  BY <1>1, <1>2, <1>3, <1>4 DEF TxInv

(* The first statement of a method.                                        *)
LEMMA CallKeeps ==
  ASSUME TxInv, NEW s \in Sessions, NEW method \in Methods \ {"fetch"}, NEW j \in JobIds,
         Call(s, method, j)
  PROVE  TxInv'
<1> DEFINE begun == Begin(method, j)
<1>1. /\ tx[s] = Idle /\ Statement(s, begun) /\ begun.todo = Statements(method)
      /\ method # "enqueue" => status[j] # "absent"
  BY DEF Call, Begin
<1>2. CASE method = "enqueue"
  <2>1. Head(begun.todo) = "insert"
    BY <1>1, <1>2, Todos DEF Statements
  <2>2. Insert(s, begun)
    BY <1>1, <2>1 DEF Statement
  <2> QED
    BY <1>1, <1>2, <2>2, InsertKeeps
<1>3. CASE method = "mark"
  <2>1. Head(begun.todo) = "outbox"
    BY <1>1, <1>3, Todos DEF Statements
  <2>2. WriteOutbox(s, begun)
    BY <1>1, <2>1 DEF Statement
  <2> QED
    BY <1>1, <1>3, <2>2, MarkOutboxKeeps
<1>4. CASE method \notin {"enqueue", "mark"}
  <2>1. Head(begun.todo) = "jobs"
    BY <1>1, <1>4, Todos DEF Statements, Methods
  <2>2. UpdateJobs(s, begun)
    BY <1>1, <2>1 DEF Statement
  <2> QED
    BY <1>1, <1>4, <2>2, UpdateKeeps
<1> QED
  BY <1>2, <1>3, <1>4

(* fetch_unpublished locks the outbox rows nobody else has locked.         *)
LEMMA FetchCallKeeps ==
  ASSUME TxInv, NEW s \in Sessions, Call(s, "fetch", 0)
  PROVE  TxInv'
<1> DEFINE begun == Begin("fetch", 0)
<1>1. tx[s] = Idle /\ Statement(s, begun) /\ begun.todo = <<"select">>
  BY DEF Call, Begin, Statements
<1>2. Head(begun.todo) = "select"
  BY <1>1, Todos
<1>3. SelectOutbox(s, begun)
  BY <1>1, <1>2 DEF Statement
<1> QED
  BY <1>1, <1>3, FetchKeeps

(* A later statement is mark_dispatched's on jobs or one on the outbox.    *)
LEMMA ContinueKeeps ==
  ASSUME TxInv, NEW s \in Sessions, Continue(s)
  PROVE  TxInv'
<1>1. tx[s] \in Transactions /\ Progress(tx[s])
  BY DEF TxInv, TypeOK, Transactions
<1>2. tx[s].todo \in {<<"jobs">>, <<"outbox">>} /\ Statement(s, tx[s])
  BY <1>1 DEF Continue, Statement, Transactions
<1>3. CASE tx[s].todo = <<"jobs">>
  <2>1. UpdateJobs(s, tx[s])
    BY <1>2, <1>3, Todos DEF Statement
  <2>2. tx[s].method = "mark"
    BY <1>1, <1>3, Todos DEF Transactions, Progress, Idle, Methods
  <2> QED
    BY <1>3, <2>1, <2>2, MarkJobsKeeps
<1>4. CASE tx[s].todo = <<"outbox">>
  <2>1. WriteOutbox(s, tx[s])
    BY <1>2, <1>4, Todos DEF Statement
  <2> QED
    BY <1>4, <2>1, OutboxKeeps
<1> QED
  BY <1>2, <1>3, <1>4

(* Every statement, commit and rollback keeps the invariant.               *)
LEMMA StepKeeps == ASSUME TxInv, [Next]_vars PROVE TxInv'
<1>1. CASE Next
  <2>1. PICK s \in Sessions :
          \/ \E method \in Methods \ {"fetch"}, j \in JobIds : Call(s, method, j)
          \/ Call(s, "fetch", 0)
          \/ Continue(s) \/ Commit(s) \/ Abort(s)
    BY <1>1 DEF Next
  <2> QED
    BY <2>1, CallKeeps, FetchCallKeeps, ContinueKeeps, CommitKeeps, AbortKeeps
<1>2. CASE UNCHANGED vars
  <2>1. UNCHANGED <<status, jobType, attempts, inputPayload, payload, unpublished,
                    config, expired, tx>>
    BY <1>2 DEF vars, storeVars
  <2>2. TypeOK' /\ RowsOK'
    BY <2>1 DEF TxInv, TypeOK, StoreTypeOK, RowsOK
  <2>3. ASSUME NEW s \in Sessions PROVE Progress(tx[s])' /\ Fresh(tx[s])'
    <3>1. Progress(tx[s]) /\ Fresh(tx[s])
      BY DEF TxInv
    <3> QED
      BY <2>1, <3>1 DEF Progress, Fresh, SlotFree, Matches, Updated, Committed, Markable,
           Claimable, Resolvable, Requeueable, Cap
  <2>4. ASSUME NEW s \in Sessions, NEW r \in Sessions, s # r PROVE Apart(tx[s], tx[r])'
    BY <2>1, <2>4 DEF TxInv, Apart
  <2> QED
    BY <2>2, <2>3, <2>4 DEF TxInv
<1> QED
  BY <1>1, <1>2

(* The inductive invariant of the transactions.                            *)
LEMMA TxInvariant == Spec => []TxInv
<1>1. Init => TxInv
  BY InitTx
<1>2. TxInv /\ [Next]_vars => TxInv'
  BY StepKeeps
<1> QED
  BY <1>1, <1>2, PTL DEF Spec

(* The tables and the transactions of db.py's sessions have their types:   *)
(* in particular a transaction that was cut short left nothing behind.     *)
THEOREM TypesOK == Spec => []TypeOK
<1>1. TxInv => TypeOK
  BY DEF TxInv
<1> QED
  BY <1>1, TxInvariant, PTL

(* A transaction that somebody waits for does not wait itself.             *)
LEMMA NoChain ==
  ASSUME TxInv, NEW s \in Sessions, NEW r \in WaitsFor(s)
  PROVE  r \in Sessions /\ WaitsFor(r) = {}
<1> DEFINE t == tx[s]
           u == tx[r]
<1>1. t \in Transactions /\ Progress(t) /\ Fresh(t)
  BY DEF TxInv, TypeOK, Transactions
<1>2. CASE t.todo = <<"jobs">>
  <2>1. t.method = "mark"
    BY <1>1, <1>2, Todos DEF Transactions, Progress, Idle, Methods
  <2>2. status[t.job] = "queued" /\ r \in JobLockers(s, t.job)
    BY <1>2, <2>1, Todos DEF WaitsFor, Matches, Markable
  <2>3. r \in Sessions /\ u.job = t.job /\ u.row # NoRowYet
    BY <2>2 DEF JobLockers, Others
  <2>4. u \in Transactions /\ Progress(u) /\ Fresh(u)
    BY <2>3 DEF TxInv, TypeOK, Transactions
  <2>5. u.method # "enqueue" /\ u.method # "requeue" /\ u.method # "none"
    BY <2>2, <2>3, <2>4 DEF Fresh, Matches, Requeueable, Progress, Idle
  <2>6. u.todo = <<>>
    BY <2>3, <2>4, <2>5 DEF Transactions, Progress, Methods
  <2> QED
    BY <2>3, <2>6, Todos DEF WaitsFor
<1>3. CASE t.todo = <<"outbox">>
  <2>1. t.method \in {"enqueue", "requeue"} /\ t.row # NoRowYet
    BY <1>1, <1>3, Todos DEF Transactions, Progress, Idle, Methods
  <2>2. status[t.job] # "queued"
    BY <1>1, <2>1 DEF Fresh, Matches, Requeueable
  <2>3. r \in OutboxLockers(s, t.job)
    BY <1>3, Todos DEF WaitsFor
  <2>4. r \in Sessions /\ t.job \in u.outbox
    BY <2>3 DEF OutboxLockers, Others
  <2>5. u \in Transactions /\ Progress(u)
    BY <2>4 DEF TxInv, TypeOK, Transactions
  <2>6. CASE u.todo = <<"jobs">>
    <3>1. u.method = "mark" /\ u.job = t.job
      BY <2>4, <2>5, <2>6, Todos DEF Transactions, Progress, Idle, Methods
    <3> QED
      BY <2>2, <2>4, <2>6, <3>1, Todos DEF WaitsFor, Matches, Markable
  <2>7. CASE u.todo = <<"outbox">>
    BY <2>4, <2>5, <2>7, Todos DEF Transactions, Progress, Idle, Methods
  <2>8. CASE u.todo = <<>>
    BY <2>4, <2>8, Todos DEF WaitsFor
  <2> QED
    BY <2>5, <2>6, <2>7, <2>8 DEF Transactions
<1>4. CASE t.todo = <<>>
  BY <1>4, Todos DEF WaitsFor
<1> QED
  BY <1>1, <1>2, <1>3, <1>4 DEF Transactions

(* No circle of db.py's transactions wait for one another, although        *)
(* mark_dispatched and requeue_stuck lock outbox and jobs in opposite      *)
(* orders: nobody waits for a transaction that waits.                      *)
THEOREM NeverDeadlocks == Spec => []NoDeadlock
<1>1. TxInv => NoDeadlock
  <2>1. SUFFICES ASSUME TxInv, NEW circle \in (SUBSET Sessions) \ {{}}
                 PROVE  \E s \in circle : WaitsFor(s) \cap circle = {}
    BY DEF NoDeadlock
  <2>2. circle # {} /\ circle \subseteq Sessions
    OBVIOUS
  <2> PICK s \in circle : TRUE
    BY <2>2
  <2>3. CASE WaitsFor(s) \cap circle = {}
    BY <2>3
  <2>4. CASE WaitsFor(s) \cap circle # {}
    <3>1. PICK r \in circle : r \in WaitsFor(s)
      BY <2>4
    <3>2. WaitsFor(r) = {}
      BY <2>1, <2>2, <3>1, NoChain
    <3> QED
      BY <3>2
  <2> QED
    BY <2>3, <2>4
<1> QED
  BY <1>1, TxInvariant, PTL

(* db.py's methods implement JobStore: whatever the interleaving of their  *)
(* statements, every COMMIT changes the tables as one atomic call of the   *)
(* method would, and a rollback or a statement before the COMMIT not at    *)
(* all.                                                                    *)
THEOREM MethodsAtomic == Spec => MethodsAreAtomic
<1>1. Init => StoreInit
  BY DEF Init
<1>2. TxInv /\ [Next]_vars => [StoreStep]_storeVars
  <2>1. SUFFICES ASSUME TxInv, Next PROVE StoreStep \/ UNCHANGED storeVars
    BY DEF vars, storeVars
  <2>2. PICK s \in Sessions :
          \/ \E method \in Methods \ {"fetch"}, j \in JobIds : Call(s, method, j)
          \/ Call(s, "fetch", 0)
          \/ Continue(s) \/ Commit(s) \/ Abort(s)
    BY <2>1 DEF Next
  <2>3. ASSUME NEW t, t.todo = <<>> \/ Head(t.todo) \in {"insert", "jobs", "outbox", "select"},
               Statement(s, t)
        PROVE  UNCHANGED storeVars
    <3>1. Insert(s, t) => UNCHANGED storeVars
      BY Zenon DEF Insert, Did
    <3>2. UpdateJobs(s, t) => UNCHANGED storeVars
      BY Zenon DEF UpdateJobs, Did
    <3>3. WriteOutbox(s, t) => UNCHANGED storeVars
      BY Zenon DEF WriteOutbox, Did
    <3>4. SelectOutbox(s, t) => UNCHANGED storeVars
      BY Zenon DEF SelectOutbox, Did
    <3> QED
      BY <2>3, <3>1, <3>2, <3>3, <3>4 DEF Statement
  <2>4. ASSUME NEW method \in Methods, NEW j, Call(s, method, j) PROVE UNCHANGED storeVars
    <3>1. Head(Begin(method, j).todo) \in {"insert", "jobs", "outbox", "select"}
      BY Todos DEF Begin, Statements, Methods
    <3> QED
      BY <2>3, <2>4, <3>1 DEF Call
  <2>5. Continue(s) => UNCHANGED storeVars
    <3>1. tx[s].todo \in {<<>>, <<"jobs">>, <<"outbox">>}
      BY <2>1 DEF TxInv, TypeOK
    <3> QED
      BY <2>3, <3>1, Todos DEF Continue
  <2> QED
    BY <2>1, <2>2, <2>4, <2>5, CommitAtomic DEF Abort, Methods
<1> QED
  BY <1>1, <1>2, TxInvariant, PTL DEF Spec, MethodsAreAtomic, StoreSpec

=============================================================================
