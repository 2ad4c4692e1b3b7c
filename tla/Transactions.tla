---------------------------- MODULE Transactions ----------------------------
(***************************************************************************)
(* The methods of common/db.py statement by statement.  JobStore takes a   *)
(* method for one atomic step; here a method is a transaction at READ      *)
(* COMMITTED whose statements interleave with those of other sessions, and *)
(* StoreSpec is what it is checked to implement.                           *)
(*                                                                         *)
(* JobStore's variables are the committed tables.  A session keeps the row *)
(* versions its transaction has written: nobody else sees them before the  *)
(* commit, and each of them is also the lock on its row.  An UPDATE looks  *)
(* at the committed version: a row that fails the WHERE clause is passed   *)
(* over without waiting, a row that meets it is waited for while another   *)
(* transaction has it, and is looked at again afterwards.                  *)
(*                                                                         *)
(* job_type_config is left alone here: a write to it takes no lock any of  *)
(* these statements asks for.                                              *)
(***************************************************************************)
EXTENDS JobStore, Sequences

CONSTANTS
  Sessions,   \* connections of the processes' pools
  BatchSize,  \* fetch_unpublished's limit
  NoRowYet    \* no version of the row is written

VARIABLE tx   \* what each session's transaction has done and has left to do

vars == <<storeVars, tx>>

Methods == {"enqueue", "fetch", "mark", "claim", "resolve", "complete",
            "fail", "dead_letter", "requeue"}

(* Mutant: mark_dispatched takes its rows in requeue_stuck's order.        *)
JobsFirst(method) ==
  CASE method = "enqueue" -> <<"insert", "outbox">>
    [] method \in {"mark", "requeue"} -> <<"jobs", "outbox">>
    [] method = "fetch"   -> <<"select">>
    [] OTHER              -> <<"jobs">>

(* The statements of a method, by the table they lock rows of.             *)
Statements(method) ==
  CASE method = "enqueue" -> <<"insert", "outbox">>
    [] method = "mark"    -> <<"outbox", "jobs">>
    [] method = "requeue" -> <<"jobs", "outbox">>
    [] method = "fetch"   -> <<"select">>
    [] OTHER              -> <<"jobs">>

JobRows == [status : Statuses, type : JobTypes, attempts : Nat,
            input : Payloads, payload : Payloads]

ASSUME TransactionsAssumption == NoRowYet \notin JobRows

(* A session's transaction; fetch_unpublished is given no job.             *)
Begin(method, j) == [method |-> method, job |-> j, todo |-> Statements(method),
                     row |-> NoRowYet, outbox |-> {}]

Idle == [method |-> "none", job |-> 0, todo |-> <<>>, row |-> NoRowYet, outbox |-> {}]

(* The tables and, per session, the method, the statements left, the new   *)
(* row of jobs and the outbox rows it has locked have their types.         *)
TypeOK ==
  /\ StoreTypeOK
  /\ tx \in [Sessions ->
       [method : Methods \cup {"none"}, job : JobIds \cup {0},
        todo : {<<>>, <<"jobs">>, <<"outbox">>},
        row : JobRows \cup {NoRowYet}, outbox : SUBSET JobIds]]

Init == StoreInit /\ tx = [s \in Sessions |-> Idle]

-----------------------------------------------------------------------------
Others(s) == Sessions \ {s}

(* Who has written a version of j's row, of j's outbox row, of a row of    *)
(* type t that the partial unique index covers.                            *)
JobLockers(s, j)    == {r \in Others(s) : tx[r].job = j /\ tx[r].row # NoRowYet}
OutboxLockers(s, j) == {r \in Others(s) : j \in tx[r].outbox}
TypeLockers(s, t)   == {r \in Others(s) : tx[r].row # NoRowYet /\ tx[r].row.type = t}

(* Mutant: mark_dispatched updates jobs WHERE id only.                     *)
MarkableById(j) == TRUE

Markable(j) == status[j] = "queued"

(* The WHERE clause of a method's UPDATE of jobs, and the row it writes.   *)
Matches(method, j) ==
  CASE method = "mark"    -> Markable(j)
    [] method = "claim"   -> Claimable(j)
    [] method = "resolve" -> Resolvable(j)
    [] method = "requeue" -> Requeueable(j)
    [] OTHER              -> status[j] = "running"

Committed(j) == [status |-> status[j], type |-> jobType[j], attempts |-> attempts[j],
                 input |-> inputPayload[j], payload |-> payload[j]]

Updated(method, j) ==
  LET to(st) == [Committed(j) EXCEPT !.status = st]
  IN  CASE method = "mark"     -> to("dispatched")
        [] method = "claim"    -> to("running")
        [] method = "complete" -> to("completed")
        [] method = "requeue"  -> [to("queued") EXCEPT !.attempts = @ + 1]
        [] method = "resolve"  ->
             [Committed(j) EXCEPT !.payload =
                Merge(config[jobType[j]].payload, inputPayload[j])]
        [] OTHER               -> to("failed")

Did(s, t) == tx' = [tx EXCEPT ![s] = [t EXCEPT !.todo = Tail(@)]] /\ UNCHANGED storeVars

(* INSERT ... ON CONFLICT DO NOTHING: it waits for a transaction that has  *)
(* written a row of the type; then a committed active row is a conflict    *)
(* and enqueue returns None, else the row is new.  Its id was drawn from   *)
(* the sequence, so it is nobody else's.                                   *)
Insert(s, t) ==
  \E type \in JobTypes, input \in Inputs :
    /\ TypeLockers(s, type) = {}
    /\ status[t.job] = "absent" /\ \A r \in Others(s) : tx[r].job # t.job
    /\ \/ /\ SlotFree(type)
          /\ Did(s, [t EXCEPT !.row = [status |-> "queued", type |-> type, attempts |-> 0,
                                     input |-> input, payload |-> EmptyPayload]])
       \/ ~SlotFree(type) /\ Did(s, [t EXCEPT !.todo = <<"insert">>])

(* UPDATE jobs.  requeue_stuck returns when it has updated no row.         *)
UpdateJobs(s, t) ==
  \/ /\ Matches(t.method, t.job)
     /\ JobLockers(s, t.job) = {}
     /\ Did(s, [t EXCEPT !.row = Updated(t.method, t.job)])
  \/ /\ ~Matches(t.method, t.job)
     /\ Did(s, IF t.method = "requeue" THEN [t EXCEPT !.todo = <<"jobs">>] ELSE t)

(* UPDATE outbox by key, or enqueue's INSERT of the new job's row.         *)
WriteOutbox(s, t) ==
  /\ OutboxLockers(s, t.job) = {}
  /\ Did(s, [t EXCEPT !.outbox = {t.job}])

(* SELECT ... FOR UPDATE SKIP LOCKED never waits.                          *)
SelectOutbox(s, t) ==
  Did(s, [t EXCEPT !.outbox =
    FetchUnpublished(UNION {tx[r].outbox : r \in Others(s)}, BatchSize)])

Statement(s, t) ==
  /\ t.todo # <<>>
  /\ CASE Head(t.todo) = "insert" -> Insert(s, t)
       [] Head(t.todo) = "jobs"   -> UpdateJobs(s, t)
       [] Head(t.todo) = "outbox" -> WriteOutbox(s, t)
       [] Head(t.todo) = "select" -> SelectOutbox(s, t)

(* A method is called with the id of a job its caller has seen.            *)
Call(s, method, j) ==
  /\ tx[s] = Idle
  /\ method \notin {"enqueue", "fetch"} => status[j] # "absent"
  /\ Statement(s, Begin(method, j))

Continue(s) == Statement(s, tx[s])

(* The end of the transaction block: its row versions become the committed *)
(* ones and its locks are gone.                                            *)
Commit(s) ==
  LET t == tx[s]
      j == t.job
  IN  /\ t # Idle /\ t.todo = <<>>
      /\ IF t.row = NoRowYet
           THEN UNCHANGED <<status, jobType, attempts, inputPayload, payload>>
           ELSE /\ status' = [status EXCEPT ![j] = t.row.status]
                /\ jobType' = [jobType EXCEPT ![j] = t.row.type]
                /\ attempts' = [attempts EXCEPT ![j] = t.row.attempts]
                /\ inputPayload' = [inputPayload EXCEPT ![j] = t.row.input]
                /\ payload' = [payload EXCEPT ![j] = t.row.payload]
      /\ unpublished' = IF j \notin t.outbox THEN unpublished
                        ELSE IF t.method = "mark" THEN unpublished \ {j}
                             ELSE unpublished \cup {j}
      /\ tx' = [tx EXCEPT ![s] = Idle]
      /\ UNCHANGED <<config, expired>>

(* The connection or its process is gone: the server rolls back.           *)
Abort(s) ==
  /\ tx[s] # Idle
  /\ tx' = [tx EXCEPT ![s] = Idle]
  /\ UNCHANGED storeVars

Next == \E s \in Sessions :
  \/ \E method \in Methods \ {"fetch"}, j \in JobIds : Call(s, method, j)
  \/ Call(s, "fetch", 0)
  \/ Continue(s) \/ Commit(s) \/ Abort(s)

Spec == Init /\ [][Next]_vars

-----------------------------------------------------------------------------
(* Whom a session's next statement waits for.                              *)
WaitsFor(s) ==
  CASE tx[s].todo = <<"jobs">>   -> IF Matches(tx[s].method, tx[s].job)
                                      THEN JobLockers(s, tx[s].job) ELSE {}
    [] tx[s].todo = <<"outbox">> -> OutboxLockers(s, tx[s].job)
    [] OTHER                     -> {}

(* mark_dispatched locks outbox then jobs, requeue_stuck jobs then outbox. *)
(* All the same no circle of transactions waits for one another: a row     *)
(* that requeue_stuck has locked was running, and mark_dispatched passes   *)
(* over a row that is not queued instead of waiting for it.  (A session in *)
(* its first statement holds nothing, so it is in no circle.)              *)
NoDeadlock ==
  \A circle \in (SUBSET Sessions) \ {{}} :
    \E s \in circle : WaitsFor(s) \cap circle = {}

(* Every transaction that commits changes the tables as its method would   *)
(* in one step at that moment, and an aborted one not at all: the methods  *)
(* of db.py are atomic although the status mark_dispatched looked at may   *)
(* be old when it commits.                                                 *)
MethodsAreAtomic == StoreSpec

=============================================================================
