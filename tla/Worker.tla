------------------------------- MODULE Worker -------------------------------
(***************************************************************************)
(* worker/service.py and the loop of worker/__main__.py: poll a message,   *)
(* process it (claim, resolve_payload, look the handler up, run it,        *)
(* complete or fail) and commit the offset after the outcome is stored.    *)
(* Each store call is a step of its own; anything may happen in between.   *)
(***************************************************************************)
EXTENDS JobStore, Kafka

CONSTANT Registered   \* the job types with a handler in worker/registry.py

ASSUME WorkerAssumption == Registered \subseteq JobTypes

VARIABLES
  wpc,      \* the step a worker is at
  wjob,     \* envelope["job_id"] of the message in hand
  wpayload, \* the payload resolve_payload returned
  outcome,  \* what process will return
  claims    \* history: per job, how many claims succeeded

workerVars == <<wpc, wjob, wpayload, outcome, claims>>

NoJob == 0
WorkerSteps == {"idle", "claim", "resolve", "run", "complete", "fail", "commit"}
Outcomes == {"none", "skipped", "no_config", "failed", "completed"}

WorkerTypeOK ==
  /\ wpc \in [Workers -> WorkerSteps]
  /\ wjob \in [Workers -> JobIds \cup {NoJob}]
  /\ wpayload \in [Workers -> Payloads]
  /\ outcome \in [Workers -> Outcomes]
  /\ claims \in [JobIds -> Nat]

WorkerInit ==
  /\ wpc = [w \in Workers |-> "idle"]
  /\ wjob = [w \in Workers |-> NoJob]
  /\ wpayload = [w \in Workers |-> EmptyPayload]
  /\ outcome = [w \in Workers |-> "none"]
  /\ claims = [j \in JobIds |-> 0]

Goto(w, step, result) ==
  /\ wpc' = [wpc EXCEPT ![w] = step]
  /\ outcome' = [outcome EXCEPT ![w] = result]

Poll(w, p) ==
  /\ wpc[w] = "idle"
  /\ Deliver(w, p)
  /\ wjob' = [wjob EXCEPT ![w] = Head(topic[p])]
  /\ Goto(w, "claim", "none")
  /\ UNCHANGED <<wpayload, claims, storeVars>>

(* Won: the row is running and the run is this worker's ...                *)
ClaimWon(w) ==
  /\ wpc[w] = "claim"
  /\ Claim(wjob[w])
  /\ claims' = [claims EXCEPT ![wjob[w]] = @ + 1]
  /\ Goto(w, "resolve", "none")
  /\ UNCHANGED <<wjob, wpayload, kafkaVars>>

(* ... lost: a duplicate or a redelivery, skipped.                         *)
ClaimLost(w) ==
  /\ wpc[w] = "claim"
  /\ ~Claimable(wjob[w])
  /\ Goto(w, "commit", "skipped")
  /\ UNCHANGED <<wjob, wpayload, claims, storeVars, kafkaVars>>

(* Mutant: the handler is given the job's input, not the stored snapshot.  *)
ResolveIgnoresMerge(w) ==
  /\ wpc[w] = "resolve"
  /\ ResolvePayload(wjob[w])
  /\ wpayload' = [wpayload EXCEPT ![w] = inputPayload[wjob[w]]]
  /\ IF jobType[wjob[w]] \in Registered
       THEN Goto(w, "run", "none")
       ELSE Goto(w, "fail", "failed")
  /\ UNCHANGED <<wjob, claims, kafkaVars>>

(* The payload is resolved; a type without a handler fails.                *)
Resolve(w) ==
  /\ wpc[w] = "resolve"
  /\ ResolvePayload(wjob[w])
  /\ wpayload' = [wpayload EXCEPT ![w] = payload'[wjob[w]]]
  /\ IF jobType[wjob[w]] \in Registered
       THEN Goto(w, "run", "none")
       ELSE Goto(w, "fail", "failed")
  /\ UNCHANGED <<wjob, claims, kafkaVars>>

(* resolve_payload returned None.                                          *)
ResolveNone(w) ==
  /\ wpc[w] = "resolve"
  /\ ~Resolvable(wjob[w])
  /\ Goto(w, "fail", "no_config")
  /\ UNCHANGED <<wjob, wpayload, claims, storeVars, kafkaVars>>

(* handler(payload) returns, or raises.                                    *)
RunHandler(w) ==
  /\ wpc[w] = "run"
  /\ Goto(w, "complete", "completed") \/ Goto(w, "fail", "failed")
  /\ UNCHANGED <<wjob, wpayload, claims, storeVars, kafkaVars>>

(* store.complete / store.fail; the worker ignores what they return, so a  *)
(* row that is no longer running is left alone and the loop goes on.       *)
Report(w) ==
  /\ \/ wpc[w] = "complete" /\ Complete(wjob[w])
     \/ wpc[w] = "fail" /\ Fail(wjob[w])
     \/ /\ wpc[w] \in {"complete", "fail"}
        /\ status[wjob[w]] # "running"
        /\ UNCHANGED storeVars
  /\ Goto(w, "commit", outcome[w])
  /\ UNCHANGED <<wjob, wpayload, claims, kafkaVars>>

WorkerReset(w) ==
  /\ wpc' = [wpc EXCEPT ![w] = "idle"]
  /\ wjob' = [wjob EXCEPT ![w] = NoJob]
  /\ wpayload' = [wpayload EXCEPT ![w] = EmptyPayload]
  /\ outcome' = [outcome EXCEPT ![w] = "none"]
  /\ UNCHANGED <<claims, storeVars>>

(* consumer.commit(): if the partition was revoked meanwhile nothing is    *)
(* committed, and the call raises or returns; either way the worker ends   *)
(* up polling afresh.                                                      *)
CommitOffset(w) ==
  /\ wpc[w] = "commit"
  /\ \/ Acknowledge(w, PartitionOf[wjob[w]])
     \/ inflight[PartitionOf[wjob[w]]] # w /\ UNCHANGED kafkaVars
  /\ WorkerReset(w)

WorkerCrash(w) ==
  /\ wpc[w] # "idle"
  /\ ConsumerGone(w)
  /\ WorkerReset(w)

(* Every step but the handler's own, which may take any time.              *)
WorkerProtocolStep(w) ==
  \/ \E p \in Partitions : Poll(w, p)
  \/ ClaimWon(w) \/ ClaimLost(w)
  \/ Resolve(w) \/ ResolveNone(w)
  \/ Report(w) \/ CommitOffset(w)

WorkerStep(w) == WorkerProtocolStep(w) \/ RunHandler(w)

=============================================================================
