------------------------------- MODULE Reaper -------------------------------
(***************************************************************************)
(* reaper/service.py: reap_once lists the stuck runs and then, one by one, *)
(* requeues them or, where requeue_stuck refuses, dead-letters them.  The  *)
(* list is a snapshot: neither call looks at the timeout again.  The       *)
(* deployment runs one reaper; Reapers is a set so that the assumption is  *)
(* visible where a property needs it.                                      *)
(***************************************************************************)
EXTENDS JobStore

CONSTANT Reapers

VARIABLES
  sweep,   \* jobs find_stuck returned that reap_once has not reached
  refused  \* the jobs requeue_stuck refused, next to be dead-lettered (0 or 1)

reaperVars == <<sweep, refused>>

ReaperTypeOK ==
  /\ sweep \in [Reapers -> SUBSET JobIds]
  /\ refused \in [Reapers -> SUBSET JobIds]

ReaperInit ==
  /\ sweep = [r \in Reapers |-> {}]
  /\ refused = [r \in Reapers |-> {}]

Sweep(r) ==
  /\ sweep[r] = {} /\ refused[r] = {}
  /\ FindStuck # {}
  /\ sweep' = [sweep EXCEPT ![r] = FindStuck]
  /\ UNCHANGED <<refused, storeVars>>

Requeue(r, j) ==
  /\ refused[r] = {} /\ j \in sweep[r]
  /\ RequeueStuck(j)
  /\ sweep' = [sweep EXCEPT ![r] = @ \ {j}]
  /\ UNCHANGED refused

(* Mutant: reap_once never falls back on dead_letter.                      *)
RefusedIsDropped(r, j) ==
  /\ refused[r] = {} /\ j \in sweep[r]
  /\ ~Requeueable(j)
  /\ sweep' = [sweep EXCEPT ![r] = @ \ {j}]
  /\ UNCHANGED <<refused, storeVars>>

RequeueRefused(r, j) ==
  /\ refused[r] = {} /\ j \in sweep[r]
  /\ ~Requeueable(j)
  /\ sweep' = [sweep EXCEPT ![r] = @ \ {j}]
  /\ refused' = [refused EXCEPT ![r] = {j}]
  /\ UNCHANGED storeVars

GiveUp(r, j) ==
  /\ j \in refused[r]
  /\ \/ DeadLetter(j)
     \/ status[j] # "running" /\ UNCHANGED storeVars
  /\ refused' = [refused EXCEPT ![r] = {}]
  /\ UNCHANGED sweep

ReaperCrash(r) ==
  /\ sweep[r] \cup refused[r] # {}
  /\ sweep' = [sweep EXCEPT ![r] = {}]
  /\ refused' = [refused EXCEPT ![r] = {}]
  /\ UNCHANGED storeVars

=============================================================================
