---------------------------- MODULE JobLifecycle ----------------------------
(***************************************************************************)
(* What the queue promises a producer, with no dispatcher, broker, worker  *)
(* or reaper in sight: a submitted job waits, is started, may go back to   *)
(* waiting, and ends completed or failed for good; it is started at most   *)
(* MaxStarts times; and a type has at most one job between submission and  *)
(* end.  Orchestrator implements this specification.                       *)
(***************************************************************************)
EXTENDS Integers

CONSTANTS Jobs, Types, Unset, MaxStarts

VARIABLES phase, kind, starts

lifecycleVars == <<phase, kind, starts>>

Open == {"waiting", "running"}

Init ==
  /\ phase = [j \in Jobs |-> "none"]
  /\ kind = [j \in Jobs |-> Unset]
  /\ starts = [j \in Jobs |-> 0]

Submit(j, t) ==
  /\ phase[j] = "none"
  /\ \A k \in Jobs : kind[k] = t => phase[k] \notin Open
  /\ phase' = [phase EXCEPT ![j] = "waiting"]
  /\ kind' = [kind EXCEPT ![j] = t]
  /\ UNCHANGED starts

Start(j) ==
  /\ phase[j] = "waiting"
  /\ starts[j] < MaxStarts
  /\ phase' = [phase EXCEPT ![j] = "running"]
  /\ starts' = [starts EXCEPT ![j] = @ + 1]
  /\ UNCHANGED kind

Abandon(j) ==
  /\ phase[j] = "running"
  /\ phase' = [phase EXCEPT ![j] = "waiting"]
  /\ UNCHANGED <<kind, starts>>

Finish(j, result) ==
  /\ phase[j] = "running"
  /\ phase' = [phase EXCEPT ![j] = result]
  /\ UNCHANGED <<kind, starts>>

Next == \E j \in Jobs :
  \/ \E t \in Types : Submit(j, t)
  \/ Start(j)
  \/ Abandon(j)
  \/ \E result \in {"completed", "failed"} : Finish(j, result)

Spec == Init /\ [][Next]_lifecycleVars

=============================================================================
