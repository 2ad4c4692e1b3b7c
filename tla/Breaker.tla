------------------------------ MODULE Breaker ------------------------------
(***************************************************************************)
(* The circuit breaker around the store's calls: pybreaker, an external    *)
(* library, as handlerAPIv2/circuit_breaker.py builds and uses it.  call   *)
(* holds the breaker's lock while the wrapped function runs.  The call     *)
(* that trips the breaker raises CircuitBreakerError, not its own error.   *)
(***************************************************************************)
EXTENDS RequestPool, Integers

CONSTANT FailMax   \* db_circuit_failure_threshold

ASSUME BreakerAssumption == FailMax \in Nat \ {0}

VARIABLES
  circuit,  \* current_state
  fails,    \* fail_counter
  cooled,   \* reset_timeout has passed since the last failed call
  caller    \* the request inside call, if any

breakerVars == <<circuit, fails, cooled, caller>>

Circuits == {"closed", "open", "half-open"}

BreakerInit ==
  /\ circuit = "closed" /\ fails = 0 /\ cooled = TRUE /\ caller = NoRequest

(* Mutant: the breaker never tries again.                                  *)
RejectsForever == circuit = "open"

Rejects == circuit = "open" /\ ~cooled

(* The call goes through; after the cooldown it is the trial call.         *)
Admit(h) ==
  /\ caller = NoRequest /\ ~Rejects
  /\ caller' = h
  /\ circuit' = IF circuit = "open" THEN "half-open" ELSE circuit
  /\ UNCHANGED <<fails, cooled>>

Reject ==
  /\ caller = NoRequest /\ Rejects
  /\ UNCHANGED breakerVars

(* Mutant: a success closes the breaker but keeps the count.               *)
SucceedKeepsCount(h) ==
  /\ caller = h
  /\ circuit' = "closed"
  /\ caller' = NoRequest
  /\ UNCHANGED <<fails, cooled>>

Succeed(h) ==
  /\ caller = h
  /\ circuit' = "closed" /\ fails' = 0
  /\ caller' = NoRequest
  /\ UNCHANGED cooled

Trips == circuit = "half-open" \/ fails + 1 >= FailMax

(* Mutant: failures are counted and the threshold never compared.          *)
FailNeverTrips(h) ==
  /\ caller = h
  /\ fails' = fails + 1
  /\ cooled' = FALSE
  /\ caller' = NoRequest
  /\ UNCHANGED circuit

(* A failed trial call counts as well; opening does not reset the count.   *)
Fail(h) ==
  /\ caller = h
  /\ fails' = fails + 1
  /\ circuit' = IF Trips THEN "open" ELSE circuit
  /\ cooled' = FALSE
  /\ caller' = NoRequest

CoolDown ==
  /\ ~cooled
  /\ cooled' = TRUE
  /\ UNCHANGED <<circuit, fails, caller>>

=============================================================================
