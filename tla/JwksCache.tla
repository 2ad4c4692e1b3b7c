----------------------------- MODULE JwksCache -----------------------------
(***************************************************************************)
(* JwksCache of handlerAPIv2/auth.py: the issuer's signing keys, fetched   *)
(* and kept under one lock.  A key is its kid.  The issuer publishes a set *)
(* of kids and rotates it at any time, also while a fetch is under way;    *)
(* monotonic() - _fetched_at > _ttl is the flag stale.                     *)
(***************************************************************************)
EXTENDS RequestPool, Integers, FiniteSets

CONSTANTS
  Kids, NoKid,
  MaxRotations   \* bound on the issuer's rotations

ASSUME JwksAssumption == MaxRotations \in Nat

VARIABLES
  issued,     \* external: the kids the issuer publishes now
  rotations,  \* how often it changed them
  keys,       \* _keys
  stale,      \* the cache is older than _ttl
  lock,       \* who holds _lock
  kpc,        \* the step of get_key a request is at
  kid,        \* its argument
  response,   \* the key set a fetch brought back
  steady,     \* history: requests whose kid was published all along
  dead        \* history: kids gone for good, see GrowStale

jwksVars == <<issued, rotations, keys, stale, lock, kpc, kid, response, steady, dead>>

(* "out" is outside get_key; the last three are what it returned or raised.*)
KeySteps == {"out", "wait", "fetch1", "apply1", "fetch2", "apply2",
             "key", "no key", "error"}
Holding == {"fetch1", "apply1", "fetch2", "apply2"}

JwksInit ==
  /\ issued \in (SUBSET Kids) \ {{}}
  /\ rotations = 0
  /\ keys = {} /\ stale \in BOOLEAN
  /\ lock = NoRequest
  /\ kpc = [h \in Requests |-> "out"]
  /\ kid = [h \in Requests |-> NoKid]
  /\ response = [h \in Requests |-> {}]
  /\ steady = {} /\ dead = {}

-----------------------------------------------------------------------------
Call(h, k) ==
  /\ kpc[h] = "out"
  /\ kpc' = [kpc EXCEPT ![h] = "wait"]
  /\ kid' = [kid EXCEPT ![h] = k]
  /\ steady' = IF k \in issued THEN steady \cup {h} ELSE steady \ {h}
  /\ UNCHANGED <<issued, rotations, keys, stale, lock, response, dead>>

(* Mutant: only a kid miss refreshes.                                      *)
AcquireIgnoresTtl(h) ==
  /\ kpc[h] = "wait" /\ lock = NoRequest
  /\ IF kid[h] \notin keys
       THEN lock' = h /\ kpc' = [kpc EXCEPT ![h] = "fetch1"]
       ELSE lock' = lock /\ kpc' = [kpc EXCEPT ![h] = "key"]
  /\ UNCHANGED <<issued, rotations, keys, stale, kid, response, steady, dead>>

(* Mutant: only the TTL refreshes.                                         *)
AcquireIgnoresMiss(h) ==
  /\ kpc[h] = "wait" /\ lock = NoRequest
  /\ IF stale
       THEN lock' = h /\ kpc' = [kpc EXCEPT ![h] = "fetch1"]
       ELSE /\ lock' = lock
            /\ kpc' = [kpc EXCEPT ![h] = IF kid[h] \in keys THEN "key" ELSE "no key"]
  /\ UNCHANGED <<issued, rotations, keys, stale, kid, response, steady, dead>>

(* with self._lock: the kid is there and the cache is young, or refresh.   *)
Acquire(h) ==
  /\ kpc[h] = "wait" /\ lock = NoRequest
  /\ IF kid[h] \notin keys \/ stale
       THEN lock' = h /\ kpc' = [kpc EXCEPT ![h] = "fetch1"]
       ELSE lock' = lock /\ kpc' = [kpc EXCEPT ![h] = "key"]
  /\ UNCHANGED <<issued, rotations, keys, stale, kid, response, steady, dead>>

(* _refresh: the issuer answers with what it publishes at that moment ...  *)
Fetch(h) ==
  /\ kpc[h] \in {"fetch1", "fetch2"}
  /\ response' = [response EXCEPT ![h] = issued]
  /\ kpc' = [kpc EXCEPT ![h] = IF @ = "fetch1" THEN "apply1" ELSE "apply2"]
  /\ UNCHANGED <<issued, rotations, keys, stale, lock, kid, steady, dead>>

(* Mutant: the lock is released by hand, after the fetch.                  *)
FetchFailsLocked(h) ==
  /\ kpc[h] \in {"fetch1", "fetch2"}
  /\ kpc' = [kpc EXCEPT ![h] = "error"]
  /\ UNCHANGED <<issued, rotations, keys, stale, lock, kid, response, steady, dead>>

(* ... or the request times out, answers an error status or no key set:    *)
(* the exception leaves get_key and the with block releases the lock.      *)
FetchFails(h) ==
  /\ kpc[h] \in {"fetch1", "fetch2"}
  /\ kpc' = [kpc EXCEPT ![h] = "error"]
  /\ lock' = NoRequest
  /\ UNCHANGED <<issued, rotations, keys, stale, kid, response, steady, dead>>

(* The cache is replaced; a kid it lacks is fetched for once more.         *)
Apply(h) ==
  /\ kpc[h] \in {"apply1", "apply2"}
  /\ keys' = response[h]
  /\ stale' = FALSE
  /\ \/ /\ kid[h] \in response[h]
        /\ kpc' = [kpc EXCEPT ![h] = "key"] /\ lock' = NoRequest
     \/ /\ kid[h] \notin response[h] /\ kpc[h] = "apply1"
        /\ kpc' = [kpc EXCEPT ![h] = "fetch2"] /\ lock' = lock
     \/ /\ kid[h] \notin response[h] /\ kpc[h] = "apply2"
        /\ kpc' = [kpc EXCEPT ![h] = "no key"] /\ lock' = NoRequest
  /\ response' = [response EXCEPT ![h] = {}]
  /\ UNCHANGED <<issued, rotations, kid, steady, dead>>

GetKeyStep(h) == Acquire(h) \/ Fetch(h) \/ FetchFails(h) \/ Apply(h)

(* The caller takes the outcome and is done with get_key.                  *)
Taken(h) ==
  /\ kpc' = [kpc EXCEPT ![h] = "out"]
  /\ kid' = [kid EXCEPT ![h] = NoKid]
  /\ steady' = steady \ {h}
  /\ UNCHANGED <<issued, rotations, keys, stale, lock, response, dead>>

(* The issuer publishes another set of keys.                               *)
Rotate(new) ==
  /\ rotations < MaxRotations /\ new # issued
  /\ issued' = new
  /\ rotations' = rotations + 1
  /\ steady' = {h \in steady : kid[h] \in new}
  /\ dead' = dead \ new
  /\ UNCHANGED <<keys, stale, lock, kpc, kid, response>>

(* The cache outlives its TTL, also while a refresh for an unknown kid has *)
(* the lock.  A kid the issuer has withdrawn by now is dead, unless the    *)
(* answer to that refresh was made earlier and has it: applied, the answer *)
(* is the cache for another TTL.                                           *)
GrowStale ==
  /\ ~stale
  /\ stale' = TRUE
  /\ dead' = Kids \ (issued \cup UNION {response[h] : h \in Requests})
  /\ UNCHANGED <<issued, rotations, keys, lock, kpc, kid, response, steady>>

=============================================================================
