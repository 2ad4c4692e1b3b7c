-------------------------- MODULE FrontDoorProofs --------------------------
(***************************************************************************)
(* Theorems about FrontDoor, for any number of concurrent requests, any    *)
(* set of kids, any threshold and any number of rotations and outages.     *)
(***************************************************************************)
EXTENDS FrontDoor, TLAPS

(* The types of the cache's variables and of the rest.                     *)
KeyTypes ==
  /\ issued \subseteq Kids /\ keys \subseteq Kids /\ dead \subseteq Kids
  /\ stale \in BOOLEAN /\ lock \in Requests \cup {NoRequest}
  /\ kpc \in [Requests -> KeySteps] /\ kid \in [Requests -> Kids \cup {NoKid}]
  /\ response \in [Requests -> SUBSET Kids] /\ steady \subseteq Requests
  /\ rotations \in 0 .. MaxRotations

DoorTypes ==
  /\ circuit \in Circuits /\ fails \in Nat /\ cooled \in BOOLEAN
  /\ caller \in Requests \cup {NoRequest}
  /\ pc \in [Requests -> Steps] /\ request \in [Requests -> Asked]
  /\ answer \in Codes
  /\ dbUp \in BOOLEAN /\ streak \in 0 .. FailMax
  /\ outages \in 0 .. MaxOutages

(* Whoever is between the first fetch and the last is the one with _lock.  *)
OneRefresh == \A h \in Requests : kpc[h] \in Holding => lock = h

(* A steady request's kid is published now, so the answer to a fetch of    *)
(* its own, however old when it is applied, has the kid.                   *)
SteadyKids ==
  /\ \A h \in steady : kid[h] \in issued
  /\ \A h \in steady : kpc[h] \in {"apply1", "apply2"} => kid[h] \in response[h]

(* A dead kid is not published, in no answer on its way, and in the cache  *)
(* only as long as that is stale.                                          *)
DeadKids ==
  /\ dead \cap issued = {}
  /\ \A h \in Requests : kpc[h] \in {"apply1", "apply2"} => dead \cap response[h] = {}
  /\ ~stale => dead \cap keys = {}

KeyInv == KeyTypes /\ OneRefresh /\ SteadyKids /\ DeadKids /\ CurrentKeyIsFound

(* The breaker counts the failures in a row and is closed just as long as  *)
(* there are fewer than FailMax; it is half-open only during a trial call. *)
CountsFailures ==
  /\ streak = IF fails < FailMax THEN fails ELSE FailMax
  /\ circuit = "closed" <=> fails < FailMax
  /\ circuit = "half-open" => caller # NoRequest

DoorInv == KeyInv /\ DoorTypes /\ CountsFailures

-----------------------------------------------------------------------------
(* get_key's steps under the lock keep the cache's invariant.              *)
LEMMA AcquireKeeps ==
  ASSUME KeyInv, NEW h \in Requests, Acquire(h)
  PROVE  KeyInv'
<1>1. KeyTypes'
  BY DEF KeyInv, KeyTypes, Acquire, KeySteps
<1>2. \A g \in Requests : kpc'[g] \in {"apply1", "apply2", "no key"} => kpc'[g] = kpc[g]
  BY DEF KeyInv, KeyTypes, Acquire
<1>3. OneRefresh'
  BY PoolAssumption DEF KeyInv, KeyTypes, OneRefresh, Acquire, Holding
<1>4. SteadyKids' /\ DeadKids' /\ CurrentKeyIsFound'
  BY <1>2 DEF KeyInv, KeyTypes, SteadyKids, DeadKids, CurrentKeyIsFound, Acquire
<1> QED
  BY <1>1, <1>3, <1>4 DEF KeyInv

(* A fetch brings back what the issuer publishes at that moment.           *)
LEMMA FetchKeeps ==
  ASSUME KeyInv, NEW h \in Requests, Fetch(h)
  PROVE  KeyInv'
<1>1. KeyTypes'
  BY DEF KeyInv, KeyTypes, Fetch, KeySteps
<1>2. /\ response'[h] = issued /\ kpc'[h] \in {"apply1", "apply2"} /\ lock' = lock
      /\ \A g \in Requests : g # h => response'[g] = response[g] /\ kpc'[g] = kpc[g]
  BY DEF KeyInv, KeyTypes, Fetch
<1>3. OneRefresh'
  BY <1>2 DEF KeyInv, OneRefresh, Fetch, Holding
<1>4. SteadyKids' /\ DeadKids' /\ CurrentKeyIsFound'
  BY <1>2 DEF KeyInv, KeyTypes, SteadyKids, DeadKids, CurrentKeyIsFound, Fetch
<1> QED
  BY <1>1, <1>3, <1>4 DEF KeyInv

(* A fetch that raises leaves the cache alone and releases _lock.          *)
LEMMA FetchFailsKeeps ==
  ASSUME KeyInv, NEW h \in Requests, FetchFails(h)
  PROVE  KeyInv'
<1>1. KeyTypes'
  BY DEF KeyInv, KeyTypes, FetchFails, KeySteps
<1>2. kpc'[h] = "error" /\ \A g \in Requests : g # h => kpc'[g] = kpc[g]
  BY DEF KeyInv, KeyTypes, FetchFails
<1>3. lock = h
  BY DEF KeyInv, OneRefresh, FetchFails, Holding
<1>4. OneRefresh'
  BY <1>2, <1>3 DEF KeyInv, OneRefresh, Holding
<1>5. SteadyKids' /\ DeadKids' /\ CurrentKeyIsFound'
  BY <1>2 DEF KeyInv, KeyTypes, SteadyKids, DeadKids, CurrentKeyIsFound, FetchFails
<1> QED
  BY <1>1, <1>4, <1>5 DEF KeyInv

(* The answer to a fetch replaces the cache and ends its staleness.        *)
LEMMA ApplyKeeps ==
  ASSUME KeyInv, NEW h \in Requests, Apply(h)
  PROVE  KeyInv'
<1>1. KeyTypes'
  BY DEF KeyInv, KeyTypes, Apply, KeySteps
<1>2. /\ kpc[h] \in {"apply1", "apply2"}
      /\ kpc'[h] \in {"key", "fetch2", "no key"}
      /\ kpc'[h] = "no key" => kid[h] \notin response[h]
      /\ kpc'[h] = "fetch2" => lock' = lock
      /\ \A g \in Requests : g # h => response'[g] = response[g] /\ kpc'[g] = kpc[g]
      /\ keys' = response[h]
      /\ UNCHANGED <<issued, kid, steady, dead>>
  BY DEF KeyInv, KeyTypes, Apply
<1>3. lock = h
  BY <1>2 DEF KeyInv, OneRefresh, Holding
<1>4. OneRefresh'
  BY <1>2, <1>3 DEF KeyInv, OneRefresh, Holding
<1>5. CurrentKeyIsFound'
  BY <1>2 DEF KeyInv, SteadyKids, CurrentKeyIsFound
<1>6. SteadyKids' /\ DeadKids'
  BY <1>2 DEF KeyInv, KeyTypes, SteadyKids, DeadKids
<1> QED
  BY <1>1, <1>4, <1>5, <1>6 DEF KeyInv

(* Coming and going, the issuer and the clock keep it as well.             *)
LEMMA CallKeeps ==
  ASSUME KeyInv, NEW h \in Requests, NEW k \in Kids, Call(h, k)
  PROVE  KeyInv'
<1>1. KeyTypes'
  BY DEF KeyInv, KeyTypes, Call, KeySteps
<1>2. /\ kpc'[h] = "wait" /\ kid'[h] = k
      /\ \A g \in Requests : g # h => kpc'[g] = kpc[g] /\ kid'[g] = kid[g]
      /\ \A g \in Requests : g # h => (g \in steady' <=> g \in steady)
      /\ h \in steady' => k \in issued
      /\ UNCHANGED <<issued, keys, stale, lock, response, dead>>
  BY DEF KeyInv, KeyTypes, Call
<1>3. OneRefresh' /\ DeadKids' /\ CurrentKeyIsFound'
  BY <1>2 DEF KeyInv, OneRefresh, DeadKids, CurrentKeyIsFound, Holding
<1>4. SteadyKids'
  <2>1. \A g \in steady' : g \in Requests
    BY <1>1 DEF KeyTypes
  <2> QED
    BY <1>2, <2>1 DEF KeyInv, SteadyKids
<1> QED
  BY <1>1, <1>3, <1>4 DEF KeyInv

(* A request that has its key, or the lack of one, leaves get_key.         *)
LEMMA TakenKeeps ==
  ASSUME KeyInv, NEW h \in Requests, Taken(h)
  PROVE  KeyInv'
<1>1. KeyTypes'
  BY DEF KeyInv, KeyTypes, Taken, KeySteps
<1>2. /\ kpc'[h] = "out" /\ h \notin steady'
      /\ \A g \in Requests : g # h => kpc'[g] = kpc[g] /\ kid'[g] = kid[g]
      /\ steady' \subseteq steady
      /\ UNCHANGED <<issued, keys, stale, lock, response, dead>>
  BY DEF KeyInv, KeyTypes, Taken
<1>3. OneRefresh' /\ DeadKids' /\ CurrentKeyIsFound'
  BY <1>2 DEF KeyInv, OneRefresh, DeadKids, CurrentKeyIsFound, Holding
<1>4. SteadyKids'
  BY <1>1, <1>2 DEF KeyInv, KeyTypes, SteadyKids
<1> QED
  BY <1>1, <1>3, <1>4 DEF KeyInv

(* The issuer publishes other kids; a request for a dropped one is no      *)
(* longer steady.                                                          *)
LEMMA RotateKeeps ==
  ASSUME KeyInv, NEW new \in SUBSET Kids, Rotate(new)
  PROVE  KeyInv'
<1>1. KeyTypes'
  BY JwksAssumption DEF KeyInv, KeyTypes, Rotate
<1>2. OneRefresh' /\ SteadyKids' /\ DeadKids' /\ CurrentKeyIsFound'
  BY DEF KeyInv, OneRefresh, SteadyKids, DeadKids, CurrentKeyIsFound, Rotate
<1> QED
  BY <1>1, <1>2 DEF KeyInv

(* The TTL runs out, during a refresh or not: what is neither published    *)
(* nor in an answer on its way is dead.                                    *)
LEMMA GrowStaleKeeps ==
  ASSUME KeyInv, GrowStale
  PROVE  KeyInv'
<1>1. KeyTypes'
  BY DEF KeyInv, KeyTypes, GrowStale
<1>2. dead' \cap issued = {} /\ \A h \in Requests : dead' \cap response[h] = {}
  BY DEF GrowStale
<1>3. OneRefresh' /\ SteadyKids' /\ DeadKids' /\ CurrentKeyIsFound'
  BY <1>2 DEF KeyInv, OneRefresh, SteadyKids, DeadKids, CurrentKeyIsFound, GrowStale
<1> QED
  BY <1>1, <1>3 DEF KeyInv

(* Steps outside the cache keep its invariant.                             *)
LEMMA KeysUnchanged == ASSUME KeyInv, UNCHANGED jwksVars PROVE KeyInv'
BY DEF KeyInv, KeyTypes, OneRefresh, SteadyKids, DeadKids, CurrentKeyIsFound, jwksVars

(* Every step inside get_key keeps the cache's invariant.                  *)
LEMMA GetKeyKeeps ==
  ASSUME KeyInv, NEW h \in Requests, GetKeyStep(h)
  PROVE  KeyInv'
BY AcquireKeeps, FetchKeeps, FetchFailsKeeps, ApplyKeeps DEF GetKeyStep

-----------------------------------------------------------------------------
(* Where a request goes next, or the answer it gets, leaves the types.     *)
LEMMA GotoTypes ==
  ASSUME DoorTypes, NEW h \in Requests, NEW step \in Steps, Goto(h, step)
  PROVE  pc' \in [Requests -> Steps] /\ request' \in [Requests -> Asked] /\ answer' \in Codes
BY DEF DoorTypes, Goto

(* Answering a request keeps the types of the door's variables.            *)
LEMMA ReplyTypes ==
  ASSUME DoorTypes, NEW h \in Requests, NEW code \in Codes, Reply(h, code)
  PROVE  pc' \in [Requests -> Steps] /\ request' \in [Requests -> Asked] /\ answer' \in Codes
<1>1. Probe \in Asked
  BY DEF Asked
<1> QED
  BY <1>1 DEF DoorTypes, Reply, Steps

(* A request that calls get_key names a kid.                               *)
LEMMA TrafficTypes ==
  ASSUME NEW r \in Traffic
  PROVE  r \in Asked /\ (r # Probe => r.kid \in Kids)
BY DEF Traffic, Asked

(* The request's steps before the breaker leave breaker and database.      *)
LEMMA ArriveKeeps ==
  ASSUME DoorInv, NEW h \in Requests, NEW r \in Traffic, Arrive(h, r)
  PROVE  DoorInv'
<1>1. UNCHANGED <<circuit, fails, cooled, caller, dbUp, outages, streak>>
  BY DEF Arrive, breakerVars
<1>2. KeyInv'
  BY TrafficTypes, CallKeeps, KeysUnchanged DEF Arrive, DoorInv
<1>3. pc' \in [Requests -> Steps] /\ request' \in [Requests -> Asked] /\ answer' \in Codes
  <2>1. CASE Goto(h, "breaker")
    BY <2>1, GotoTypes DEF DoorInv, Steps
  <2>2. CASE Reply(h, 401)
    BY <2>2, ReplyTypes DEF DoorInv, Codes
  <2>3. CASE /\ pc' = [pc EXCEPT ![h] = "auth"]
             /\ request' = [request EXCEPT ![h] = r]
             /\ UNCHANGED answer
    BY <2>3, TrafficTypes DEF DoorInv, DoorTypes, Steps
  <2> QED
    BY <2>1, <2>2, <2>3 DEF Arrive
<1> QED
  BY <1>1, <1>2, <1>3 DEF DoorInv, DoorTypes, CountsFailures

(* A step of get_key.                                                      *)
LEMMA SelectKeyKeeps ==
  ASSUME DoorInv, NEW h \in Requests, SelectKey(h)
  PROVE  DoorInv'
BY GetKeyKeeps DEF DoorInv, DoorTypes, CountsFailures, SelectKey, breakerVars, doorVars

(* Claims, scope and body are checked.                                     *)
LEMMA CheckKeeps ==
  ASSUME DoorInv, NEW h \in Requests, Check(h)
  PROVE  DoorInv'
<1>1. UNCHANGED <<circuit, fails, cooled, caller, dbUp, outages, streak>>
  BY DEF Check, breakerVars
<1>2. KeyInv'
  BY TakenKeeps DEF Check, DoorInv
<1>3. (\E code \in Codes : Reply(h, code)) \/ Goto(h, "breaker")
  BY DEF Check, Codes
<1>4. pc' \in [Requests -> Steps] /\ request' \in [Requests -> Asked] /\ answer' \in Codes
  BY <1>3, ReplyTypes, GotoTypes DEF DoorInv, Steps
<1> QED
  BY <1>1, <1>2, <1>4 DEF DoorInv, DoorTypes, CountsFailures

(* A request is refused with 401 for want of a key, with 500 when the      *)
(* fetch raised.                                                           *)
LEMMA RefuseCodes ==
  ASSUME NEW h \in Requests, Refuse(h)
  PROVE  Reply(h, 401) \/ Reply(h, 500)
<1>1. CASE kpc[h] = "no key"
  BY <1>1 DEF Refuse
<1>2. CASE kpc[h] # "no key"
  BY <1>2 DEF Refuse
<1> QED
  BY <1>1, <1>2

(* A request without its key is refused.                                   *)
LEMMA RefuseKeeps ==
  ASSUME DoorInv, NEW h \in Requests, Refuse(h)
  PROVE  DoorInv'
<1>1. UNCHANGED <<circuit, fails, cooled, caller, dbUp, outages, streak>>
  BY DEF Refuse, breakerVars
<1>2. KeyInv'
  BY TakenKeeps DEF Refuse, DoorInv
<1>3. \E code \in Codes : Reply(h, code)
  BY RefuseCodes DEF Codes
<1>4. pc' \in [Requests -> Steps] /\ request' \in [Requests -> Asked] /\ answer' \in Codes
  BY <1>3, ReplyTypes DEF DoorInv
<1> QED
  BY <1>1, <1>2, <1>4 DEF DoorInv, DoorTypes, CountsFailures

(* The breaker's steps keep the count of failures.                         *)
LEMMA ShedKeeps ==
  ASSUME DoorInv, NEW h \in Requests, Shed(h)
  PROVE  DoorInv'
<1>1. UNCHANGED <<circuit, fails, cooled, caller, dbUp, outages, streak>>
  BY DEF Shed, Reject, breakerVars
<1>2. KeyInv'
  BY KeysUnchanged DEF Shed, DoorInv
<1>3. pc' \in [Requests -> Steps] /\ request' \in [Requests -> Asked] /\ answer' \in Codes
  BY ReplyTypes DEF Shed, DoorInv, Codes
<1> QED
  BY <1>1, <1>2, <1>3 DEF DoorInv, DoorTypes, CountsFailures

(* The breaker lets a call through, as the trial when it has cooled down.  *)
LEMMA AdmittedKeeps ==
  ASSUME DoorInv, NEW h \in Requests, Admitted(h)
  PROVE  DoorInv'
<1>1. UNCHANGED <<fails, cooled, dbUp, outages, streak>> /\ caller' = h
      /\ circuit' = IF circuit = "open" THEN "half-open" ELSE circuit
  BY DEF Admitted, Admit
<1>2. KeyInv'
  BY KeysUnchanged DEF Admitted, DoorInv
<1>3. pc' \in [Requests -> Steps] /\ request' \in [Requests -> Asked] /\ answer' \in Codes
  BY GotoTypes DEF Admitted, DoorInv, Steps
<1> QED
  BY <1>1, <1>2, <1>3, PoolAssumption DEF DoorInv, DoorTypes, CountsFailures, Circuits

(* What a store call that returns answers, by what was asked for.          *)
LEMMA ReturnCodes ==
  ASSUME DoorTypes, NEW h \in Requests, StoreReturns(h)
  PROVE  \E code \in {200, 201, 404, 409} : Reply(h, code)
<1>1. request[h].op \in {"create", "read", "ready"}
  <2>1. request[h] \in Asked
    BY DEF DoorTypes
  <2> QED
    BY <2>1 DEF Asked, Probe
<1> QED
  BY <1>1 DEF StoreReturns

(* A store call that returns resets the count and closes the breaker.      *)
LEMMA StoreReturnsKeeps ==
  ASSUME DoorInv, NEW h \in Requests, StoreReturns(h)
  PROVE  DoorInv'
<1>1. /\ UNCHANGED <<cooled, dbUp, outages>> /\ caller' = NoRequest
      /\ circuit' = "closed" /\ fails' = 0 /\ streak' = 0
  BY DEF StoreReturns, Succeed
<1>2. KeyInv'
  BY KeysUnchanged DEF StoreReturns, DoorInv
<1>3. pc' \in [Requests -> Steps] /\ request' \in [Requests -> Asked] /\ answer' \in Codes
  BY ReturnCodes, ReplyTypes DEF DoorInv, Codes
<1> QED
  BY <1>1, <1>2, <1>3, BreakerAssumption DEF DoorInv, DoorTypes, CountsFailures, Circuits

(* A failed call counts, and the one that trips is at least the FailMax-th *)
(* in a row: a trial call follows FailMax failures already.                *)
LEMMA FailCounts ==
  ASSUME DoorInv, NEW h \in Requests, StoreRaises(h)
  PROVE  /\ CountsFailures' /\ fails' \in Nat /\ streak' \in 1 .. FailMax
         /\ Trips => streak' = FailMax
<1>1. /\ fails' = fails + 1
      /\ streak' = IF streak < FailMax THEN streak + 1 ELSE streak
      /\ circuit' = IF Trips THEN "open" ELSE circuit
  BY DEF StoreRaises, Fail
<1>2. /\ fails \in Nat /\ FailMax \in Nat \ {0} /\ circuit \in Circuits
      /\ streak = IF fails < FailMax THEN fails ELSE FailMax
      /\ circuit = "closed" <=> fails < FailMax
  BY BreakerAssumption DEF DoorInv, DoorTypes, CountsFailures
<1>3. Trips <=> fails + 1 >= FailMax
  BY <1>2 DEF Trips, Circuits
<1> QED
  BY <1>1, <1>2, <1>3 DEF CountsFailures, Circuits

(* A store call that raises is counted and may trip the breaker.           *)
LEMMA StoreRaisesKeeps ==
  ASSUME DoorInv, NEW h \in Requests, StoreRaises(h)
  PROVE  DoorInv'
<1>1. /\ UNCHANGED <<dbUp, outages>> /\ caller' = NoRequest
      /\ circuit' = IF Trips THEN "open" ELSE circuit
      /\ cooled' = FALSE
  BY DEF StoreRaises, Fail
<1>2. KeyInv'
  BY KeysUnchanged DEF StoreRaises, DoorInv
<1>3. pc' \in [Requests -> Steps] /\ request' \in [Requests -> Asked] /\ answer' \in Codes
  BY ReplyTypes DEF StoreRaises, DoorInv, Codes
<1>4. CountsFailures' /\ fails' \in Nat /\ streak' \in 0 .. FailMax
  BY FailCounts, BreakerAssumption
<1> QED
  BY <1>1, <1>2, <1>3, <1>4 DEF DoorInv, DoorTypes, Circuits

(* Rotation, ageing, cooling down and the database's outages.              *)
LEMMA OutsideKeeps ==
  ASSUME DoorInv, Outside \/ Cooled
  PROVE  DoorInv'
<1>1. CASE Outside /\ UNCHANGED <<breakerVars, doorVars>>
  <2>1. KeyInv'
    BY <1>1, RotateKeeps, GrowStaleKeeps DEF Outside, DoorInv, doorVars
  <2> QED
    BY <1>1, <2>1 DEF DoorInv, DoorTypes, CountsFailures, breakerVars, doorVars
<1>2. CASE Outside /\ UNCHANGED jwksVars
  <2>1. KeyInv'
    BY <1>2, KeysUnchanged DEF DoorInv
  <2>2. UNCHANGED <<circuit, fails, cooled, caller, pc, request, answer, streak>>
    BY <1>2 DEF Outside, breakerVars, doorVars
  <2>3. dbUp' \in BOOLEAN
    BY <1>2 DEF Outside, DoorInv, DoorTypes, doorVars
  <2>4. outages' = outages \/ (outages < MaxOutages /\ outages' = outages + 1)
    BY <1>2 DEF Outside, doorVars
  <2>5. outages' \in 0 .. MaxOutages
    BY <2>4, FrontDoorAssumption DEF DoorInv, DoorTypes
  <2> QED
    BY <2>1, <2>2, <2>3, <2>5 DEF DoorInv, DoorTypes, CountsFailures
<1>3. CASE Cooled
  <2>1. KeyInv'
    BY <1>3, KeysUnchanged DEF DoorInv, Cooled
  <2> QED
    BY <1>3, <2>1 DEF Cooled, CoolDown, DoorInv, DoorTypes, CountsFailures, doorVars
<1> QED
  BY <1>1, <1>2, <1>3 DEF Outside

(* The invariant holds at start-up.                                        *)
LEMMA InitDoor == ASSUME Init PROVE DoorInv
<1>1. KeyInv
  BY JwksAssumption DEF Init, JwksInit, KeyInv, KeyTypes, OneRefresh, SteadyKids, DeadKids,
    CurrentKeyIsFound, KeySteps, Holding
<1>2. pc \in [Requests -> Steps] /\ request \in [Requests -> Asked] /\ answer \in Codes
  BY DEF Init, Steps, Asked, Codes
<1>3. /\ circuit \in Circuits /\ cooled \in BOOLEAN /\ dbUp \in BOOLEAN
      /\ caller \in Requests \cup {NoRequest} /\ CountsFailures
  BY BreakerAssumption DEF Init, BreakerInit, Circuits, CountsFailures
<1>4. fails \in Nat /\ streak \in 0 .. FailMax /\ outages \in 0 .. MaxOutages
  BY BreakerAssumption, FrontDoorAssumption DEF Init, BreakerInit
<1> QED
  BY <1>1, <1>2, <1>3, <1>4 DEF DoorInv, DoorTypes

(* ... and every step keeps it.                                            *)
LEMMA DoorStep == ASSUME DoorInv, [Next]_vars PROVE DoorInv'
<1>1. CASE Next
  <2>1. ASSUME NEW h \in Requests, Handled(h) PROVE DoorInv'
    BY <2>1, SelectKeyKeeps, CheckKeeps, RefuseKeeps, ShedKeeps, AdmittedKeeps,
       StoreReturnsKeeps, StoreRaisesKeeps DEF Handled
  <2> QED
    BY <1>1, <2>1, ArriveKeeps, OutsideKeeps DEF Next
<1>2. CASE UNCHANGED vars
  <2>1. UNCHANGED jwksVars /\ UNCHANGED <<circuit, fails, cooled, caller, pc, request, answer,
                                          dbUp, outages, streak>>
    BY <1>2 DEF vars, breakerVars, doorVars
  <2> QED
    BY <2>1, KeysUnchanged DEF DoorInv, DoorTypes, CountsFailures
<1> QED
  BY <1>1, <1>2

(* The inductive invariant of the front door.                              *)
LEMMA DoorInvariant == Spec => []DoorInv
<1>1. Init => DoorInv
  BY InitDoor
<1>2. DoorInv /\ [Next]_vars => DoorInv'
  BY DoorStep
<1> QED
  BY <1>1, <1>2, PTL DEF Spec

-----------------------------------------------------------------------------
(* Every variable of handlerAPIv2's front door has its type.               *)
THEOREM TypesOK == Spec => []TypeOK
<1>1. DoorInv => TypeOK
  BY DEF DoorInv, KeyInv, KeyTypes, DoorTypes, TypeOK
<1> QED
  BY <1>1, DoorInvariant, PTL

(* get_key never refuses a token whose kid the issuer published during the *)
(* whole call, however many requests refresh and however often the issuer  *)
(* rotates.                                                                *)
THEOREM CurrentKeyFound == Spec => []CurrentKeyIsFound
<1>1. DoorInv => CurrentKeyIsFound
  BY DEF DoorInv, KeyInv
<1> QED
  BY <1>1, DoorInvariant, PTL

(* A key that get_key hands out was not withdrawn before the cache last    *)
(* outlived its TTL, unless a refresh had been answered with it and was    *)
(* still under way then.                                                   *)
THEOREM WithdrawnExpire == Spec => WithdrawnKeysExpire
<1>1. ASSUME DoorInv, [Next]_vars
      PROVE  [\A h \in Requests :
                (kpc[h] # "key" /\ kpc'[h] = "key") => kid[h] \notin dead]_vars
  <2>1. SUFFICES ASSUME Next, NEW h \in Requests, kpc[h] # "key", kpc'[h] = "key"
                 PROVE  kid[h] \notin dead
    BY <1>1
  <2>2. kpc \in [Requests -> KeySteps]
    BY <1>1 DEF DoorInv, KeyInv, KeyTypes
  <2>3. ASSUME NEW g \in Requests, GetKeyStep(g) PROVE kid[h] \notin dead
    <3>1. g = h
      BY <2>1, <2>2, <2>3 DEF GetKeyStep, Acquire, Fetch, FetchFails, Apply
    <3>2. CASE Acquire(h)
      <4>1. kid[h] \in keys /\ ~stale
        BY <2>1, <2>2, <3>2 DEF Acquire
      <4> QED
        BY <1>1, <4>1 DEF DoorInv, KeyInv, DeadKids
    <3>3. CASE Apply(h)
      <4>1. kid[h] \in response[h] /\ kpc[h] \in {"apply1", "apply2"}
        BY <2>1, <2>2, <3>3 DEF Apply
      <4> QED
        BY <1>1, <4>1 DEF DoorInv, KeyInv, DeadKids
    <3>4. CASE Fetch(h) \/ FetchFails(h)
      BY <2>1, <2>2, <3>4 DEF Fetch, FetchFails
    <3> QED
      BY <2>3, <3>1, <3>2, <3>3, <3>4 DEF GetKeyStep
  <2>4. ASSUME NEW g \in Requests, Check(g) \/ Refuse(g) PROVE FALSE
    BY <2>1, <2>2, <2>4 DEF Check, Refuse, Taken
  <2>5. ASSUME NEW g \in Requests, Shed(g) \/ Admitted(g) \/ StoreReturns(g) \/ StoreRaises(g)
        PROVE  FALSE
    BY <2>1, <2>5 DEF Shed, Admitted, StoreReturns, StoreRaises, jwksVars
  <2>6. ASSUME NEW g \in Requests, NEW r \in Traffic, Arrive(g, r) PROVE FALSE
    BY <2>1, <2>2, <2>6 DEF Arrive, Call, jwksVars
  <2>7. ASSUME Outside \/ Cooled PROVE FALSE
    BY <2>1, <2>7 DEF Outside, Cooled, Rotate, GrowStale, jwksVars
  <2> QED
    BY <2>1, <2>3, <2>4, <2>5, <2>6, <2>7 DEF Next, Handled, SelectKey
<1> QED
  BY <1>1, DoorInvariant, PTL DEF Spec, WithdrawnKeysExpire

(* handlerAPIv2 answers 503 to a caller only when the last                 *)
(* db_circuit_failure_threshold store calls all failed, and to a probe of  *)
(* /readyz only when the last one did.                                     *)
THEOREM ShedOnlyInOutage == Spec => ShedsOnlyInOutage
<1>1. ASSUME DoorInv, [Next]_vars
      PROVE  [\A h \in Requests :
                (pc[h] # "idle" /\ pc'[h] = "idle" /\ answer' = 503)
                  => streak' >= (IF request[h].op = "ready" THEN 1 ELSE FailMax)]_vars
  <2>1. SUFFICES ASSUME Next, NEW h \in Requests,
                        pc[h] # "idle", pc'[h] = "idle", answer' = 503
                 PROVE  streak' >= (IF request[h].op = "ready" THEN 1 ELSE FailMax)
    BY <1>1
  <2>2. pc \in [Requests -> Steps] /\ FailMax \in Nat \ {0} /\ DoorTypes
    BY <1>1, BreakerAssumption DEF DoorInv, DoorTypes
  <2>3. ASSUME NEW g \in Requests, NEW code, Reply(g, code) PROVE g = h /\ code = 503
    BY <2>1, <2>2, <2>3 DEF Reply
  <2>4. ASSUME NEW g \in Requests, NEW step \in Steps \ {"idle"}, Goto(g, step) PROVE FALSE
    BY <2>1, <2>2, <2>4 DEF Goto
  <2>5. ASSUME NEW g \in Requests, Shed(g) PROVE streak' = FailMax
    BY <1>1, <2>2, <2>5 DEF Shed, Reject, Rejects, DoorInv, CountsFailures
  <2>6. ASSUME NEW g \in Requests, StoreRaises(g)
        PROVE  streak' >= (IF request[h].op = "ready" THEN 1 ELSE FailMax)
    <3>1. g = h /\ (request[g].op = "ready" \/ Trips)
      BY <2>3, <2>6 DEF StoreRaises
    <3>2. streak' \in 1 .. FailMax /\ (Trips => streak' = FailMax)
      BY <1>1, <2>6, FailCounts
    <3> QED
      BY <2>2, <3>1, <3>2
  <2>7. ASSUME NEW g \in Requests, StoreReturns(g) PROVE FALSE
    BY <2>2, <2>3, <2>7, ReturnCodes
  <2>8. ASSUME NEW g \in Requests, Check(g) \/ Refuse(g) PROVE FALSE
    <3>1. CASE Check(g)
      BY <2>3, <2>4, <3>1 DEF Check, Steps
    <3>2. CASE Refuse(g)
      BY <2>3, <3>2, RefuseCodes
    <3> QED
      BY <2>8, <3>1, <3>2
  <2>9. ASSUME NEW g \in Requests, SelectKey(g) \/ Admitted(g) PROVE FALSE
    BY <2>1, <2>4, <2>9 DEF SelectKey, Admitted, Steps, doorVars
  <2>10. ASSUME NEW g \in Requests, NEW r \in Traffic, Arrive(g, r) PROVE FALSE
    BY <2>1, <2>2, <2>3, <2>4, <2>10 DEF Arrive, Steps
  <2>11. ASSUME Outside \/ Cooled PROVE FALSE
    BY <2>1, <2>11 DEF Outside, Cooled, doorVars
  <2> QED
    BY <2>1, <2>2, <2>5, <2>6, <2>7, <2>8, <2>9, <2>10, <2>11 DEF Next, Handled
<1> QED
  BY <1>1, DoorInvariant, PTL DEF Spec, ShedsOnlyInOutage

(* While the database is down, handlerAPIv2 lets one call through to it    *)
(* per db_circuit_reset_timeout, for any threshold and any number of       *)
(* requests: the breaker is open but for that call.                        *)
THEOREM OutageFailsFast == Spec => FailsFast
<1>1. ASSUME DoorInv, [Next]_vars
      PROVE  [\A h \in Requests :
                (pc[h] # "store" /\ pc'[h] = "store" /\ streak >= FailMax) => cooled]_vars
  <2>1. SUFFICES ASSUME Next, NEW h \in Requests,
                        pc[h] # "store", pc'[h] = "store", streak >= FailMax
                 PROVE  cooled
    BY <1>1
  <2>2. pc \in [Requests -> Steps]
    BY <1>1 DEF DoorInv, DoorTypes
  <2>3. ASSUME NEW g \in Requests, Admit(g) PROVE cooled
    <3>1. /\ fails \in Nat /\ FailMax \in Nat /\ circuit \in Circuits
          /\ streak = IF fails < FailMax THEN fails ELSE FailMax
          /\ circuit = "closed" <=> fails < FailMax
          /\ circuit = "half-open" => caller # NoRequest
      BY <1>1, BreakerAssumption DEF DoorInv, DoorTypes, CountsFailures
    <3>2. circuit # "closed"
      BY <2>1, <3>1
    <3>3. circuit = "open"
      BY <2>3, <3>1, <3>2 DEF Admit, Circuits
    <3> QED
      BY <2>3, <3>3 DEF Admit, Rejects
  <2>4. ASSUME NEW g \in Requests, NEW code, Reply(g, code) PROVE FALSE
    BY <2>1, <2>2, <2>4 DEF Reply
  <2>5. ASSUME NEW g \in Requests, NEW step \in Steps \ {"store"}, Goto(g, step) PROVE FALSE
    BY <2>1, <2>2, <2>5 DEF Goto
  <2>6. ASSUME NEW g \in Requests, Handled(g) PROVE cooled
    <3>1. CASE Admitted(g)
      BY <2>3, <3>1 DEF Admitted
    <3>2. CASE SelectKey(g)
      BY <2>1, <3>2 DEF SelectKey, doorVars
    <3>3. CASE Check(g)
      BY <2>4, <2>5, <3>3 DEF Check, Steps
    <3>4. CASE Refuse(g)
      BY <2>4, <3>4, RefuseCodes
    <3>5. CASE Shed(g)
      BY <2>4, <3>5 DEF Shed
    <3>6. CASE StoreReturns(g)
      BY <1>1, <2>4, <3>6, ReturnCodes DEF DoorInv
    <3>7. CASE StoreRaises(g)
      <4>1. CASE request[g].op = "ready" \/ Trips
        BY <2>4, <3>7, <4>1 DEF StoreRaises
      <4>2. CASE ~(request[g].op = "ready" \/ Trips)
        BY <2>4, <3>7, <4>2 DEF StoreRaises
      <4> QED
        BY <4>1, <4>2
    <3> QED
      BY <2>6, <3>1, <3>2, <3>3, <3>4, <3>5, <3>6, <3>7 DEF Handled
  <2>7. ASSUME NEW g \in Requests, NEW r \in Traffic, Arrive(g, r) PROVE FALSE
    BY <2>1, <2>2, <2>4, <2>5, <2>7 DEF Arrive, Steps
  <2>8. ASSUME Outside \/ Cooled PROVE FALSE
    BY <2>1, <2>8 DEF Outside, Cooled, doorVars
  <2> QED
    BY <2>1, <2>6, <2>7, <2>8 DEF Next
<1> QED
  BY <1>1, DoorInvariant, PTL DEF Spec, FailsFast

=============================================================================
