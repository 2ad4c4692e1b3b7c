----------------------------- MODULE FrontDoor -----------------------------
(***************************************************************************)
(* handlerAPIv2: a request passes the bearer check, the JWKS cache, the    *)
(* token and scope checks, body validation, the circuit breaker and the    *)
(* store, and is answered with a status code.  Requests run concurrently   *)
(* on a pool of threads; the issuer rotates keys and fails, the database   *)
(* goes down and comes back.                                               *)
(***************************************************************************)
EXTENDS JwksCache, Breaker

CONSTANTS
  MaxOutages,   \* bound on the outages of the database
  MaxFails      \* bound on the failures in a row of calls made in an outage

ASSUME FrontDoorAssumption == MaxOutages \in Nat /\ MaxFails \in Nat

VARIABLES
  pc,       \* where a request is
  request,  \* what it asks for (a probe when there is none)
  answer,   \* the status code sent last
  dbUp,     \* external: Postgres answers
  outages,  \* how often it went down
  streak    \* history: failed store calls since the last success, up to FailMax

doorVars == <<pc, request, answer, dbUp, outages, streak>>
vars == <<jwksVars, breakerVars, doorVars>>

(* A probe of /readyz, or a call with its token (none, not ours or not     *)
(* valid any more, good), the required scope or not, a valid body or not.  *)
Probe == [op |-> "ready"]
Asked == {Probe} \cup
  [op : {"create", "read"}, kid : Kids, token : {"none", "bad", "good"},
   scoped : BOOLEAN, valid : BOOLEAN]

(* The requests worth telling apart: one flaw each.                        *)
Flaws(r) == (IF r.token = "good" THEN 0 ELSE 1) + (IF r.scoped THEN 0 ELSE 1)
            + (IF r.valid THEN 0 ELSE 1)
Traffic == {Probe} \cup {r \in Asked \ {Probe} : Flaws(r) =< 1}

Steps == {"idle", "auth", "breaker", "store"}
Codes == {0, 200, 201, 401, 403, 404, 409, 422, 500, 503}

(* Every variable has its type.                                            *)
TypeOK ==
  /\ issued \subseteq Kids /\ keys \subseteq Kids /\ dead \subseteq Kids
  /\ stale \in BOOLEAN /\ lock \in Requests \cup {NoRequest}
  /\ kpc \in [Requests -> KeySteps] /\ kid \in [Requests -> Kids \cup {NoKid}]
  /\ response \in [Requests -> SUBSET Kids] /\ steady \subseteq Requests
  /\ circuit \in Circuits /\ fails \in Nat /\ cooled \in BOOLEAN
  /\ caller \in Requests \cup {NoRequest}
  /\ pc \in [Requests -> Steps] /\ request \in [Requests -> Asked]
  /\ answer \in Codes
  /\ dbUp \in BOOLEAN /\ streak \in 0 .. FailMax
  /\ rotations \in 0 .. MaxRotations /\ outages \in 0 .. MaxOutages

Init ==
  /\ JwksInit /\ BreakerInit
  /\ pc = [h \in Requests |-> "idle"]
  /\ request = [h \in Requests |-> Probe]
  /\ answer = 0
  /\ dbUp = TRUE /\ outages = 0 /\ streak = 0

-----------------------------------------------------------------------------
Goto(h, step) == pc' = [pc EXCEPT ![h] = step] /\ UNCHANGED <<request, answer>>

Reply(h, code) ==
  /\ pc' = [pc EXCEPT ![h] = "idle"]
  /\ request' = [request EXCEPT ![h] = Probe]
  /\ answer' = code

(* readyz has no dependency on a principal; get_principal refuses a header *)
(* without a bearer token before it looks at any key.                      *)
Arrive(h, r) ==
  /\ pc[h] = "idle"
  /\ \/ r = Probe /\ Goto(h, "breaker") /\ UNCHANGED jwksVars
     \/ r # Probe /\ r.token = "none" /\ Reply(h, 401) /\ UNCHANGED jwksVars
     \/ /\ r # Probe /\ r.token # "none"
        /\ pc' = [pc EXCEPT ![h] = "auth"]
        /\ request' = [request EXCEPT ![h] = r]
        /\ Call(h, r.kid)
        /\ UNCHANGED answer
  /\ UNCHANGED <<breakerVars, dbUp, outages, streak>>

SelectKey(h) ==
  /\ pc[h] = "auth"
  /\ GetKeyStep(h)
  /\ UNCHANGED <<breakerVars, doorVars>>

(* jwt.decode with the key in hand: signature, iss, aud, exp.              *)
Verified(r) == r.token = "good"

(* require_write, require_read.                                            *)
Permitted(r) == r.scoped

(* verify, then the scope, then the body.                                  *)
Check(h) ==
  LET r == request[h]
  IN  /\ pc[h] = "auth" /\ kpc[h] = "key"
      /\ Taken(h)
      /\ \/ ~Verified(r) /\ Reply(h, 401)
         \/ Verified(r) /\ ~Permitted(r) /\ Reply(h, 403)
         \/ Verified(r) /\ Permitted(r) /\ ~r.valid /\ Reply(h, 422)
         \/ Verified(r) /\ Permitted(r) /\ r.valid /\ Goto(h, "breaker")
      /\ UNCHANGED <<breakerVars, dbUp, outages, streak>>

(* No matching key is a ProblemException; an exception of the fetch is not *)
(* caught on the way and ends in the handler for unexpected errors.        *)
Refuse(h) ==
  /\ pc[h] = "auth" /\ kpc[h] \in {"no key", "error"}
  /\ Taken(h)
  /\ Reply(h, IF kpc[h] = "no key" THEN 401 ELSE 500)
  /\ UNCHANGED <<breakerVars, dbUp, outages, streak>>

(* The breaker is open: CircuitOpenError, answered 503 by the error layer  *)
(* or by readyz itself.                                                    *)
Shed(h) ==
  /\ pc[h] = "breaker"
  /\ Reject
  /\ Reply(h, 503)
  /\ UNCHANGED <<jwksVars, dbUp, outages, streak>>

(* Beyond the bound a call waits for the end of the outage.                *)
Admitted(h) ==
  /\ pc[h] = "breaker"
  /\ dbUp \/ fails < MaxFails
  /\ Admit(h)
  /\ Goto(h, "store")
  /\ UNCHANGED <<jwksVars, dbUp, outages, streak>>

(* enqueue returns an id or None, get_job a job or None.                   *)
StoreReturns(h) ==
  /\ pc[h] = "store" /\ dbUp
  /\ Succeed(h)
  /\ \E code \in CASE request[h].op = "create" -> {201, 409}
                   [] request[h].op = "read"   -> {200, 404}
                   [] request[h].op = "ready"  -> {200} : Reply(h, code)
  /\ streak' = 0
  /\ UNCHANGED <<jwksVars, dbUp, outages>>

(* The call raises.  readyz turns any exception into 503; otherwise it is  *)
(* 503 if this failure opened the breaker and 500 if not.                  *)
StoreRaises(h) ==
  /\ pc[h] = "store" /\ ~dbUp
  /\ Fail(h)
  /\ Reply(h, IF request[h].op = "ready" \/ Trips THEN 503 ELSE 500)
  /\ streak' = IF streak < FailMax THEN streak + 1 ELSE streak
  /\ UNCHANGED <<jwksVars, dbUp, outages>>

(* The world outside: the issuer, the clocks, the database.                *)
Outside ==
  \/ /\ (\E new \in (SUBSET Kids) \ {{}} : Rotate(new)) \/ GrowStale
     /\ UNCHANGED <<breakerVars, doorVars>>
  \/ /\ dbUp /\ outages < MaxOutages
     /\ dbUp' = FALSE /\ outages' = outages + 1
     /\ UNCHANGED <<jwksVars, breakerVars, pc, request, answer, streak>>
  \/ /\ ~dbUp /\ dbUp' = TRUE
     /\ UNCHANGED <<jwksVars, breakerVars, pc, request, answer, outages, streak>>

Cooled == CoolDown /\ UNCHANGED <<jwksVars, doorVars>>

Handled(h) ==
  \/ SelectKey(h) \/ Check(h) \/ Refuse(h)
  \/ Shed(h) \/ Admitted(h) \/ StoreReturns(h) \/ StoreRaises(h)

Next ==
  \/ \E h \in Requests : Handled(h) \/ \E r \in Traffic : Arrive(h, r)
  \/ Outside
  \/ Cooled

Spec == Init /\ [][Next]_vars

(* Threads run and calls return (the fetch has a timeout, the pool too), a *)
(* free lock is taken by somebody who waits for it, the cooldown passes,   *)
(* and the platform keeps probing /readyz.                                 *)
FairSpec ==
  /\ Spec
  /\ \A h \in Requests : WF_vars(SelectKey(h) /\ kpc[h] # "wait")
  /\ WF_vars(\E h \in Requests : SelectKey(h))
  /\ \A h \in Requests : WF_vars(Check(h) \/ Refuse(h))
  /\ \A h \in Requests : WF_vars(StoreReturns(h) \/ StoreRaises(h))
  /\ WF_vars(\E h \in Requests : Shed(h) \/ Admitted(h))
  /\ WF_vars(Cooled)
  /\ SF_vars(\E h \in Requests : Arrive(h, Probe))

-----------------------------------------------------------------------------
(* get_key: a token whose kid the issuer published during the whole call   *)
(* is never refused for want of a key, rotation and stale cache or not.    *)
CurrentKeyIsFound == \A h \in Requests : kpc[h] = "no key" => h \notin steady

(* get_key: once the cache has outlived its TTL, a key the issuer withdrew *)
(* before that is not used again; but for one that the answer to a refresh *)
(* under way at that moment still has, which is used for one TTL more.     *)
WithdrawnKeysExpire == [][ \A h \in Requests :
  (kpc[h] # "key" /\ kpc'[h] = "key") => kid[h] \notin dead ]_vars

(* A caller is shed only in an outage: 503 is answered when the last       *)
(* FailMax store calls failed, and by /readyz when the last one did.       *)
ShedsOnlyInOutage == [][ \A h \in Requests :
  (pc[h] # "idle" /\ pc'[h] = "idle" /\ answer' = 503)
    => streak' >= (IF request[h].op = "ready" THEN 1 ELSE FailMax) ]_vars

(* Failing fast: once the last FailMax store calls have failed, no call    *)
(* reaches the store before reset_timeout has passed since the last one,   *)
(* so a dead database is tried once per reset_timeout.                     *)
FailsFast == [][ \A h \in Requests :
  (pc[h] # "store" /\ pc'[h] = "store" /\ streak >= FailMax) => cooled ]_vars

(* Neither lock is ever kept for good, whichever way the call under it     *)
(* ends: the JWKS cache's around the fetch, the breaker's around the store.*)
LocksAreReleased == []<>(lock = NoRequest) /\ []<>(caller = NoRequest)

(* When the database is back for good, the breaker closes for good.        *)
BreakerRecovers == <>[]dbUp => <>[](circuit = "closed")

=============================================================================
