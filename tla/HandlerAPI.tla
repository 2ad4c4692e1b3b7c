----------------------------- MODULE HandlerAPI -----------------------------
(***************************************************************************)
(* handlerAPI (v1) over the Postgres store: a request passes the rate      *)
(* limiter, the token and scope checks, body validation and the store, and *)
(* is answered with a status code.  Clients send one request at a time and *)
(* repeat it until the answer settles it (429, 500 and 503 do not).  The   *)
(* CLI and the pipeline use the same tables; the database goes down at any *)
(* time, also between a COMMIT and the moment its caller hears of it.      *)
(***************************************************************************)
EXTENDS JobStore

CONSTANTS
  Clients,     \* callers, each with an address of its own
  Tokens, NoToken,
  Asks,        \* the requests each client may send
  Claims,      \* what the issuer put into each token
  NoClaim,
  People,      \* the owners of tokens that are humans
  Limit,       \* RATE_LIMIT: requests per bucket and window
  MaxCreates,  \* bound on the jobs asked for
  MaxFaults    \* bound on the outages of the database and the failed key fetches

(* A create with its body valid or not, a read, or a probe, which carries  *)
(* no token.                                                               *)
Requests ==
  [op : {"create"}, token : Tokens \cup {NoToken}, type : JobTypes, valid : BOOLEAN]
    \cup [op : {"read"}, token : Tokens \cup {NoToken}, job : JobIds]
    \cup [op : {"health", "ready"}, token : {NoToken}]

(* What the code takes for granted of the issuer: a user's token has the   *)
(* user's own sub and shows that there is a user; a service's token has no *)
(* user claim and no other sub than its client id, which is no user's sub. *)
(* Nobody shares a token.                                                  *)
ASSUME IssuerAssumption ==
  /\ \A k \in Tokens : LET c == Claims[k] IN
       IF c.owner \in People
         THEN c.sub = c.owner /\ (c.userClaim \/ c.client \notin {NoClaim, c.sub})
         ELSE ~c.userClaim /\ c.sub \in {NoClaim, c.client} /\ c.client \notin People
  /\ People \cap {NoClaim, "unknown"} = {}
  /\ \A c, d \in Clients : c # d =>
       \A r \in Asks[c], q \in Asks[d] : r.token = q.token => r.token = NoToken
  /\ NoToken \notin Tokens
  /\ \A c \in Clients : Asks[c] \subseteq Requests
  /\ Limit \in Nat \ {0} /\ MaxCreates \in Nat /\ MaxFaults \in Nat

VARIABLES
  creator,  \* jobs.created_by_sub
  hits,     \* requests of each bucket in the current window
  pc,       \* where a client's request is
  goal,     \* the request it wants answered
  found,    \* what the store call brought back: a job or NoJob
  dbUp,     \* external: Postgres answers
  faults, creates,   \* counters for the bounds
  author,   \* history: the owner of the token a job was created with
  caused    \* history: the jobs inserted on behalf of a client's goal

apiVars == <<creator, hits, pc, goal, found, dbUp, faults, creates,
             author, caused>>
vars == <<storeVars, apiVars>>

NoJob    == 0
NoGoal   == [op |-> "none"]
Buckets  == Tokens \cup Clients

(* Every variable has its type.                                            *)
TypeOK ==
  /\ StoreTypeOK
  /\ creator \in [JobIds -> {NoClaim, "unknown"} \cup {Claims[k].sub : k \in Tokens}
                                                \cup {Claims[k].client : k \in Tokens}]
  /\ author \in [JobIds -> {NoClaim} \cup {Claims[k].owner : k \in Tokens}]
  /\ caused \in [Clients -> SUBSET JobIds]
  /\ hits \in [Buckets -> 0 .. Limit]
  /\ pc \in [Clients -> {"idle", "store", "return"}]
  /\ goal \in [Clients -> Requests \cup {NoGoal}]
  /\ \A c \in Clients : goal[c] \in Asks[c] \cup {NoGoal}
  /\ found \in [Clients -> JobIds \cup {NoJob}]
  /\ dbUp \in BOOLEAN /\ faults \in 0 .. MaxFaults /\ creates \in 0 .. MaxCreates

Init ==
  /\ StoreInit
  /\ creator = [j \in JobIds |-> NoClaim]
  /\ hits = [b \in Buckets |-> 0]
  /\ pc = [c \in Clients |-> "idle"]
  /\ goal = [c \in Clients |-> NoGoal]
  /\ found = [c \in Clients |-> NoJob]
  /\ dbUp = TRUE /\ faults = 0 /\ creates = 0
  /\ author = [j \in JobIds |-> NoClaim]
  /\ caused = [c \in Clients |-> {}]

-----------------------------------------------------------------------------
(* The principal: _to_principal and _extract_scopes on a token's claims.   *)
FirstClaim(a, b, default) ==
  IF a # NoClaim THEN a ELSE IF b # NoClaim THEN b ELSE default

Subject(k) == FirstClaim(Claims[k].sub, Claims[k].client, "unknown")

IsUser(k) == Claims[k].userClaim
             \/ (Claims[k].client # NoClaim /\ Subject(k) # Claims[k].client)

Scopes(k) == FirstClaim(Claims[k].scope, Claims[k].scp, {})

(* Mutant: the calling application is recorded as the creator.             *)
ToCreatorClient(k) == Claims[k].client

ToCreator(k) == Subject(k)

(* can_read_job_created_by.                                                *)
CanRead(k, sub) ==
  \/ ~IsUser(k) \/ "read_all" \in Scopes(k)
  \/ sub # NoClaim /\ sub = Subject(k)

(* verify: a readable header, a key in the issuer's set, signature, times, *)
(* issuer and audience; anything else is 401.                              *)
Verifies(k) == Claims[k].genuine

Required(op) == IF op = "create" THEN "write" ELSE "read"

(* The first check a request fails, 0 if none: the probes depend on no     *)
(* principal; otherwise get_principal, the scope and then the body.        *)
Refusal(r) ==
  IF r.op \in {"health", "ready"} THEN 0
  ELSE IF r.token = NoToken \/ ~Verifies(r.token) THEN 401
  ELSE IF Required(r.op) \notin Scopes(r.token) THEN 403
  ELSE IF r.op = "create" /\ ~r.valid THEN 422
  ELSE 0

(* The client has its answer, and is done unless it is one to try again.   *)
Reply(c, r, code) ==
  LET settled == code \notin {429, 500, 503} IN
  /\ pc' = [pc EXCEPT ![c] = "idle"]
  /\ found' = [found EXCEPT ![c] = NoJob]
  /\ goal' = [goal EXCEPT ![c] = IF settled THEN NoGoal ELSE r]
  /\ caused' = [caused EXCEPT ![c] = IF settled THEN {} ELSE @]

-----------------------------------------------------------------------------
Creates(r) == r.op = "create" /\ Refusal(r) = 0

(* Mutant: one bucket per address, and everybody comes through one proxy.  *)
KeyByAddress(c, r) == CHOOSE d \in Clients : TRUE

(* _key: the bearer token, or the client's address.                        *)
Key(c, r) == IF r.token # NoToken THEN r.token ELSE c

(* Mutant: one request too many.                                           *)
HasRoomAtLimit(b) == hits[b] =< Limit

HasRoom(b) == hits[b] < Limit

(* A client sends a new request, or the one it has not settled yet.        *)
Send(c, r) ==
  /\ pc[c] = "idle" /\ goal[c] \in {r, NoGoal}
  /\ IF Creates(r) /\ goal[c] = NoGoal
       THEN creates < MaxCreates /\ creates' = creates + 1
       ELSE creates' = creates

(* RateLimitMiddleware comes before the application, and hit is one step   *)
(* of the event loop.  A refused request is not counted.                   *)
Limited(c, r) ==
  /\ Send(c, r)
  /\ ~HasRoom(Key(c, r))
  /\ Reply(c, r, 429)
  /\ UNCHANGED <<storeVars, creator, hits, dbUp, faults, author>>

Hit(c, r) ==
  /\ Send(c, r)
  /\ HasRoom(Key(c, r))
  /\ hits' = [hits EXCEPT ![Key(c, r)] = @ + 1]
  /\ UNCHANGED <<storeVars, creator, dbUp, author>>

(* The checks change nothing that is shared, so they are one step with the *)
(* arrival.                                                                *)
Admitted(c, r) ==
  /\ Hit(c, r)
  /\ IF Refusal(r) # 0 THEN Reply(c, r, Refusal(r))
     ELSE IF r.op = "health" THEN Reply(c, r, 200)
     ELSE /\ pc' = [pc EXCEPT ![c] = "store"]
          /\ goal' = [goal EXCEPT ![c] = r]
          /\ UNCHANGED <<found, caused>>
  /\ UNCHANGED faults

(* The key fetch raises: nothing catches it before the handler for         *)
(* unexpected errors.                                                      *)
KeyFetchFails(c, r) ==
  /\ Hit(c, r)
  /\ r.token # NoToken
  /\ faults < MaxFaults /\ faults' = faults + 1
  /\ Reply(c, r, 500)

Arrive(c, r) == Limited(c, r) \/ Admitted(c, r) \/ KeyFetchFails(c, r)

(* create_job: enqueue commits a job with its creator, or finds an active  *)
(* one of the type.                                                        *)
CreateJob(c) ==
  LET r == goal[c] IN
  /\ pc[c] = "store" /\ r.op = "create" /\ dbUp
  /\ \/ \E j \in JobIds, input \in Inputs :
          /\ Enqueue(j, r.type, input)
          /\ creator' = [creator EXCEPT ![j] = ToCreator(r.token)]
          /\ found' = [found EXCEPT ![c] = j]
          /\ author' = [author EXCEPT ![j] = Claims[r.token].owner]
          /\ caused' = [caused EXCEPT ![c] = @ \cup {j}]
     \/ /\ ~SlotFree(r.type)
        /\ found' = [found EXCEPT ![c] = NoJob]
        /\ UNCHANGED <<storeVars, creator, author, caused>>
  /\ pc' = [pc EXCEPT ![c] = "return"]
  /\ UNCHANGED <<hits, goal, dbUp, faults, creates>>

(* get_job, and readyz, which asks for job 0.                              *)
GetJob(c) ==
  LET r == goal[c] IN
  /\ pc[c] = "store" /\ r.op \in {"read", "ready"} /\ dbUp
  /\ found' = [found EXCEPT ![c] =
       IF r.op = "ready" THEN NoJob ELSE IF status[r.job] = "absent" THEN NoJob ELSE r.job]
  /\ pc' = [pc EXCEPT ![c] = "return"]
  /\ UNCHANGED <<storeVars, creator, hits, goal, dbUp, faults, creates, author, caused>>

(* The rest of the route, once the store call has returned.                *)
Code(c) ==
  CASE goal[c].op = "ready"  -> 200
    [] goal[c].op = "create" -> IF found[c] = NoJob THEN 409 ELSE 201
    [] goal[c].op = "read"   -> IF found[c] = NoJob THEN 404
                                ELSE IF CanRead(goal[c].token, creator[found[c]])
                                     THEN 200 ELSE 404

Return(c) ==
  /\ pc[c] = "return"
  /\ Reply(c, goal[c], Code(c))
  /\ UNCHANGED <<storeVars, creator, hits, dbUp, faults, creates, author>>

(* The store call raises, before it reached the server or after its        *)
(* COMMIT; readyz says 503, the error layer 500.                           *)
StoreRaises(c) ==
  /\ pc[c] \in {"store", "return"} /\ ~dbUp
  /\ Reply(c, goal[c], IF goal[c].op = "ready" THEN 503 ELSE 500)
  /\ UNCHANGED <<storeVars, creator, hits, dbUp, faults, creates, author>>

Served(c) == CreateJob(c) \/ GetJob(c) \/ Return(c) \/ StoreRaises(c)

(* A producer without an identity.                                         *)
CliEnqueue ==
  /\ dbUp /\ creates < MaxCreates /\ creates' = creates + 1
  /\ \E j \in JobIds, t \in JobTypes, input \in Inputs : Enqueue(j, t, input)
  /\ UNCHANGED <<creator, hits, pc, goal, found, dbUp, faults, author, caused>>

(* The services behind the store: dispatcher, workers and reaper, whatever *)
(* order their calls come in.                                              *)
Piped ==
  /\ dbUp
  /\ \E j \in JobIds :
       \/ j \in unpublished /\ MarkDispatched(j)
       \/ Claim(j) \/ ResolvePayload(j) \/ Complete(j) \/ Fail(j)
       \/ RequeueStuck(j) \/ DeadLetter(j)
  /\ UNCHANGED apiVars

(* What of this a status code can tell: a job starts and it ends.          *)
JobsRun ==
  /\ dbUp
  /\ \E j \in JobIds : Claim(j) \/ Complete(j)
  /\ UNCHANGED apiVars

(* The oldest request of a bucket leaves the moving window.                *)
Slide(b) ==
  /\ hits[b] > 0
  /\ hits' = [hits EXCEPT ![b] = @ - 1]
  /\ UNCHANGED <<storeVars, creator, pc, goal, found, dbUp, faults, creates,
                 author, caused>>

DbDown ==
  /\ dbUp /\ faults < MaxFaults
  /\ dbUp' = FALSE /\ faults' = faults + 1
  /\ UNCHANGED <<storeVars, creator, hits, pc, goal, found, creates, author, caused>>

DbBack ==
  /\ ~dbUp /\ dbUp' = TRUE
  /\ UNCHANGED <<storeVars, creator, hits, pc, goal, found, faults, creates,
                 author, caused>>

Fronted ==
  \/ \E c \in Clients : Served(c) \/ \E r \in Asks[c] : Arrive(c, r)
  \/ CliEnqueue
  \/ \E b \in Buckets : Slide(b)
  \/ DbDown \/ DbBack

Next     == Fronted \/ Piped
LeanNext == Fronted \/ JobsRun

(* Time passes, outages end, threads run, a client repeats what was not    *)
(* settled.                                                                *)
Fairness ==
  /\ \A b \in Buckets : WF_vars(Slide(b))
  /\ WF_vars(DbBack)
  /\ \A c \in Clients : /\ WF_vars(Served(c))
                        /\ WF_vars(goal[c] # NoGoal /\ Arrive(c, goal[c]))

(* The theorems are about Spec; TLC explores LeanSpec, in which the rows   *)
(* of finished jobs do not differ in what no status code depends on.       *)
Spec     == Init /\ [][Next]_vars /\ Fairness
LeanSpec == Init /\ [][LeanNext]_vars /\ Fairness

-----------------------------------------------------------------------------
(* Read ownership, end to end: a job that is there is shown to a service,  *)
(* to a holder of jobs.read.all and to the human whose token it was        *)
(* created with, and is 404 for everybody else; whatever tokens are used.  *)
ReadsFollowOwnership == \A c \in Clients :
  (pc[c] = "return" /\ goal[c].op = "read") =>
    LET k == goal[c].token
        j == goal[c].job
    IN  Code(c) = 200 <=>
          /\ found[c] = j
          /\ \/ Claims[k].owner \notin People \/ "read_all" \in Scopes(k)
             \/ author[j] = Claims[k].owner

(* An answer lost after the COMMIT leaves its job behind and the client    *)
(* asks again: of all the jobs one request has caused at most one is       *)
(* active, so a retry starts a second one only after the first has ended.  *)
RetriesDoNotStack == \A c \in Clients :
  Cardinality({j \in caused[c] : status[j] \in Active}) =< 1

(* "One noisy client can't starve others": whatever the others send, a     *)
(* client that repeats its request gets an answer that settles it, through *)
(* full windows, failed key fetches and an outage.                         *)
NobodyIsStarved == \A c \in Clients : goal[c] # NoGoal ~> goal[c] = NoGoal

=============================================================================
