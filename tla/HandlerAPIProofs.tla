-------------------------- MODULE HandlerAPIProofs --------------------------
(***************************************************************************)
(* Theorems about HandlerAPI, for any clients, requests, tokens and claims *)
(* an issuer may make, and any number of jobs and faults.                  *)
(***************************************************************************)
EXTENDS HandlerAPI, FiniteSetTheorems, TLAPS

(* A request in the store has passed every check, and what a read brought  *)
(* back is the job it asked for or nothing.                                *)
Serving == \A c \in Clients :
  /\ pc[c] # "idle" => goal[c] # NoGoal /\ Refusal(goal[c]) = 0
  /\ pc[c] = "return" /\ goal[c].op = "read" => found[c] \in {NoJob, goal[c].job}

(* A job's recorded creator is the subject of a token of its author, and a *)
(* job without an author has no creator either.                            *)
Owned == \A j \in JobIds :
  \/ creator[j] = NoClaim /\ author[j] = NoClaim
  \/ \E k \in Tokens : creator[j] = ToCreator(k) /\ author[j] = Claims[k].owner

(* The partial unique index, and NOT NULL of job_type.                     *)
Indexed ==
  /\ \A j, k \in JobIds :
       (jobType[j] = jobType[k] /\ status[j] \in Active /\ status[k] \in Active) => j = k
  /\ \A j \in JobIds : status[j] # "absent" => jobType[j] \in JobTypes

(* All the jobs an unsettled request has caused are of the type it names.  *)
CausedByGoal == \A c \in Clients : \A j \in caused[c] :
  goal[c] # NoGoal /\ status[j] # "absent" /\ jobType[j] = goal[c].type

ApiInv == TypeOK /\ Serving /\ Owned /\ Indexed /\ CausedByGoal

-----------------------------------------------------------------------------
(* What the principal is worth under the issuer's rules.                   *)
LEMMA PersonsToken ==
  ASSUME NEW k \in Tokens, Claims[k].owner \in People
  PROVE  IsUser(k) /\ Subject(k) = Claims[k].owner /\ Subject(k) # NoClaim
<1>1. /\ Claims[k].sub = Claims[k].owner
      /\ Claims[k].userClaim \/ Claims[k].client \notin {NoClaim, Claims[k].sub}
      /\ Claims[k].owner # NoClaim
  BY IssuerAssumption
<1>2. Subject(k) = Claims[k].owner
  BY <1>1 DEF Subject, FirstClaim
<1> QED
  BY <1>1, <1>2 DEF IsUser

(* A service is never taken for a user, nor its subject for a user's.      *)
LEMMA ServicesToken ==
  ASSUME NEW k \in Tokens, Claims[k].owner \notin People
  PROVE  ~IsUser(k) /\ Subject(k) \notin People
<1>1. /\ ~Claims[k].userClaim /\ Claims[k].sub \in {NoClaim, Claims[k].client}
      /\ Claims[k].client \notin People /\ "unknown" \notin People
  BY IssuerAssumption
<1>2. /\ Claims[k].client # NoClaim => Subject(k) = Claims[k].client
      /\ Claims[k].client = NoClaim => Subject(k) = "unknown"
  BY <1>1 DEF Subject, FirstClaim
<1> QED
  BY <1>1, <1>2 DEF IsUser

(* can_read_job_created_by is ownership: the created_by_sub of a job and   *)
(* the reader's token decide as if the API knew who the people are.        *)
LEMMA CanReadIsOwnership ==
  ASSUME Owned, NEW j \in JobIds, NEW k \in Tokens
  PROVE  CanRead(k, creator[j]) <=>
           \/ Claims[k].owner \notin People \/ "read_all" \in Scopes(k)
           \/ author[j] = Claims[k].owner
<1>1. CASE Claims[k].owner \notin People
  BY <1>1, ServicesToken DEF CanRead
<1>2. CASE Claims[k].owner \in People
  <2>1. IsUser(k) /\ Subject(k) = Claims[k].owner /\ Subject(k) # NoClaim
    BY <1>2, PersonsToken
  <2>2. (creator[j] # NoClaim /\ creator[j] = Subject(k)) <=> author[j] = Claims[k].owner
    <3>1. CASE creator[j] = NoClaim /\ author[j] = NoClaim
      BY <2>1, <3>1
    <3>2. ASSUME NEW m \in Tokens, creator[j] = ToCreator(m), author[j] = Claims[m].owner
          PROVE  (creator[j] # NoClaim /\ creator[j] = Subject(k)) <=> author[j] = Claims[k].owner
      <4>1. CASE Claims[m].owner \in People
        BY <2>1, <3>2, <4>1, PersonsToken DEF ToCreator
      <4>2. CASE Claims[m].owner \notin People
        BY <1>2, <2>1, <3>2, <4>2, ServicesToken DEF ToCreator
      <4> QED
        BY <4>1, <4>2
    <3> QED
      BY <3>1, <3>2 DEF Owned
  <2> QED
    BY <1>2, <2>1, <2>2 DEF CanRead
<1> QED
  BY <1>1, <1>2

(* A request that is refused nothing and names a job or a type has a token.*)
LEMMA ServedTokens ==
  ASSUME NEW r \in Requests, Refusal(r) = 0, r.op \in {"create", "read"}
  PROVE  r.token \in Tokens /\ (r.op = "create" => r.type \in JobTypes)
                            /\ (r.op = "read" => r.job \in JobIds)
<1>1. r.token # NoToken
  BY DEF Refusal
<1> QED
  BY <1>1 DEF Requests

(* What a client asks for is a request, and is counted in some bucket.     *)
LEMMA RequestsAsked ==
  ASSUME NEW c \in Clients, NEW r \in Asks[c]
  PROVE  r \in Requests /\ r # NoGoal /\ Key(c, r) \in Buckets
<1>1. r \in Requests
  BY IssuerAssumption
<1>2. r.op \in {"create", "read", "health", "ready"} /\ r.token \in Tokens \cup {NoToken}
  BY <1>1 DEF Requests
<1> QED
  BY <1>1, <1>2 DEF NoGoal, Key, Buckets

-----------------------------------------------------------------------------
(* The store's steps: the new job is the one active job of its type.       *)
LEMMA EnqueueKeeps ==
  ASSUME StoreTypeOK, Indexed, NEW j \in JobIds, NEW t \in JobTypes, NEW input \in Inputs,
         Enqueue(j, t, input)
  PROVE  /\ StoreTypeOK' /\ Indexed'
         /\ status[j] = "absent" /\ status'[j] = "queued" /\ jobType'[j] = t
         /\ \A k \in JobIds : k # j => status'[k] = status[k] /\ jobType'[k] = jobType[k]
<1>1. /\ status[j] = "absent" /\ SlotFree(t)
      /\ status' = [status EXCEPT ![j] = "queued"]
      /\ jobType' = [jobType EXCEPT ![j] = t]
      /\ inputPayload' = [inputPayload EXCEPT ![j] = input]
      /\ unpublished' = unpublished \cup {j}
      /\ UNCHANGED <<attempts, payload, config, expired>>
  BY DEF Enqueue, InsertJob
<1>2. StoreTypeOK'
  BY <1>1, StoreAssumption DEF StoreTypeOK, Statuses, Active
<1>3. /\ status'[j] = "queued" /\ jobType'[j] = t
      /\ \A k \in JobIds : k # j => status'[k] = status[k] /\ jobType'[k] = jobType[k]
  BY <1>1 DEF StoreTypeOK
<1>4. Indexed'
  BY <1>1, <1>3 DEF Indexed, SlotFree
<1> QED
  BY <1>1, <1>2, <1>3, <1>4

(* The pipeline's calls on one job.                                        *)
PipelineCall(j) ==
  \/ MarkDispatched(j) \/ Claim(j) \/ ResolvePayload(j) \/ Complete(j) \/ Fail(j)
  \/ RequeueStuck(j) \/ DeadLetter(j)

(* They change the status of active jobs only, and nothing else a route or *)
(* the index reads.                                                        *)
LEMMA PipelineMoves ==
  ASSUME StoreTypeOK, NEW j \in JobIds, PipelineCall(j)
  PROVE  /\ jobType' = jobType /\ inputPayload' = inputPayload /\ config' = config
         /\ unpublished' \subseteq JobIds /\ expired' \subseteq JobIds
         /\ attempts' \in [JobIds -> Nat]
         /\ \/ status' = status
            \/ /\ status[j] \in Active
               /\ \E to \in Statuses \ {"absent"} : status' = [status EXCEPT ![j] = to]
<1>1. CASE MarkDispatched(j)
  BY <1>1 DEF MarkDispatched, StoreTypeOK, Statuses, Active
<1>2. CASE Claim(j)
  BY <1>2 DEF Claim, Claimable, StoreTypeOK, Statuses, Active
<1>3. CASE ResolvePayload(j)
  BY <1>3 DEF ResolvePayload, StoreTypeOK
<1>4. CASE Complete(j) \/ Fail(j) \/ DeadLetter(j)
  BY <1>4 DEF Complete, Fail, DeadLetter, GuardedUpdate, StoreTypeOK, Statuses, Active, Terminal
<1>5. CASE RequeueStuck(j)
  <2>1. /\ jobType' = jobType /\ inputPayload' = inputPayload /\ config' = config
        /\ unpublished' \subseteq JobIds /\ expired' \subseteq JobIds
        /\ attempts' \in [JobIds -> Nat]
    BY <1>5 DEF RequeueStuck, StoreTypeOK
  <2>2. status[j] \in Active /\ status' = [status EXCEPT ![j] = "queued"]
    BY <1>5 DEF RequeueStuck, Requeueable, Active
  <2>3. "queued" \in Statuses \ {"absent"}
    BY DEF Statuses, Active
  <2> QED
    BY <2>1, <2>2, <2>3
<1> QED
  BY <1>1, <1>2, <1>3, <1>4, <1>5 DEF PipelineCall

(* Only resolve_payload writes a payload, for a job whose type has a row.  *)
LEMMA PipelinePayloads ==
  ASSUME StoreTypeOK, Indexed, NEW j \in JobIds, PipelineCall(j)
  PROVE  payload' \in [JobIds -> Payloads]
<1>1. CASE ResolvePayload(j)
  <2>1. jobType[j] \in JobTypes /\ config[jobType[j]] # NoRow
    BY <1>1 DEF ResolvePayload, Resolvable, Indexed
  <2>2. config[jobType[j]].payload \in Payloads
    BY <2>1, StoreAssumption DEF StoreTypeOK
  <2>3. Merge(config[jobType[j]].payload, inputPayload[j]) \in Payloads
    BY <2>2 DEF Merge, Payloads, StoreTypeOK
  <2> QED
    BY <1>1, <2>3 DEF ResolvePayload, StoreTypeOK
<1>2. CASE ~ResolvePayload(j)
  BY <1>2 DEF PipelineCall, MarkDispatched, Claim, Complete, Fail, DeadLetter, GuardedUpdate,
              RequeueStuck, StoreTypeOK
<1> QED
  BY <1>1, <1>2

(* The pipeline's steps leave the types of the jobs, the index and the set *)
(* of stored jobs as they are.                                             *)
LEMMA PipedKeeps ==
  ASSUME StoreTypeOK, Indexed, NEW j \in JobIds, PipelineCall(j)
  PROVE  /\ StoreTypeOK' /\ Indexed' /\ jobType' = jobType
         /\ \A k \in JobIds : status[k] # "absent" => status'[k] # "absent"
<1>1. jobType' = jobType /\ status' \in [JobIds -> Statuses]
  BY PipelineMoves DEF StoreTypeOK
<1>2. \A k \in JobIds : \/ status'[k] = status[k]
                        \/ status[k] \in Active /\ status'[k] # "absent"
  BY PipelineMoves DEF StoreTypeOK
<1>3. StoreTypeOK'
  BY <1>1, PipelineMoves, PipelinePayloads DEF StoreTypeOK
<1>4. "absent" \notin Active
  BY DEF Active
<1>5. Indexed'
  BY <1>1, <1>2, <1>4 DEF Indexed
<1> QED
  BY <1>1, <1>2, <1>3, <1>5

(* Everything an answer does: the request is over or will be repeated, and *)
(* the jobs it has caused are forgotten with it.                           *)
LEMMA ReplyKeeps ==
  ASSUME ApiInv, NEW c \in Clients, NEW r \in Asks[c], goal[c] \in {r, NoGoal},
         NEW code, Reply(c, r, code), UNCHANGED <<storeVars, creator, author, dbUp>>,
         hits' \in [Buckets -> 0 .. Limit],
         faults' \in 0 .. MaxFaults, creates' \in 0 .. MaxCreates
  PROVE  ApiInv'
<1> DEFINE settled == code \notin {429, 500, 503}
<1>1. /\ pc' = [pc EXCEPT ![c] = "idle"]
      /\ found' = [found EXCEPT ![c] = NoJob]
      /\ goal' = [goal EXCEPT ![c] = IF settled THEN NoGoal ELSE r]
      /\ caused' = [caused EXCEPT ![c] = IF settled THEN {} ELSE caused[c]]
  BY DEF Reply
<1>2. r \in Requests
  BY RequestsAsked
<1>3. TypeOK
  BY DEF ApiInv
<1>4. /\ pc' \in [Clients -> {"idle", "store", "return"}]
      /\ found' \in [Clients -> JobIds \cup {NoJob}]
      /\ goal' \in [Clients -> Requests \cup {NoGoal}]
      /\ caused' \in [Clients -> SUBSET JobIds]
  BY <1>1, <1>2, <1>3 DEF TypeOK
<1>5. /\ pc'[c] = "idle" /\ goal'[c] \in {r, NoGoal}
      /\ caused'[c] = {} \/ (caused'[c] = caused[c] /\ goal'[c] = r)
      /\ \A d \in Clients : d # c =>
           /\ pc'[d] = pc[d] /\ goal'[d] = goal[d]
           /\ found'[d] = found[d] /\ caused'[d] = caused[d]
  BY <1>1, <1>3 DEF TypeOK
<1>6. TypeOK'
  <2>1. StoreTypeOK'
    BY <1>3 DEF TypeOK, StoreTypeOK, storeVars
  <2>2. \A d \in Clients : goal'[d] \in Asks[d] \cup {NoGoal}
    BY <1>3, <1>5 DEF TypeOK
  <2> QED
    BY <1>3, <1>4, <2>1, <2>2 DEF TypeOK
<1>7. Serving'
  BY <1>5 DEF ApiInv, Serving
<1>8. Owned' /\ Indexed'
  BY DEF ApiInv, Owned, Indexed, storeVars
<1>9. CausedByGoal'
  <2>1. UNCHANGED <<status, jobType>>
    BY DEF storeVars
  <2>2. \A j \in caused[c] : goal[c] = r
    BY DEF ApiInv, CausedByGoal
  <2> QED
    BY <1>5, <2>1, <2>2 DEF ApiInv, CausedByGoal
<1> QED
  BY <1>6, <1>7, <1>8, <1>9 DEF ApiInv

-----------------------------------------------------------------------------
(* Sending leaves the count of jobs within its bound, and a hit the bucket *)
(* within its limit.                                                       *)
LEMMA SendTypes ==
  ASSUME TypeOK, NEW c \in Clients, NEW r \in Asks[c], Send(c, r)
  PROVE  creates' \in 0 .. MaxCreates /\ goal[c] \in {r, NoGoal}
<1>1. goal[c] \in {r, NoGoal} /\ (creates' = creates \/ (creates < MaxCreates /\ creates' = creates + 1))
  BY DEF Send
<1>2. creates \in 0 .. MaxCreates /\ MaxCreates \in Nat
  BY IssuerAssumption DEF TypeOK
<1> QED
  BY <1>1, <1>2

(* Counting a request keeps the windows' types.                            *)
LEMMA HitTypes ==
  ASSUME TypeOK, NEW c \in Clients, NEW r \in Asks[c], Hit(c, r)
  PROVE  hits' \in [Buckets -> 0 .. Limit]
<1>1. Key(c, r) \in Buckets
  BY RequestsAsked
<1>2. hits \in [Buckets -> 0 .. Limit] /\ Limit \in Nat
  BY IssuerAssumption DEF TypeOK
<1>3. hits[Key(c, r)] + 1 \in 0 .. Limit
  <2>1. hits[Key(c, r)] \in 0 .. Limit /\ hits[Key(c, r)] < Limit
    BY <1>1, <1>2 DEF Hit, HasRoom
  <2> QED
    BY <1>2, <2>1
<1> QED
  BY <1>2, <1>3 DEF Hit

(* A request arrives, passes the limiter and the checks or is refused.     *)
LEMMA ArriveKeeps ==
  ASSUME ApiInv, NEW c \in Clients, NEW r \in Asks[c], Arrive(c, r)
  PROVE  ApiInv'
<1>1. TypeOK
  BY DEF ApiInv
<1>2. CASE Limited(c, r)
  BY <1>1, <1>2, SendTypes, ReplyKeeps DEF Limited, TypeOK
<1>3. CASE KeyFetchFails(c, r)
  <2>1. creates' \in 0 .. MaxCreates /\ goal[c] \in {r, NoGoal} /\ hits' \in [Buckets -> 0 .. Limit]
    BY <1>1, <1>3, SendTypes, HitTypes DEF KeyFetchFails, Hit
  <2>2. faults' \in 0 .. MaxFaults
    BY <1>1, <1>3, IssuerAssumption DEF KeyFetchFails, TypeOK
  <2>3. Reply(c, r, 500) /\ UNCHANGED <<storeVars, creator, author, dbUp>>
    BY <1>3 DEF KeyFetchFails, Hit
  <2> QED
    BY <2>1, <2>2, <2>3, ReplyKeeps
<1>4. CASE Admitted(c, r)
  <2>1. creates' \in 0 .. MaxCreates /\ goal[c] \in {r, NoGoal} /\ hits' \in [Buckets -> 0 .. Limit]
    BY <1>1, <1>4, SendTypes, HitTypes DEF Admitted, Hit
  <2>2. UNCHANGED <<storeVars, creator, author, dbUp, faults>> /\ pc[c] = "idle"
    BY <1>4 DEF Admitted, Hit, Send
  <2>3. faults' \in 0 .. MaxFaults
    BY <1>1, <2>2 DEF TypeOK
  <2>4. CASE Reply(c, r, Refusal(r)) \/ Reply(c, r, 200)
    BY <2>1, <2>2, <2>3, <2>4, ReplyKeeps
  <2>5. CASE /\ Refusal(r) = 0
             /\ pc' = [pc EXCEPT ![c] = "store"]
             /\ goal' = [goal EXCEPT ![c] = r]
             /\ UNCHANGED <<found, caused>>
    <3>1. r \in Requests /\ r # NoGoal
      BY RequestsAsked
    <3>2. /\ pc' \in [Clients -> {"idle", "store", "return"}]
          /\ goal' \in [Clients -> Requests \cup {NoGoal}]
          /\ pc'[c] = "store" /\ goal'[c] = r
          /\ \A d \in Clients : d # c => pc'[d] = pc[d] /\ goal'[d] = goal[d]
      BY <1>1, <2>5, <3>1 DEF TypeOK
    <3>3. TypeOK'
      <4>1. StoreTypeOK'
        BY <1>1, <2>2 DEF TypeOK, StoreTypeOK, storeVars
      <4>2. \A d \in Clients : goal'[d] \in Asks[d] \cup {NoGoal}
        BY <1>1, <3>2 DEF TypeOK
      <4> QED
        BY <1>1, <2>1, <2>2, <2>3, <2>5, <3>2, <4>1, <4>2 DEF TypeOK
    <3>4. Serving'
      BY <2>5, <3>1, <3>2 DEF ApiInv, Serving, Refusal, Verifies, Required, Scopes
    <3>5. Owned' /\ Indexed'
      BY <2>2 DEF ApiInv, Owned, Indexed, storeVars
    <3>6. CausedByGoal'
      <4>1. UNCHANGED <<status, jobType>>
        BY <2>2 DEF storeVars
      <4>2. \A j \in caused[c] : goal[c] = r
        BY <2>1 DEF ApiInv, CausedByGoal
      <4> QED
        BY <2>5, <3>1, <3>2, <4>1, <4>2 DEF ApiInv, CausedByGoal
    <3> QED
      BY <3>3, <3>4, <3>5, <3>6 DEF ApiInv
  <2> QED
    BY <1>4, <2>4, <2>5 DEF Admitted
<1> QED
  BY <1>2, <1>3, <1>4 DEF Arrive

(* A request in the store is one its client may send.                      *)
LEMMA GoalServed ==
  ASSUME ApiInv, NEW c \in Clients, pc[c] # "idle"
  PROVE  goal[c] \in Asks[c] /\ goal[c] \in Requests /\ Refusal(goal[c]) = 0
BY RequestsAsked DEF ApiInv, TypeOK, Serving

(* create_job records the subject of the token as creator, or finds the   *)
(* slot taken.                                                             *)
LEMMA CreateJobKeeps ==
  ASSUME ApiInv, NEW c \in Clients, CreateJob(c)
  PROVE  ApiInv'
<1> DEFINE r == goal[c]
<1>1. /\ pc[c] = "store" /\ r.op = "create"
      /\ pc' = [pc EXCEPT ![c] = "return"]
      /\ UNCHANGED <<hits, goal, dbUp, faults, creates>>
  BY DEF CreateJob
<1>2. r \in Requests /\ Refusal(r) = 0 /\ r.token \in Tokens /\ r.type \in JobTypes
  BY <1>1, GoalServed, ServedTokens
<1>3. TypeOK
  BY DEF ApiInv
<1>4. /\ pc' \in [Clients -> {"idle", "store", "return"}]
      /\ pc'[c] = "return" /\ \A d \in Clients : d # c => pc'[d] = pc[d]
  BY <1>1, <1>3 DEF TypeOK
<1>5. CASE /\ found' = [found EXCEPT ![c] = NoJob]
           /\ UNCHANGED <<storeVars, creator, author, caused>>
  <2>1. TypeOK'
    <3>1. StoreTypeOK'
      BY <1>3, <1>5 DEF TypeOK, StoreTypeOK, storeVars
    <3> QED
      BY <1>1, <1>3, <1>4, <1>5, <3>1 DEF TypeOK
  <2>2. \A d \in Clients : d # c => found'[d] = found[d]
    BY <1>3, <1>5 DEF TypeOK
  <2>3. Serving'
    BY <1>1, <1>4, <2>2 DEF ApiInv, Serving, Refusal, Verifies, Required, Scopes
  <2>4. Owned' /\ Indexed' /\ CausedByGoal'
    BY <1>1, <1>5 DEF ApiInv, Owned, Indexed, CausedByGoal, storeVars
  <2> QED
    BY <2>1, <2>3, <2>4 DEF ApiInv
<1>6. ASSUME NEW j \in JobIds, NEW input \in Inputs,
             Enqueue(j, r.type, input),
             creator' = [creator EXCEPT ![j] = ToCreator(r.token)],
             found' = [found EXCEPT ![c] = j],
             author' = [author EXCEPT ![j] = Claims[r.token].owner],
             caused' = [caused EXCEPT ![c] = caused[c] \cup {j}]
      PROVE  ApiInv'
  <2>1. /\ StoreTypeOK' /\ Indexed'
        /\ status[j] = "absent" /\ status'[j] = "queued" /\ jobType'[j] = r.type
        /\ \A k \in JobIds : k # j => status'[k] = status[k] /\ jobType'[k] = jobType[k]
    <3>1. StoreTypeOK /\ Indexed
      BY DEF ApiInv, TypeOK
    <3> HIDE DEF r
    <3> QED
      BY <1>2, <1>6, <3>1, EnqueueKeeps
  <2>2. ToCreator(r.token) \in {NoClaim, "unknown"} \cup {Claims[k].sub : k \in Tokens}
                                   \cup {Claims[k].client : k \in Tokens}
    BY <1>2 DEF ToCreator, Subject, FirstClaim
  <2>3. /\ found' \in [Clients -> JobIds \cup {NoJob}]
        /\ caused' \in [Clients -> SUBSET JobIds]
        /\ author' \in [JobIds -> {NoClaim} \cup {Claims[k].owner : k \in Tokens}]
        /\ creator' \in [JobIds -> {NoClaim, "unknown"} \cup {Claims[k].sub : k \in Tokens}
                                     \cup {Claims[k].client : k \in Tokens}]
    BY <1>2, <1>3, <1>6, <2>2 DEF TypeOK
  <2>4. TypeOK'
    BY <1>1, <1>3, <1>4, <2>1, <2>3 DEF TypeOK
  <2>5. /\ \A d \in Clients : d # c => found'[d] = found[d] /\ caused'[d] = caused[d]
        /\ caused'[c] = caused[c] \cup {j}
        /\ creator'[j] = ToCreator(r.token) /\ author'[j] = Claims[r.token].owner
        /\ \A k \in JobIds : k # j => creator'[k] = creator[k] /\ author'[k] = author[k]
    BY <1>3, <1>6 DEF TypeOK
  <2>6. Serving'
    BY <1>1, <1>4, <2>5 DEF ApiInv, Serving, Refusal, Verifies, Required, Scopes
  <2>7. Owned'
    <3>1. ASSUME NEW i \in JobIds
          PROVE  \/ creator'[i] = NoClaim /\ author'[i] = NoClaim
                 \/ \E k \in Tokens : creator'[i] = ToCreator(k) /\ author'[i] = Claims[k].owner
      BY <1>2, <2>5 DEF ApiInv, Owned
    <3> QED
      BY <3>1 DEF Owned, ToCreator, Subject, FirstClaim
  <2>8. CausedByGoal'
    <3>1. \A d \in Clients : caused[d] \subseteq JobIds /\ goal' = goal
      BY <1>1, <1>3 DEF TypeOK
    <3>2. r # NoGoal
      BY <1>1 DEF NoGoal
    <3>3. ASSUME NEW d \in Clients, NEW i \in caused'[d]
          PROVE  goal[d] # NoGoal /\ status'[i] # "absent" /\ jobType'[i] = goal[d].type
      <4>1. i \in caused[d] \/ (d = c /\ i = j)
        BY <2>5, <3>3
      <4>2. CASE i \in caused[d]
        BY <2>1, <3>1, <4>2 DEF ApiInv, CausedByGoal
      <4> QED
        BY <2>1, <3>2, <4>1, <4>2
    <3> QED
      BY <3>1, <3>3 DEF CausedByGoal
  <2> QED
    BY <2>1, <2>4, <2>6, <2>7, <2>8 DEF ApiInv
<1> QED
  BY <1>5, <1>6 DEF CreateJob

(* The SELECT of a read finds the job asked for or nothing.                *)
LEMMA GetJobKeeps ==
  ASSUME ApiInv, NEW c \in Clients, GetJob(c)
  PROVE  ApiInv'
<1> DEFINE r == goal[c]
           brought == IF r.op = "ready" THEN NoJob
                      ELSE IF status[r.job] = "absent" THEN NoJob ELSE r.job
<1>1. /\ pc[c] = "store" /\ r.op \in {"read", "ready"}
      /\ found' = [found EXCEPT ![c] = brought]
      /\ pc' = [pc EXCEPT ![c] = "return"]
      /\ UNCHANGED <<storeVars, creator, hits, goal, dbUp, faults, creates, author, caused>>
  BY DEF GetJob
<1>2. r \in Requests /\ Refusal(r) = 0 /\ (r.op = "read" => r.job \in JobIds)
  BY <1>1, GoalServed, ServedTokens
<1>3. TypeOK
  BY DEF ApiInv
<1>4. brought \in JobIds \cup {NoJob} /\ (r.op = "read" => brought \in {NoJob, r.job})
  BY <1>1, <1>2
<1> HIDE DEF brought
<1>5. /\ pc' \in [Clients -> {"idle", "store", "return"}]
      /\ found' \in [Clients -> JobIds \cup {NoJob}]
      /\ found'[c] = brought
      /\ \A d \in Clients : d # c => pc'[d] = pc[d] /\ found'[d] = found[d]
  BY <1>1, <1>3, <1>4 DEF TypeOK
<1>6. TypeOK'
  <2>1. StoreTypeOK'
    BY <1>1, <1>3 DEF TypeOK, StoreTypeOK, storeVars
  <2> QED
    BY <1>1, <1>3, <1>5, <2>1 DEF TypeOK
<1>7. Serving'
  <2>1. \A d \in Clients : d # c =>
          /\ pc'[d] # "idle" => goal[d] # NoGoal /\ Refusal(goal[d]) = 0
          /\ pc'[d] = "return" /\ goal[d].op = "read" => found'[d] \in {NoJob, goal[d].job}
    BY <1>5 DEF ApiInv, Serving
  <2>2. goal[c] # NoGoal
    BY <1>1 DEF NoGoal
  <2> QED
    BY <1>1, <1>2, <1>4, <1>5, <2>1, <2>2
    DEF Serving, Refusal, Verifies, Required, Scopes
<1>8. Owned' /\ Indexed' /\ CausedByGoal'
  BY <1>1 DEF ApiInv, Owned, Indexed, CausedByGoal, storeVars
<1> QED
  BY <1>6, <1>7, <1>8 DEF ApiInv

(* The answer after the store call, or after its exception.                *)
LEMMA AnswerKeeps ==
  ASSUME ApiInv, NEW c \in Clients, Return(c) \/ StoreRaises(c)
  PROVE  ApiInv'
<1>1. /\ UNCHANGED <<storeVars, creator, author, dbUp>> /\ UNCHANGED <<hits, faults, creates>>
      /\ pc[c] # "idle" /\ \E code : Reply(c, goal[c], code)
  BY DEF Return, StoreRaises
<1>2. goal[c] \in Asks[c]
  BY <1>1, GoalServed
<1>3. hits' \in [Buckets -> 0 .. Limit] /\ faults' \in 0 .. MaxFaults /\ creates' \in 0 .. MaxCreates
  BY <1>1 DEF ApiInv, TypeOK
<1> QED
  BY <1>1, <1>2, <1>3, ReplyKeeps

(* The other users of the tables, the clock and the database.              *)
LEMMA CliEnqueueKeeps ==
  ASSUME ApiInv, CliEnqueue
  PROVE  ApiInv'
<1>1. PICK j \in JobIds, t \in JobTypes, input \in Inputs : Enqueue(j, t, input)
  BY DEF CliEnqueue
<1>2. /\ UNCHANGED <<creator, hits, pc, goal, found, dbUp, faults, author, caused>>
      /\ creates < MaxCreates /\ creates' = creates + 1
  BY DEF CliEnqueue
<1>3. /\ StoreTypeOK' /\ Indexed' /\ status[j] = "absent"
      /\ \A k \in JobIds : k # j => status'[k] = status[k] /\ jobType'[k] = jobType[k]
  BY <1>1, EnqueueKeeps DEF ApiInv, TypeOK
<1>4. creates' \in 0 .. MaxCreates
  BY <1>2, IssuerAssumption DEF ApiInv, TypeOK
<1>5. TypeOK'
  BY <1>2, <1>3, <1>4 DEF ApiInv, TypeOK
<1>6. Serving' /\ Owned'
  BY <1>2 DEF ApiInv, Serving, Owned
<1>7. CausedByGoal'
  <2>1. \A c \in Clients : caused[c] \subseteq JobIds
    BY DEF ApiInv, TypeOK
  <2> QED
    BY <1>2, <1>3, <2>1 DEF ApiInv, CausedByGoal
<1> QED
  BY <1>3, <1>5, <1>6, <1>7 DEF ApiInv

(* A step of the pipeline touches nothing of the API's.                    *)
LEMMA PipedStepKeeps ==
  ASSUME ApiInv, Piped
  PROVE  ApiInv'
<1>1. PICK j \in JobIds : PipelineCall(j)
  BY DEF Piped, PipelineCall
<1>2. UNCHANGED <<creator, hits, pc, goal, found, dbUp, faults, creates, author, caused>>
  BY DEF Piped, apiVars
<1>3. /\ StoreTypeOK' /\ Indexed' /\ jobType' = jobType
      /\ \A k \in JobIds : status[k] # "absent" => status'[k] # "absent"
  BY <1>1, PipedKeeps DEF ApiInv, TypeOK
<1>4. TypeOK'
  BY <1>2, <1>3 DEF ApiInv, TypeOK
<1>5. Serving' /\ Owned'
  BY <1>2 DEF ApiInv, Serving, Owned
<1>6. CausedByGoal'
  <2>1. \A c \in Clients : caused[c] \subseteq JobIds
    BY DEF ApiInv, TypeOK
  <2> QED
    BY <1>2, <1>3, <2>1 DEF ApiInv, CausedByGoal
<1> QED
  BY <1>3, <1>4, <1>5, <1>6 DEF ApiInv

(* A step that touches the counters and the database's state only.         *)
LEMMA WorldKeeps ==
  ASSUME ApiInv, UNCHANGED <<storeVars, creator, pc, goal, found, creates, author, caused>>,
         hits' \in [Buckets -> 0 .. Limit], dbUp' \in BOOLEAN, faults' \in 0 .. MaxFaults
  PROVE  ApiInv'
<1>1. StoreTypeOK'
  BY DEF ApiInv, TypeOK, StoreTypeOK, storeVars
<1>2. TypeOK'
  BY <1>1 DEF ApiInv, TypeOK
<1>3. Serving' /\ Owned' /\ Indexed' /\ CausedByGoal'
  BY DEF ApiInv, Serving, Owned, Indexed, CausedByGoal, storeVars
<1> QED
  BY <1>2, <1>3 DEF ApiInv

(* The window moves on, an outage begins or ends, or nothing happens.      *)
LEMMA OutsideKeeps ==
  ASSUME ApiInv, (\E b \in Buckets : Slide(b)) \/ DbDown \/ DbBack \/ UNCHANGED vars
  PROVE  ApiInv'
<1>1. TypeOK /\ Limit \in Nat /\ MaxFaults \in Nat
  BY IssuerAssumption DEF ApiInv
<1>2. ASSUME NEW b \in Buckets, Slide(b) PROVE ApiInv'
  <2>1. hits[b] - 1 \in 0 .. Limit
    BY <1>1, <1>2 DEF Slide, TypeOK
  <2>2. hits' \in [Buckets -> 0 .. Limit]
    BY <1>1, <1>2, <2>1 DEF Slide, TypeOK
  <2> QED
    BY <1>1, <1>2, <2>2, WorldKeeps DEF Slide, TypeOK
<1>3. CASE DbDown
  <2>1. faults' \in 0 .. MaxFaults
    BY <1>1, <1>3 DEF DbDown, TypeOK
  <2> QED
    BY <1>1, <1>3, <2>1, WorldKeeps DEF DbDown, TypeOK
<1>4. CASE DbBack
  BY <1>1, <1>4, WorldKeeps DEF DbBack, TypeOK
<1>5. CASE UNCHANGED vars
  BY <1>1, <1>5, WorldKeeps DEF vars, apiVars, TypeOK
<1> QED
  BY <1>2, <1>3, <1>4, <1>5

-----------------------------------------------------------------------------
(* The invariant holds at start-up.                                        *)
LEMMA InitApi == ASSUME Init PROVE ApiInv
<1>1. StoreTypeOK
  BY StoreAssumption DEF Init, StoreInit, StoreTypeOK, Statuses, EmptyPayload, Payloads
<1>2. /\ hits \in [Buckets -> 0 .. Limit]
      /\ faults \in 0 .. MaxFaults /\ creates \in 0 .. MaxCreates
  BY IssuerAssumption DEF Init
<1>3. TypeOK
  BY <1>1, <1>2 DEF Init, TypeOK
<1>4. Serving /\ Owned /\ Indexed /\ CausedByGoal
  BY DEF Init, StoreInit, Serving, Owned, Indexed, CausedByGoal, Active
<1> QED
  BY <1>3, <1>4 DEF ApiInv

(* ... and every step keeps it.                                            *)
LEMMA ApiStep == ASSUME ApiInv, [Next]_vars PROVE ApiInv'
<1>1. ASSUME NEW c \in Clients, Served(c) PROVE ApiInv'
  BY <1>1, CreateJobKeeps, GetJobKeeps, AnswerKeeps DEF Served
<1>2. CASE Next
  BY <1>1, <1>2, ArriveKeeps, CliEnqueueKeeps, PipedStepKeeps, OutsideKeeps DEF Next, Fronted
<1> QED
  BY <1>2, OutsideKeeps

(* The inductive invariant of handlerAPI.                                  *)
LEMMA ApiInvariant == Spec => []ApiInv
<1>1. Init => ApiInv
  BY InitApi
<1>2. ApiInv /\ [Next]_vars => ApiInv'
  BY ApiStep
<1> QED
  BY <1>1, <1>2, PTL DEF Spec

(* The tables, the limiter's buckets and every request of handlerAPI have  *)
(* their types: no bucket counts above RATE_LIMIT.                         *)
THEOREM TypesOK == Spec => []TypeOK
<1>1. ApiInv => TypeOK
  BY DEF ApiInv
<1> QED
  BY <1>1, ApiInvariant, PTL

(* Read ownership of handlerAPI holds whatever claims an issuer that keeps *)
(* the assumption puts into its tokens, read_all scopes included.          *)
THEOREM OwnershipDecidesReads == Spec => []ReadsFollowOwnership
<1>1. ApiInv => ReadsFollowOwnership
  <2>1. SUFFICES ASSUME ApiInv, NEW c \in Clients, pc[c] = "return", goal[c].op = "read"
                 PROVE  Code(c) = 200 <=>
                          /\ found[c] = goal[c].job
                          /\ \/ Claims[goal[c].token].owner \notin People
                             \/ "read_all" \in Scopes(goal[c].token)
                             \/ author[goal[c].job] = Claims[goal[c].token].owner
    BY DEF ReadsFollowOwnership
  <2>2. goal[c].token \in Tokens /\ goal[c].job \in JobIds
    BY <2>1, GoalServed, ServedTokens
  <2>3. found[c] \in {NoJob, goal[c].job} /\ goal[c].job # NoJob
    BY <2>1, <2>2, StoreAssumption DEF ApiInv, Serving, NoJob
  <2>4. Code(c) = IF found[c] = NoJob THEN 404
                  ELSE IF CanRead(goal[c].token, creator[found[c]]) THEN 200 ELSE 404
    BY <2>1 DEF Code
  <2>5. CanRead(goal[c].token, creator[goal[c].job]) <=>
          \/ Claims[goal[c].token].owner \notin People
          \/ "read_all" \in Scopes(goal[c].token)
          \/ author[goal[c].job] = Claims[goal[c].token].owner
    BY <2>1, <2>2, CanReadIsOwnership DEF ApiInv
  <2> QED
    BY <2>3, <2>4, <2>5
<1> QED
  BY <1>1, ApiInvariant, PTL

(* However often a client repeats a create whose answer was lost, at most  *)
(* one of the jobs that request has caused is active.                      *)
THEOREM RetriesNeverStack == Spec => []RetriesDoNotStack
<1>1. ApiInv => RetriesDoNotStack
  <2>1. SUFFICES ASSUME ApiInv, NEW c \in Clients
                 PROVE  Cardinality({j \in caused[c] : status[j] \in Active}) =< 1
    BY DEF RetriesDoNotStack
  <2> DEFINE open == {j \in caused[c] : status[j] \in Active}
  <2>2. \A j, k \in open : j = k
    BY <2>1 DEF ApiInv, TypeOK, CausedByGoal, Indexed
  <2>3. CASE open = {}
    BY <2>3, FS_EmptySet
  <2>4. CASE open # {}
    <3>1. PICK j \in open : TRUE
      BY <2>4
    <3>2. open = {j}
      BY <2>2, <3>1
    <3>3. Cardinality({j}) = 1
      BY FS_Singleton
    <3> QED
      BY <3>2, <3>3
  <2> QED
    BY <2>3, <2>4
<1> QED
  BY <1>1, ApiInvariant, PTL

=============================================================================
