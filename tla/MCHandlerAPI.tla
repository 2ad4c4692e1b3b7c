---------------------------- MODULE MCHandlerAPI ----------------------------
(* Constants of HandlerAPI's run: alice has a client to herself; the other *)
(* one sends for bob and for a service, who may only read, and without a   *)
(* token.                                                                  *)
EXTENDS HandlerAPI, TLC

CONSTANTS quiet, noisy

Token(owner, sub, client, userClaim, scope, scp, genuine) ==
  [owner |-> owner, sub |-> sub, client |-> client, userClaim |-> userClaim,
   scope |-> scope, scp |-> scp, genuine |-> genuine]

MCPeople == {"alice", "bob"}
MCClaims ==
  [alice |-> Token("alice", "alice", "web", FALSE, NoClaim, {"read", "write"}, TRUE),
   bob   |-> Token("bob", "bob", NoClaim, TRUE, {"read"}, {"write"}, TRUE),
   svc   |-> Token("svc", NoClaim, "svc", FALSE, {"read"}, NoClaim, TRUE)]
MCTokens == DOMAIN MCClaims

Create(k, valid) == [op : {"create"}, token : {k}, type : JobTypes, valid : {valid}]
Read(k, jobs)    == [op : {"read"}, token : {k}, job : jobs]
Probes           == [op : {"health", "ready"}, token : {NoToken}]

MCAsks == [c \in Clients |->
  IF c = quiet THEN Create("alice", TRUE) \cup Create("alice", FALSE) \cup Read("alice", {1})
  ELSE Probes \cup Create("bob", TRUE) \cup Create(NoToken, TRUE)
       \cup UNION {Read(k, {1}) : k \in {"bob", "svc"}}]

MCInputs == {EmptyPayload}
MCRows   == {}
MCConfig == [t \in JobTypes |-> NoRow]

=============================================================================
