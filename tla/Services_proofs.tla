-------------------------- MODULE Services_proofs ---------------------------
(***************************************************************************)
(* The two services that others rely on.  AgentOS never lets an agent do   *)
(* more than some grant allows, for any agents, resources, scopes, grants  *)
(* and time, and never allows anything under a revoked id.  Every handler  *)
(* of SimulatorBridge answers with the response to its own request, for    *)
(* any number of threads and requests, and callers see one device.         *)
(***************************************************************************)
EXTENDS AgentOS, SimulatorBridge, TLAPS

-----------------------------------------------------------------------------
(* AgentOS.                                                                *)

\* A token in use is a granted one, or was issued under a granted token with the right
\* to delegate: for the same resource, no later than its expiry, without that right.
Backed(token) ==
    \E g \in granted :
        /\ g.resource = token.resource /\ token.expiresAt <= g.expiresAt
        /\ \/ g = token
           \/ /\ DELEGATE \in g.permissions
              /\ token.permissions \subseteq g.permissions \ {DELEGATE}

TokensBacked == \A id \in DOMAIN tokens : Backed(tokens[id])

AuthorityInv == AgentOSTypeOK /\ TokensBacked /\ AuthorityFromGrants

LEMMA InitAuthority == AgentOSInit => AuthorityInv
<1> SUFFICES ASSUME AgentOSInit PROVE AuthorityInv
  OBVIOUS
<1>1. AgentOSTypeOK
  BY PolicyAssumption DEF AgentOSInit, AgentOSTypeOK, Time
<1>2. TokensBacked /\ AuthorityFromGrants
  BY DEF AgentOSInit, TokensBacked, AuthorityFromGrants
<1>3. QED
  BY <1>1, <1>2 DEF AuthorityInv

\* The tables keep their shape.
LEMMA ChildType ==
    ASSUME NEW parent \in Token, NEW a \in AgentId, NEW p \in SUBSET Permission,
           NEW uses \in Nat \union {-1}
    PROVE  /\ Child(parent, a, p, uses) \in Token
           /\ Child(parent, a, p, uses).issuer = parent.subject
           /\ Child(parent, a, p, uses).subject = a
           /\ Child(parent, a, p, uses).resource = parent.resource
           /\ Child(parent, a, p, uses).permissions = p
           /\ Child(parent, a, p, uses).expiresAt = parent.expiresAt
  BY DEF Child, Token

LEMMA DecisionType ==
    ASSUME NEW a, NEW r, NEW operation, NEW id
    PROVE  /\ DecisionOn(a, r, operation, id) \in Decision
           /\ DecisionOn(a, r, operation, id) # "deny" => Authorized(a, r, operation, id)
  BY DEF DecisionOn, Decision

\* The audit log with one more entry.
LEMMA LogGrows ==
    ASSUME NEW e, e \in AuditEvent, auditLog \in Seq(AuditEvent),
           NEW log, log = Append(auditLog, e)
    PROVE  /\ log \in Seq(AuditEvent)
           /\ \A k \in DOMAIN log : (k \in DOMAIN auditLog /\ log[k] = auditLog[k]) \/ log[k] = e
  OBVIOUS

-----------------------------------------------------------------------------
(* The tables, one call at a time.                                         *)

LEMMA GrantType ==
    ASSUME AgentOSTypeOK, NEW id \in TokenId, NEW token \in Grants, Grant(id, token)
    PROVE  AgentOSTypeOK'
<1>1. token \in Token
  BY PolicyAssumption
<1>2. /\ DOMAIN tokens' = DOMAIN tokens \union {id}
      /\ \A k \in DOMAIN tokens' : tokens'[k] = IF k = id THEN token ELSE tokens[k]
  <2>1. tokens' = Assigned(tokens, id, token)
    BY DEF Grant
  <2>2. QED
    BY <2>1 DEF Assigned
<1>3. QED
  BY <1>1, <1>2 DEF AgentOSTypeOK, Grant, KnownParties

LEMMA DelegateType ==
    ASSUME AgentOSTypeOK, NEW parentId \in TokenId, NEW id \in TokenId, NEW a \in AgentId,
           NEW p \in SUBSET Permission, NEW uses \in {token.uses : token \in Grants},
           Delegate(parentId, id, a, p, uses)
    PROVE  AgentOSTypeOK'
<1> DEFINE child == Child(tokens[parentId], a, p, uses)
<1>1. tokens[parentId] \in Token /\ uses \in Nat \union {-1}
  BY PolicyAssumption DEF AgentOSTypeOK, Delegate, ActiveToken, Token
<1>2. /\ child \in Token /\ child.issuer = tokens[parentId].subject
      /\ child.subject = a /\ child.resource = tokens[parentId].resource
  BY <1>1, ChildType
<1>3. tokens' = Assigned(tokens, id, child)
  BY DEF Delegate
<1> HIDE DEF child
<1>4. /\ DOMAIN tokens' = DOMAIN tokens \union {id}
      /\ \A k \in DOMAIN tokens' : tokens'[k] = IF k = id THEN child ELSE tokens[k]
  BY <1>3 DEF Assigned
<1>5. QED
  BY <1>2, <1>4 DEF AgentOSTypeOK, Delegate, ActiveToken

LEMMA CheckType ==
    ASSUME AgentOSTypeOK, NEW a \in AgentId, NEW r \in ResourceId,
           NEW operation \in Permission, NEW id \in TokenId, Check(a, r, operation, id)
    PROVE  AgentOSTypeOK'
<1> DEFINE e == [at |-> now, agent |-> a, resource |-> r, operation |-> operation,
                 decision |-> DecisionOn(a, r, operation, id), token |-> id]
<1>1. e \in AuditEvent
  BY DecisionType DEF AgentOSTypeOK, AuditEvent
<1>2. auditLog' = Append(auditLog, e)
  BY DEF Check
<1>3. auditLog' \in Seq(AuditEvent)
  BY <1>1, <1>2, LogGrows DEF AgentOSTypeOK
<1>4. QED
  BY <1>3 DEF AgentOSTypeOK, Check

LEMMA TypeStep == AgentOSTypeOK /\ [AgentOSNext]_agentosVars => AgentOSTypeOK'
<1> SUFFICES ASSUME AgentOSTypeOK, [AgentOSNext]_agentosVars PROVE AgentOSTypeOK'
  OBVIOUS
<1>1. ASSUME NEW a \in AgentId, NEW root \in Path, RegisterAgent(a, root)
      PROVE  AgentOSTypeOK'
  <2>1. /\ DOMAIN agents' = DOMAIN agents \union {a}
        /\ \A k \in DOMAIN agents' : agents'[k] = IF k = a THEN root ELSE agents[k]
    BY <1>1 DEF RegisterAgent, Assigned
  <2>2. QED
    BY <1>1, <2>1 DEF AgentOSTypeOK, RegisterAgent
<1>2. ASSUME NEW r \in ResourceId, NEW path \in Path, RegisterResource(r, path)
      PROVE  AgentOSTypeOK'
  <2>1. /\ DOMAIN resources' = DOMAIN resources \union {r}
        /\ \A k \in DOMAIN resources' : resources'[k] = IF k = r THEN path ELSE resources[k]
    BY <1>2 DEF RegisterResource, Assigned
  <2>2. QED
    BY <1>2, <2>1 DEF AgentOSTypeOK, RegisterResource
<1>3. ASSUME NEW id \in TokenId, Revoke(id) \/ Approve(id) PROVE AgentOSTypeOK'
  BY <1>3 DEF AgentOSTypeOK, Revoke, Approve
<1>4. CASE TimePasses
  BY <1>4, PolicyAssumption DEF AgentOSTypeOK, TimePasses, Time
<1>5. CASE UNCHANGED agentosVars
  BY <1>5 DEF AgentOSTypeOK, agentosVars, monitorVars
<1>6. QED
  BY <1>1, <1>2, <1>3, <1>4, <1>5, GrantType, DelegateType, CheckType DEF AgentOSNext

-----------------------------------------------------------------------------
(* Authority, for the three calls that touch it.                           *)

\* More grants leave what is backed, backed, and what is explained, explained.
LEMMA GrantAuthority ==
    ASSUME AuthorityInv, NEW id \in TokenId, NEW token \in Grants, Grant(id, token)
    PROVE  TokensBacked' /\ AuthorityFromGrants'
<1>1. /\ DOMAIN tokens' = DOMAIN tokens \union {id}
      /\ \A k \in DOMAIN tokens' : tokens'[k] = IF k = id THEN token ELSE tokens[k]
      /\ granted' = granted \union {token} /\ auditLog' = auditLog
  <2>1. /\ tokens' = Assigned(tokens, id, token)
        /\ granted' = granted \union {token} /\ auditLog' = auditLog
    BY DEF Grant
  <2>2. QED
    BY <2>1 DEF Assigned
<1>2. ASSUME NEW k \in DOMAIN tokens' PROVE Backed(tokens[k])'
  <2>1. CASE k = id
    <3>1. token.expiresAt <= token.expiresAt
      BY PolicyAssumption DEF Token, Never
    <3>2. QED
      BY <1>1, <1>2, <2>1, <3>1 DEF Backed
  <2>2. CASE k # id
    <3>1. tokens'[k] = tokens[k] /\ Backed(tokens[k])
      BY <1>1, <1>2, <2>2 DEF AuthorityInv, TokensBacked
    <3>2. QED
      BY <1>1, <3>1 DEF Backed
  <2>3. QED
    BY <2>1, <2>2
<1>3. AuthorityFromGrants'
  BY <1>1 DEF AuthorityInv, AuthorityFromGrants
<1>4. QED
  BY <1>2, <1>3 DEF TokensBacked

\* A child is backed by the grant that gave its parent the right to delegate: no
\* delegated token has that right.
LEMMA DelegateAuthority ==
    ASSUME AuthorityInv, NEW parentId \in TokenId, NEW id \in TokenId, NEW a \in AgentId,
           NEW p \in SUBSET Permission, NEW uses \in {token.uses : token \in Grants},
           Delegate(parentId, id, a, p, uses)
    PROVE  TokensBacked' /\ AuthorityFromGrants'
<1> DEFINE parent == tokens[parentId]
           child  == Child(parent, a, p, uses)
<1>1. parent \in Token /\ Backed(parent) /\ uses \in Nat \union {-1}
  BY PolicyAssumption
  DEF AuthorityInv, TokensBacked, AgentOSTypeOK, Delegate, ActiveToken, Token
<1>2. DELEGATE \in parent.permissions /\ p \subseteq parent.permissions \ {DELEGATE}
  BY DEF Delegate, MayDelegate
<1>3. /\ child.resource = parent.resource /\ child.permissions = p
      /\ child.expiresAt = parent.expiresAt
  BY <1>1, ChildType
<1>4. /\ DOMAIN tokens' = DOMAIN tokens \union {id}
      /\ \A k \in DOMAIN tokens' : tokens'[k] = IF k = id THEN child ELSE tokens[k]
      /\ granted' = granted /\ auditLog' = auditLog
  <2>1. /\ tokens' = Assigned(tokens, id, child)
        /\ granted' = granted /\ auditLog' = auditLog
    BY DEF Delegate
  <2> HIDE DEF parent, child
  <2>2. QED
    BY <2>1 DEF Assigned
<1> HIDE DEF parent, child
<1>5. Backed(child)
  <2>1. PICK g \in granted :
           /\ g.resource = parent.resource /\ parent.expiresAt <= g.expiresAt
           /\ \/ g = parent
              \/ /\ DELEGATE \in g.permissions
                 /\ parent.permissions \subseteq g.permissions \ {DELEGATE}
    BY <1>1 DEF Backed
  <2>2. g = parent
    BY <1>2, <2>1
  <2>3. QED
    BY <1>2, <1>3, <2>1, <2>2 DEF Backed
<1>6. ASSUME NEW k \in DOMAIN tokens' PROVE Backed(tokens[k])'
  <2>1. tokens'[k] = child \/ (k \in DOMAIN tokens /\ tokens'[k] = tokens[k])
    BY <1>4, <1>6
  <2>2. Backed(tokens'[k])
    BY <1>5, <2>1 DEF AuthorityInv, TokensBacked
  <2>3. QED
    BY <1>4, <2>2 DEF Backed
<1>7. AuthorityFromGrants'
  BY <1>4 DEF AuthorityInv, AuthorityFromGrants
<1>8. QED
  BY <1>6, <1>7 DEF TokensBacked

\* What is not denied was authorized by an active token, and that one is backed.
LEMMA CheckAuthority ==
    ASSUME AuthorityInv, NEW a \in AgentId, NEW r \in ResourceId,
           NEW operation \in Permission, NEW id \in TokenId, Check(a, r, operation, id)
    PROVE  TokensBacked' /\ AuthorityFromGrants'
<1> DEFINE e == [at |-> now, agent |-> a, resource |-> r, operation |-> operation,
                 decision |-> DecisionOn(a, r, operation, id), token |-> id]
           Explained(entry) ==
               entry.decision # "deny" =>
                   \E g \in granted :
                       /\ g.resource = entry.resource /\ entry.operation \in g.permissions
                       /\ entry.at < g.expiresAt
                       /\ \/ g.subject = entry.agent
                          \/ DELEGATE \in g.permissions /\ entry.operation # DELEGATE
<1>1. tokens' = tokens /\ granted' = granted
  BY DEF Check
<1>2. TokensBacked'
  BY <1>1 DEF AuthorityInv, TokensBacked, Backed
<1>3. e \in AuditEvent /\ auditLog' = Append(auditLog, e)
  BY DecisionType DEF Check, AuthorityInv, AgentOSTypeOK, AuditEvent
<1>4. Explained(e)
  <2>1. SUFFICES ASSUME Authorized(a, r, operation, id)
                 PROVE  \E g \in granted :
                            /\ g.resource = r /\ operation \in g.permissions
                            /\ now < g.expiresAt
                            /\ \/ g.subject = a
                               \/ DELEGATE \in g.permissions /\ operation # DELEGATE
    BY DecisionType
  <2>2. /\ tokens[id] \in Token /\ Backed(tokens[id]) /\ now < tokens[id].expiresAt
        /\ tokens[id].subject = a /\ tokens[id].resource = r
        /\ operation \in tokens[id].permissions /\ now \in Int
    BY <2>1 DEF Authorized, ActiveToken, AuthorityInv, TokensBacked, AgentOSTypeOK, Time
  <2>3. PICK g \in granted :
           /\ g.resource = tokens[id].resource /\ tokens[id].expiresAt <= g.expiresAt
           /\ \/ g = tokens[id]
              \/ /\ DELEGATE \in g.permissions
                 /\ tokens[id].permissions \subseteq g.permissions \ {DELEGATE}
    BY <2>2 DEF Backed
  <2>4. g.expiresAt \in Int /\ tokens[id].expiresAt \in Int
    BY <2>2 DEF AuthorityInv, AgentOSTypeOK, Token
  <2>5. now < g.expiresAt
    BY <2>2, <2>3, <2>4
  <2>6. QED
    BY <2>2, <2>3, <2>5
<1>5. \A k \in DOMAIN auditLog : Explained(auditLog[k])
  BY DEF AuthorityInv, AuthorityFromGrants
<1> HIDE DEF e, Explained
<1>6. \A k \in DOMAIN auditLog' : Explained(auditLog'[k])
  BY <1>3, <1>4, <1>5, LogGrows DEF AuthorityInv, AgentOSTypeOK
<1>7. AuthorityFromGrants'
  BY <1>1, <1>6 DEF AuthorityFromGrants, Explained
<1>8. QED
  BY <1>2, <1>7

LEMMA AuthorityStep == AuthorityInv /\ [AgentOSNext]_agentosVars => AuthorityInv'
<1> SUFFICES ASSUME AuthorityInv, [AgentOSNext]_agentosVars PROVE AuthorityInv'
  OBVIOUS
<1>1. AgentOSTypeOK'
  BY TypeStep DEF AuthorityInv
<1>2. ASSUME UNCHANGED <<tokens, granted, auditLog>>
      PROVE  TokensBacked' /\ AuthorityFromGrants'
  BY <1>2 DEF AuthorityInv, TokensBacked, Backed, AuthorityFromGrants
<1>3. TokensBacked' /\ AuthorityFromGrants'
  BY <1>2, GrantAuthority, DelegateAuthority, CheckAuthority
  DEF AgentOSNext, RegisterAgent, RegisterResource, Revoke, Approve, TimePasses,
      agentosVars, monitorVars
<1>4. QED
  BY <1>1, <1>3 DEF AuthorityInv

\* Every decision that is not a refusal goes back to a grant.
THEOREM AuthorityTraced == AgentOSSpec => []AuthorityFromGrants
<1>1. AuthorityInv => AuthorityFromGrants
  BY DEF AuthorityInv
<1>2. QED
  BY <1>1, InitAuthority, AuthorityStep, PTL DEF AgentOSSpec

-----------------------------------------------------------------------------
(* Revocation.                                                             *)

\* The entry a check adds for a revoked id is a refusal, whatever is granted under it.
LEMMA CheckRevoked ==
    ASSUME AgentOSTypeOK, NEW a \in AgentId, NEW r \in ResourceId,
           NEW operation \in Permission, NEW id \in TokenId, Check(a, r, operation, id),
           NEW revoked \in revokedTokens, auditLog'[Len(auditLog')].token = revoked
    PROVE  auditLog'[Len(auditLog')].decision = "deny"
<1> DEFINE e == [at |-> now, agent |-> a, resource |-> r, operation |-> operation,
                 decision |-> DecisionOn(a, r, operation, id), token |-> id]
<1>1. e \in AuditEvent /\ auditLog' = Append(auditLog, e)
  BY DecisionType DEF Check, AgentOSTypeOK, AuditEvent
<1>2. e.token = id /\ e.decision = DecisionOn(a, r, operation, id)
  OBVIOUS
<1> HIDE DEF e
<1>3. auditLog'[Len(auditLog')] = e
  BY <1>1 DEF AgentOSTypeOK
<1>4. ~Authorized(a, r, operation, id)
  BY <1>2, <1>3 DEF Authorized, ActiveToken
<1>5. QED
  BY <1>2, <1>3, <1>4, DecisionType

\* Once revoked, an id is refused for good: no grant, delegation, approval or passing of
\* time after the revocation makes check() answer anything else.
THEOREM RevocationHolds == AgentOSSpec => RevocationFinal
<1>1. AuthorityInv => AgentOSTypeOK
  BY DEF AuthorityInv
<1>2. ASSUME AgentOSTypeOK, [AgentOSNext]_agentosVars
      PROVE  \A id \in revokedTokens :
                 auditLog' # auditLog /\ auditLog'[Len(auditLog')].token = id =>
                     auditLog'[Len(auditLog')].decision = "deny"
  <2>1. CASE \E a \in AgentId, r \in ResourceId, operation \in Permission, id \in TokenId :
                 Check(a, r, operation, id)
    BY <1>2, <2>1, CheckRevoked
  <2>2. CASE UNCHANGED auditLog
    BY <2>2
  <2>3. QED
    BY <1>2, <2>1, <2>2
    DEF AgentOSNext, RegisterAgent, RegisterResource, Grant, Delegate, Revoke, Approve,
        TimePasses, agentosVars, monitorVars
<1>3. QED
  BY <1>1, <1>2, InitAuthority, AuthorityStep, PTL DEF AgentOSSpec, RevocationFinal

-----------------------------------------------------------------------------
(* The simulator bridge.                                                   *)

Answers(r, p) ==
    /\ r.command = p.command
    /\ p.command = "execute" => r.result = p.result

\* The one line under way, if any, is the request of the thread inside the lock or the
\* answer to it.
PipeEmpty    == stdin = <<>> /\ stdout = <<>>
PipeAsks     == /\ lock \in Thread /\ stage[lock] = "reading"
                /\ stdin = <<payload[lock]>> /\ stdout = <<>>
PipeAnswers  == /\ lock \in Thread /\ stage[lock] = "reading"
                /\ stdin = <<>> /\ \E r \in Response : stdout = <<r>> /\ Answers(r, payload[lock])
PipeInv      == PipeEmpty \/ PipeAsks \/ PipeAnswers

\* A worker that is gone has left no request behind.
NothingLeft == process # "running" => stdin = <<>>

\* The threads' part of the type invariant, and the registers' part.
ThreadsOK ==
    /\ stage \in [Thread -> InLock \union {"idle", "waiting", "clearing"}]
    /\ payload \in [Thread -> Payload]
    /\ response \in [Thread -> Response \union {Pending, Error}]
    /\ \A t \in Thread : stage[t] \in InLock <=> lock = t
    /\ lock \in Thread \union {NoThread}

DataOK ==
    /\ process \in {"none", "running", "exited"}
    /\ rtl \in Rtl /\ telemetry \in Telemetry
    /\ requests \in Nat /\ starts \in Nat /\ executed \in BOOLEAN

\* A thread that has read a line holds a response.
HoldsResponse ==
    \A t \in Thread : stage[t] = "caching" => response[t] \in Response

BridgeInv == ThreadsOK /\ DataOK /\ PipeInv /\ NothingLeft /\ HoldsResponse /\ ResponseIsOwn

LEMMA InvImpliesType == BridgeInv => BridgeTypeOK
<1> SUFFICES ASSUME BridgeInv PROVE BridgeTypeOK
  OBVIOUS
<1>1. /\ stdin \in Seq(Payload) /\ stdout \in Seq(Response)
      /\ stdin # <<>> \/ stdout # <<>> =>
            /\ Len(stdin) + Len(stdout) = 1
            /\ \E t \in Thread : lock = t /\ stage[t] = "reading"
  <2>1. CASE PipeEmpty
    BY <2>1 DEF PipeEmpty
  <2>2. CASE PipeAsks
    <3>1. payload[lock] \in Payload
      BY <2>2 DEF PipeAsks, BridgeInv, ThreadsOK
    <3>2. stdin \in Seq(Payload) /\ Len(stdin) = 1 /\ stdout \in Seq(Response) /\ Len(stdout) = 0
      BY <2>2, <3>1 DEF PipeAsks
    <3>3. QED
      BY <2>2, <3>2 DEF PipeAsks
  <2>3. CASE PipeAnswers
    BY <2>3 DEF PipeAnswers
  <2>4. QED
    BY <2>1, <2>2, <2>3 DEF BridgeInv, PipeInv
<1>2. QED
  BY <1>1 DEF BridgeInv, ThreadsOK, DataOK, BridgeTypeOK

LEMMA InitBridge == BridgeInit => BridgeInv
<1> SUFFICES ASSUME BridgeInit PROVE BridgeInv
  OBVIOUS
<1>1. ThreadsOK
  BY BridgeAssumption DEF BridgeInit, ThreadsOK, InLock, Payload
<1>2. DataOK
  BY BridgeAssumption DEF BridgeInit, DataOK, RtlReset, Rtl, Zeros, Telemetry
<1>3. PipeInv /\ NothingLeft /\ HoldsResponse /\ ResponseIsOwn
  BY DEF BridgeInit, PipeInv, PipeEmpty, NothingLeft, HoldsResponse, ResponseIsOwn
<1>4. QED
  BY <1>1, <1>2, <1>3 DEF BridgeInv

-----------------------------------------------------------------------------
(* The worker.                                                             *)

LEMMA TelemetryRead ==
    ASSUME NEW r \in Rtl
    PROVE  ReadTelemetry(r) \in Telemetry
  BY DEF Rtl, ReadTelemetry, Telemetry

LEMMA RtlTicks ==
    ASSUME NEW r \in Rtl, NEW p \in Payload, p.command = "execute"
    PROVE  RtlTick(r, p) \in Rtl
<1>1. p.result \in Result
  BY DEF Payload, Reset
<1>2. Distance(p.result, r.previousResult) \in Nat
  BY <1>1, BridgeAssumption DEF Rtl
<1>3. QED
  BY <1>1, <1>2 DEF RtlTick, Rtl

LEMMA WorkerStep ==
    ASSUME BridgeInv, WorkerAnswers
    PROVE  BridgeInv'
<1>1. PipeAsks /\ payload[lock] \in Payload /\ Head(stdin) = payload[lock] /\ Tail(stdin) = <<>>
  <2>1. PipeAsks
    BY DEF BridgeInv, PipeInv, PipeEmpty, PipeAnswers, WorkerAnswers
  <2>2. payload[lock] \in Payload
    BY <2>1 DEF PipeAsks, BridgeInv, ThreadsOK
  <2>3. QED
    BY <2>1, <2>2 DEF PipeAsks
<1>2. PICK r \in Response : /\ stdout' = <<r>> /\ Answers(r, payload[lock])
                            /\ rtl' \in Rtl /\ executed' \in BOOLEAN
  <2>1. CASE Head(stdin).command = "reset" /\ rtl' = RtlReset /\ UNCHANGED executed
             /\ stdout' = Append(stdout, Reset)
    <3>1. stdout' = <<Reset>>
      BY <1>1, <2>1 DEF PipeAsks
    <3>2. Reset \in Response /\ Answers(Reset, payload[lock])
      BY <1>1, <2>1 DEF Response, Reset, Answers
    <3>3. QED
      BY <2>1, <3>1, <3>2, BridgeAssumption DEF RtlReset, Rtl, BridgeInv, DataOK
  <2>2. CASE /\ Head(stdin).command = "execute"
             /\ rtl' = RtlTick(rtl, Head(stdin)) /\ executed' = TRUE
             /\ stdout' = Append(stdout, [command |-> "execute", result |-> Head(stdin).result,
                                          telemetry |-> ReadTelemetry(rtl')])
    <3> DEFINE r == [command |-> "execute", result |-> payload[lock].result,
                     telemetry |-> ReadTelemetry(rtl')]
    <3>1. rtl' \in Rtl
      BY <1>1, <2>2, RtlTicks DEF BridgeInv, DataOK
    <3>2. payload[lock].result \in Result
      BY <1>1, <2>2 DEF Payload, Reset
    <3>3. r \in Response /\ Answers(r, payload[lock])
      BY <1>1, <2>2, <3>1, <3>2, TelemetryRead DEF Response, Answers
    <3>4. stdout' = <<r>>
      BY <1>1, <2>2 DEF PipeAsks
    <3>5. QED
      BY <2>2, <3>1, <3>3, <3>4
  <2>3. QED
    BY <2>1, <2>2 DEF WorkerAnswers
<1>3. PipeAnswers'
  BY <1>1, <1>2 DEF PipeAsks, PipeAnswers, Answers, WorkerAnswers, handlerVars
<1>4. ThreadsOK' /\ DataOK' /\ HoldsResponse' /\ ResponseIsOwn'
  BY <1>2 DEF BridgeInv, ThreadsOK, DataOK, HoldsResponse, ResponseIsOwn, WorkerAnswers, handlerVars
<1>5. NothingLeft'
  BY <1>1 DEF WorkerAnswers, NothingLeft
<1>6. QED
  BY <1>3, <1>4, <1>5 DEF BridgeInv, PipeInv

LEMMA ServerStep ==
    ASSUME BridgeInv, Start \/ Stop \/ WorkerExits
    PROVE  BridgeInv'
<1>1. ThreadsOK' /\ HoldsResponse' /\ ResponseIsOwn'
  BY DEF BridgeInv, ThreadsOK, HoldsResponse, ResponseIsOwn, Start, Stop, WorkerExits, handlerVars
<1>2. DataOK' /\ NothingLeft'
  <2>1. RtlReset \in Rtl
    BY BridgeAssumption DEF RtlReset, Rtl
  <2>2. CASE Start
    <3>1. starts' \in Nat /\ requests' \in Nat /\ telemetry' \in Telemetry
      BY <2>2 DEF BridgeInv, DataOK, Start, handlerVars
    <3>2. executed' \in BOOLEAN
      BY <2>2, Zenon DEF Start
    <3>3. QED
      BY <2>1, <2>2, <3>1, <3>2 DEF DataOK, NothingLeft, Start
  <2>3. CASE Stop
    BY <2>3 DEF BridgeInv, DataOK, NothingLeft, Stop, handlerVars
  <2>4. CASE WorkerExits
    BY <2>4 DEF BridgeInv, DataOK, NothingLeft, WorkerExits, handlerVars
  <2>5. QED
    BY <2>2, <2>3, <2>4
<1>3. PipeInv'
  <2>1. CASE Start \/ Stop
    BY <2>1 DEF Start, Stop, PipeInv, PipeEmpty
  <2>2. CASE WorkerExits
    BY <2>2 DEF BridgeInv, WorkerExits, PipeInv, PipeEmpty, PipeAsks, PipeAnswers, Answers, handlerVars
  <2>3. QED
    BY <2>1, <2>2
<1>4. QED
  BY <1>1, <1>2, <1>3 DEF BridgeInv

-----------------------------------------------------------------------------
(* The handlers, one step at a time: what a step of t does to the pipe,    *)
(* and that it gives t nothing but a response to its own request.          *)

LEMMA BeginStep ==
    ASSUME BridgeInv, NEW t \in Thread, NEW p \in Payload, Begin(t, p)
    PROVE  BridgeInv'
<1>1. lock # t
  BY DEF BridgeInv, ThreadsOK, Begin, At, InLock
<1>2. ThreadsOK' /\ HoldsResponse'
  BY <1>1 DEF BridgeInv, ThreadsOK, HoldsResponse, Begin, At, Goto, InLock
<1>3. DataOK' /\ NothingLeft'
  BY DEF BridgeInv, DataOK, NothingLeft, Begin, workerVars
<1>4. ResponseIsOwn'
  BY DEF BridgeInv, ThreadsOK, ResponseIsOwn, Begin
<1>5. PipeInv'
  BY <1>1 DEF BridgeInv, ThreadsOK, PipeInv, PipeEmpty, PipeAsks, PipeAnswers, Answers,
             Begin, Goto, workerVars
<1>6. QED
  BY <1>2, <1>3, <1>4, <1>5 DEF BridgeInv

LEMMA AcquireStep ==
    ASSUME BridgeInv, NEW t \in Thread, Acquire(t)
    PROVE  BridgeInv'
<1>1. ThreadsOK' /\ HoldsResponse'
  BY BridgeAssumption
  DEF BridgeInv, ThreadsOK, HoldsResponse, Acquire, At, Goto, LockFree, InLock
<1>2. PipeEmpty
  BY BridgeAssumption
  DEF BridgeInv, PipeInv, PipeAsks, PipeAnswers, Acquire, LockFree
<1>3. QED
  BY <1>1, <1>2
  DEF BridgeInv, DataOK, NothingLeft, ResponseIsOwn, PipeInv, PipeEmpty, Acquire, workerVars

\* An error may end a handler that has no line under way.
LEMMA FailStep ==
    ASSUME BridgeInv, NEW t \in Thread, lock = t, PipeEmpty, Fail(t)
    PROVE  BridgeInv'
<1>1. ThreadsOK' /\ HoldsResponse'
  BY BridgeAssumption DEF BridgeInv, ThreadsOK, HoldsResponse, Fail, Goto, InLock
<1>2. DataOK' /\ NothingLeft' /\ PipeInv'
  BY DEF BridgeInv, DataOK, NothingLeft, PipeInv, PipeEmpty, Fail, workerVars
<1>3. ResponseIsOwn'
  BY DEF BridgeInv, ThreadsOK, ResponseIsOwn, Fail
<1>4. QED
  BY <1>1, <1>2, <1>3 DEF BridgeInv

LEMMA PollStep ==
    ASSUME BridgeInv, NEW t \in Thread, Poll(t)
    PROVE  BridgeInv'
<1>1. lock = t /\ PipeEmpty
  BY DEF BridgeInv, ThreadsOK, PipeInv, PipeAsks, PipeAnswers, Poll, At, InLock
<1>2. CASE Fail(t)
  BY <1>1, <1>2, FailStep
<1>3. CASE Goto(t, "writing")
           /\ UNCHANGED <<workerVars, payload, response, lock, telemetry, requests, starts>>
  <2>1. ThreadsOK' /\ HoldsResponse'
    BY <1>1, <1>3 DEF BridgeInv, ThreadsOK, HoldsResponse, Goto, InLock
  <2>2. QED
    BY <1>1, <1>3, <2>1
    DEF BridgeInv, DataOK, NothingLeft, ResponseIsOwn, PipeInv, PipeEmpty, workerVars
<1>4. QED
  BY <1>2, <1>3 DEF Poll

LEMMA WriteStep ==
    ASSUME BridgeInv, NEW t \in Thread, Write(t)
    PROVE  BridgeInv'
<1>1. lock = t /\ PipeEmpty
  BY DEF BridgeInv, ThreadsOK, PipeInv, PipeAsks, PipeAnswers, Write, At, InLock
<1>2. CASE Fail(t)
  BY <1>1, <1>2, FailStep
<1>3. CASE /\ process = "running"
           /\ stdin' = Append(stdin, payload[t]) /\ Goto(t, "reading")
           /\ UNCHANGED <<process, stdout, rtl, executed>>
           /\ UNCHANGED <<payload, response, lock, telemetry, requests, starts>>
  <2>1. ThreadsOK' /\ HoldsResponse'
    BY <1>1, <1>3 DEF BridgeInv, ThreadsOK, HoldsResponse, Goto, InLock
  <2>2. stage'[t] = "reading" /\ stdin' = <<payload[t]>>
    BY <1>1, <1>3 DEF BridgeInv, ThreadsOK, Goto, PipeEmpty
  <2>3. PipeAsks'
    BY <1>1, <1>3, <2>2 DEF PipeEmpty, PipeAsks
  <2>4. QED
    BY <1>3, <2>1, <2>3 DEF BridgeInv, DataOK, NothingLeft, ResponseIsOwn, PipeInv
<1>4. QED
  BY <1>2, <1>3 DEF Write

LEMMA ReadLineStep ==
    ASSUME BridgeInv, NEW t \in Thread, ReadLine(t)
    PROVE  BridgeInv'
<1>1. lock = t /\ PipeAnswers
  BY DEF BridgeInv, ThreadsOK, PipeInv, PipeEmpty, PipeAsks, ReadLine, At, InLock
<1>2. PICK r \in Response : stdout = <<r>> /\ Answers(r, payload[t])
  BY <1>1 DEF PipeAnswers
<1>3. /\ response' = [response EXCEPT ![t] = r] /\ stdout' = <<>> /\ stdin' = <<>>
  <2>1. Head(stdout) = r /\ Tail(stdout) = <<>>
    BY <1>2
  <2>2. QED
    BY <1>1, <2>1 DEF ReadLine, PipeAnswers
<1>4. ThreadsOK' /\ HoldsResponse'
  BY <1>1, <1>3 DEF BridgeInv, ThreadsOK, HoldsResponse, ReadLine, Goto, InLock
<1>5. ResponseIsOwn'
  BY <1>2, <1>3 DEF BridgeInv, ThreadsOK, ResponseIsOwn, Answers, ReadLine
<1>6. DataOK' /\ NothingLeft' /\ PipeInv'
  BY <1>3 DEF BridgeInv, DataOK, NothingLeft, PipeInv, PipeEmpty, ReadLine
<1>7. QED
  BY <1>4, <1>5, <1>6 DEF BridgeInv

\* At the end of the worker's output its input is gone as well.
LEMMA ReadEndStep ==
    ASSUME BridgeInv, NEW t \in Thread, ReadEnd(t)
    PROVE  BridgeInv'
<1>1. lock = t /\ PipeEmpty
  BY DEF BridgeInv, ThreadsOK, NothingLeft, PipeEmpty, ReadEnd, At, InLock
<1>2. QED
  BY <1>1, FailStep DEF ReadEnd

LEMMA CacheStep ==
    ASSUME BridgeInv, NEW t \in Thread, Cache(t)
    PROVE  BridgeInv'
<1>1. lock = t /\ PipeEmpty /\ response[t] \in Response
  BY DEF BridgeInv, ThreadsOK, HoldsResponse, PipeInv, PipeAsks, PipeAnswers, Cache, At, InLock
<1>2. telemetry' \in Telemetry
  BY <1>1 DEF BridgeInv, DataOK, Cache, Response, Reset
<1>3. ThreadsOK' /\ HoldsResponse'
  BY <1>1 DEF BridgeInv, ThreadsOK, HoldsResponse, Cache, Goto, InLock
<1>4. QED
  BY <1>1, <1>2, <1>3
  DEF BridgeInv, DataOK, NothingLeft, ResponseIsOwn, PipeInv, PipeEmpty, Cache, workerVars

LEMMA ReleaseStep ==
    ASSUME BridgeInv, NEW t \in Thread, Release(t)
    PROVE  BridgeInv'
<1>1. lock = t /\ PipeEmpty
  BY DEF BridgeInv, ThreadsOK, PipeInv, PipeAsks, PipeAnswers, Release, At, InLock
<1>2. ThreadsOK' /\ HoldsResponse'
  BY <1>1, BridgeAssumption DEF BridgeInv, ThreadsOK, HoldsResponse, Release, Goto, InLock
<1>3. QED
  BY <1>1, <1>2
  DEF BridgeInv, DataOK, NothingLeft, ResponseIsOwn, PipeInv, PipeEmpty, Release, workerVars

LEMMA ClearCacheStep ==
    ASSUME BridgeInv, NEW t \in Thread, ClearCache(t)
    PROVE  BridgeInv'
<1>1. lock # t /\ Zeros \in Telemetry
  BY DEF BridgeInv, ThreadsOK, ClearCache, At, InLock, Zeros, Telemetry
<1>2. ThreadsOK' /\ HoldsResponse'
  BY <1>1 DEF BridgeInv, ThreadsOK, HoldsResponse, ClearCache, At, Goto, InLock
<1>3. PipeInv'
  BY <1>1 DEF BridgeInv, ThreadsOK, PipeInv, PipeEmpty, PipeAsks, PipeAnswers, Answers,
             ClearCache, Goto, workerVars
<1>4. QED
  BY <1>1, <1>2, <1>3
  DEF BridgeInv, DataOK, NothingLeft, ResponseIsOwn, ClearCache, workerVars

LEMMA BridgeStep == BridgeInv /\ [BridgeNext]_bridgeVars => BridgeInv'
<1> SUFFICES ASSUME BridgeInv, [BridgeNext]_bridgeVars PROVE BridgeInv'
  OBVIOUS
<1>1. CASE Start \/ Stop \/ WorkerExits \/ WorkerAnswers
  BY <1>1, ServerStep, WorkerStep
<1>2. ASSUME NEW t \in Thread, (\E p \in Payload : Begin(t, p)) \/ Handle(t)
      PROVE  BridgeInv'
  BY <1>2, BeginStep, AcquireStep, PollStep, WriteStep, ReadLineStep, ReadEndStep, CacheStep,
     ReleaseStep, ClearCacheStep
  DEF Handle
<1>3. CASE UNCHANGED bridgeVars
  BY <1>3
  DEF BridgeInv, ThreadsOK, DataOK, PipeInv, PipeEmpty, PipeAsks, PipeAnswers, Answers,
      NothingLeft, HoldsResponse, ResponseIsOwn, bridgeVars, workerVars, handlerVars
<1>4. QED
  BY <1>1, <1>2, <1>3 DEF BridgeNext

-----------------------------------------------------------------------------
\* One thread at a time is inside the lock, and a line is under way only while it reads.
THEOREM LockDiscipline == BridgeSpec => []BridgeTypeOK
  BY InvImpliesType, InitBridge, BridgeStep, PTL DEF BridgeSpec

\* Every handler answers with the worker's response to its own request.
THEOREM ResponsesOwn == BridgeSpec => []ResponseIsOwn
<1>1. BridgeInv => ResponseIsOwn
  BY DEF BridgeInv
<1>2. QED
  BY <1>1, InitBridge, BridgeStep, PTL DEF BridgeSpec

-----------------------------------------------------------------------------
(* The cache.  Telemetry on its way to the cache is the worker's latest;   *)
(* the cache is, too, or it is cleared, or somebody is about to set it.    *)

NewsIsLatest ==
    /\ stdout # <<>> /\ Head(stdout).command = "execute" =>
          Head(stdout).telemetry = ReadTelemetry(rtl)
    /\ \A t \in Thread : stage[t] = "caching" /\ response[t].command = "execute" =>
          response[t].telemetry = ReadTelemetry(rtl)

AboutToSet(t) ==
    \/ stage[t] \in {"caching", "clearing"}
    \/ stage[t] = "releasing" /\ payload[t].command = "reset"
    \/ stage[t] = "reading" /\ stdout # <<>>

CacheFollows ==
    process = "running" /\ executed =>
        telemetry \in {ReadTelemetry(rtl), Zeros} \/ \E t \in Thread : AboutToSet(t)

IdleWithoutServer == process = "none" => \A t \in Thread : stage[t] = "idle"

CacheInv == BridgeInv /\ NewsIsLatest /\ CacheFollows /\ IdleWithoutServer

LEMMA InitCache == BridgeInit => CacheInv
<1>1. BridgeInit => NewsIsLatest /\ CacheFollows /\ IdleWithoutServer
  BY DEF BridgeInit, NewsIsLatest, CacheFollows, IdleWithoutServer
<1>2. QED
  BY <1>1, InitBridge DEF CacheInv

LEMMA ServerCache ==
    ASSUME CacheInv, Start \/ Stop \/ WorkerExits
    PROVE  NewsIsLatest' /\ CacheFollows' /\ IdleWithoutServer'
<1>1. CASE Start
  BY <1>1 DEF CacheInv, NewsIsLatest, CacheFollows, IdleWithoutServer, Start, handlerVars
<1>2. CASE Stop
  BY <1>2 DEF CacheInv, NewsIsLatest, CacheFollows, IdleWithoutServer, Stop, handlerVars
<1>3. CASE WorkerExits
  BY <1>3 DEF CacheInv, NewsIsLatest, CacheFollows, IdleWithoutServer, WorkerExits, handlerVars
<1>4. QED
  BY <1>1, <1>2, <1>3

LEMMA WorkerCache ==
    ASSUME CacheInv, WorkerAnswers
    PROVE  NewsIsLatest' /\ CacheFollows' /\ IdleWithoutServer'
<1>1. PipeAsks
  BY DEF CacheInv, BridgeInv, PipeInv, PipeEmpty, PipeAnswers, WorkerAnswers
<1>2. /\ stage[lock] = "reading" /\ lock \in Thread
      /\ \A t \in Thread : stage[t] # "caching"
  BY <1>1 DEF PipeAsks, CacheInv, BridgeInv, ThreadsOK, InLock
<1>3. PICK r : /\ stdout' = <<r>>
               /\ r.command = "execute" => r.telemetry = ReadTelemetry(rtl')
  <2>1. stdout' = <<Reset>> \/ \E r : stdout' = <<r>> /\ r.telemetry = ReadTelemetry(rtl')
    BY <1>1 DEF WorkerAnswers, PipeAsks
  <2>2. QED
    BY <2>1 DEF Reset
<1>4. stdout' # <<>> /\ Head(stdout') = r
  BY <1>3
<1>5. NewsIsLatest'
  BY <1>2, <1>3, <1>4 DEF NewsIsLatest, WorkerAnswers, handlerVars
<1>6. AboutToSet(lock)'
  BY <1>2, <1>4 DEF AboutToSet, WorkerAnswers, handlerVars
<1>7. CacheFollows' /\ IdleWithoutServer'
  BY <1>2, <1>6 DEF CacheFollows, AboutToSet, CacheInv, IdleWithoutServer, WorkerAnswers, handlerVars
<1>8. QED
  BY <1>5, <1>7

\* A step of one handler sets the cache, or leaves it and whoever is about to.
LEMMA HandlerCache ==
    ASSUME CacheInv, NEW t \in Thread, (\E p \in Payload : Begin(t, p)) \/ Handle(t)
    PROVE  NewsIsLatest' /\ CacheFollows' /\ IdleWithoutServer'
<1> USE DEF CacheInv, At, Goto
<1>0. /\ stage \in [Thread -> InLock \union {"idle", "waiting", "clearing"}]
      /\ response \in [Thread -> Response \union {Pending, Error}]
      /\ payload \in [Thread -> Payload]
  BY DEF BridgeInv, ThreadsOK
<1>1. ASSUME NEW p \in Payload, Begin(t, p)
      PROVE  NewsIsLatest' /\ CacheFollows' /\ IdleWithoutServer'
  BY <1>0, <1>1
  DEF NewsIsLatest, CacheFollows, AboutToSet, IdleWithoutServer, Begin, workerVars
<1>2. CASE Acquire(t)
  BY <1>0, <1>2
  DEF NewsIsLatest, CacheFollows, AboutToSet, IdleWithoutServer, Acquire, workerVars
<1>3. ASSUME Fail(t), stage[t] \in {"checking", "writing"} \/ (stage[t] = "reading" /\ stdout = <<>>)
      PROVE  NewsIsLatest' /\ CacheFollows' /\ IdleWithoutServer'
  BY <1>0, <1>3
  DEF NewsIsLatest, CacheFollows, AboutToSet, IdleWithoutServer, Fail, workerVars
<1>4. CASE Poll(t)
  BY <1>0, <1>3, <1>4
  DEF NewsIsLatest, CacheFollows, AboutToSet, IdleWithoutServer, Poll, workerVars
<1>5. CASE Write(t)
  BY <1>0, <1>3, <1>5
  DEF NewsIsLatest, CacheFollows, AboutToSet, IdleWithoutServer, Write
<1>6. CASE ReadLine(t)
  <2>1. stage'[t] = "caching" /\ response'[t] = Head(stdout) /\ IdleWithoutServer'
    BY <1>0, <1>6 DEF ReadLine, IdleWithoutServer
  <2>2. stdout' = <<>>
    BY <1>6 DEF ReadLine, BridgeInv, PipeInv, PipeEmpty, PipeAsks, PipeAnswers
  <2>3. NewsIsLatest'
    BY <1>0, <1>6, <2>1, <2>2 DEF NewsIsLatest, ReadLine
  <2>4. CacheFollows'
    BY <1>6, <2>1 DEF CacheFollows, AboutToSet, ReadLine
  <2>5. QED
    BY <2>1, <2>3, <2>4
<1>7. CASE ReadEnd(t)
  BY <1>3, <1>7 DEF ReadEnd
<1>8. CASE Cache(t)
  <2>1. /\ stage'[t] = "releasing" /\ NewsIsLatest' /\ IdleWithoutServer'
    BY <1>0, <1>8 DEF NewsIsLatest, IdleWithoutServer, Cache, workerVars
  <2>2. CASE response[t].command = "execute"
    BY <1>8, <2>1, <2>2 DEF NewsIsLatest, CacheFollows, Cache, workerVars
  <2>3. CASE response[t].command # "execute"
    <3>1. payload[t].command = "reset"
      BY <1>0, <1>8, <2>3
      DEF BridgeInv, HoldsResponse, ResponseIsOwn, Cache, Pending, Error, Payload, Response, Reset
    <3>2. AboutToSet(t)'
      BY <1>8, <2>1, <3>1 DEF AboutToSet, Cache
    <3>3. QED
      BY <2>1, <3>2 DEF CacheFollows
  <2>4. QED
    BY <2>1, <2>2, <2>3
<1>9. CASE Release(t)
  BY <1>0, <1>9
  DEF NewsIsLatest, CacheFollows, AboutToSet, IdleWithoutServer, Release, workerVars
<1>10. CASE ClearCache(t)
  BY <1>0, <1>10
  DEF NewsIsLatest, CacheFollows, IdleWithoutServer, ClearCache, workerVars
<1>11. QED
  BY <1>1, <1>2, <1>4, <1>5, <1>6, <1>7, <1>8, <1>9, <1>10 DEF Handle

LEMMA CacheKept == CacheInv /\ [BridgeNext]_bridgeVars => CacheInv'
<1> SUFFICES ASSUME CacheInv, [BridgeNext]_bridgeVars PROVE CacheInv'
  OBVIOUS
<1>1. BridgeInv'
  BY BridgeStep DEF CacheInv
<1>2. CASE Start \/ Stop \/ WorkerExits \/ WorkerAnswers
  BY <1>1, <1>2, ServerCache, WorkerCache DEF CacheInv
<1>3. ASSUME NEW t \in Thread, (\E p \in Payload : Begin(t, p)) \/ Handle(t)
      PROVE  CacheInv'
  BY <1>1, <1>3, HandlerCache DEF CacheInv
<1>4. CASE UNCHANGED bridgeVars
  BY <1>1, <1>4
  DEF CacheInv, NewsIsLatest, CacheFollows, AboutToSet, IdleWithoutServer,
      bridgeVars, workerVars, handlerVars
<1>5. QED
  BY <1>2, <1>3, <1>4 DEF BridgeNext

\* In a quiet moment the cache holds what the worker's registers hold now, or nothing.
THEOREM CacheLatest == BridgeSpec => []CacheIsLatestOrCleared
<1>1. CacheInv => CacheIsLatestOrCleared
  BY DEF CacheInv, CacheFollows, AboutToSet, CacheIsLatestOrCleared
<1>2. QED
  BY <1>1, InitCache, CacheKept, PTL DEF BridgeSpec
-----------------------------------------------------------------------------
(* The service.  Only the thread inside the lock can have been answered,   *)
(* so the worker's step is the instant at which that thread is served, and *)
(* a failure ends a handler that has not been.                             *)

Phase == [t \in Thread |-> PhaseOf(t)]
Reply == [t \in Thread |-> IF Answered(t) THEN Head(stdout) ELSE response[t]]

OneAnswered == \A t \in Thread : Answered(t) => lock = t

LEMMA AnsweredHasLock == BridgeInv => OneAnswered
  BY DEF BridgeInv, ThreadsOK, OneAnswered, Answered, InLock

LEMMA InitService == BridgeInit => Service!ServiceInit
<1> SUFFICES ASSUME BridgeInit PROVE Service!ServiceInit
  OBVIOUS
<1>1. Phase = [t \in Thread |-> "idle"] /\ Reply = [t \in Thread |-> Pending]
  BY DEF BridgeInit, Phase, Reply, PhaseOf, Answered
<1>2. payload \in [Thread -> Payload]
  BY DEF BridgeInit, Payload
<1>3. QED
  BY <1>1, <1>2 DEF BridgeInit, Service!ServiceInit, Phase, Reply

\* A step that keeps what callers and the device see is a step of nobody.
LEMMA Unseen ==
    ASSUME Phase' = Phase, Reply' = Reply, UNCHANGED <<rtl, payload>>
    PROVE  UNCHANGED Service!serviceVars
  BY DEF Service!serviceVars, Phase, Reply

LEMMA ServerService ==
    ASSUME CacheInv, Start \/ Stop \/ WorkerExits
    PROVE  [Service!ServiceNext]_Service!serviceVars
<1>1. CASE Start
  <2>1. \A t \in Thread : stage[t] = "idle"
    BY <1>1 DEF CacheInv, IdleWithoutServer, Start
  <2>2. (\A t \in Thread : Phase[t] = "idle") /\ Phase' = Phase /\ Reply' = Reply
    BY <1>1, <2>1 DEF Start, handlerVars, Phase, Reply, PhaseOf, Answered
  <2>3. Service!Restart
    BY <1>1, <2>2 DEF Service!Restart, Start, handlerVars, Phase, Reply
  <2>4. QED
    BY <2>3 DEF Service!ServiceNext
<1>2. CASE Stop
  <2>1. Phase' = Phase /\ Reply' = Reply
    BY <1>2 DEF Stop, handlerVars, Phase, Reply, PhaseOf, Answered
  <2>2. QED
    BY <1>2, <2>1, Unseen DEF Stop, handlerVars
<1>3. CASE WorkerExits
  <2>1. Phase' = Phase /\ Reply' = Reply
    BY <1>3 DEF WorkerExits, handlerVars, Phase, Reply, PhaseOf, Answered
  <2>2. QED
    BY <1>3, <2>1, Unseen DEF WorkerExits, handlerVars
<1>4. QED
  BY <1>1, <1>2, <1>3

LEMMA WorkerService ==
    ASSUME BridgeInv, WorkerAnswers
    PROVE  \E t \in Thread : Service!Serve(t)
<1>1. PipeAsks
  BY DEF BridgeInv, PipeInv, PipeEmpty, PipeAnswers, WorkerAnswers
<1>2. lock \in Thread /\ payload[lock] \in Payload /\ Head(stdin) = payload[lock]
  BY <1>1 DEF PipeAsks, BridgeInv, ThreadsOK
<1>3. rtl' = RtlAfter(rtl, payload[lock])
  BY <1>2 DEF WorkerAnswers, RtlAfter, Payload, Reset
<1>4. stdout' = <<RtlAnswer(rtl', payload[lock])>>
  BY <1>1, <1>2 DEF WorkerAnswers, PipeAsks, RtlAnswer, Payload, Reset
<1>5. stage' = stage /\ response' = response /\ payload' = payload /\ lock' = lock
  BY DEF WorkerAnswers, handlerVars
<1>6. \A t \in Thread : t # lock => stage[t] # "reading"
  BY DEF BridgeInv, ThreadsOK, InLock
<1>7. Phase[lock] = "asked" /\ Phase' = [Phase EXCEPT ![lock] = "served"]
  BY <1>1, <1>2, <1>4, <1>5, <1>6 DEF Phase, PhaseOf, Answered, PipeAsks
<1>8. Reply' = [Reply EXCEPT ![lock] = RtlAnswer(rtl', payload[lock])]
  <2> DEFINE a == RtlAnswer(rtl', payload[lock])
  <2> HIDE DEF a
  <2>1. stdout' # <<>> /\ Head(stdout') = a
    BY <1>4 DEF a
  <2>2. Answered(lock)' /\ \A t \in Thread : t # lock => ~Answered(t) /\ ~Answered(t)'
    BY <1>1, <1>2, <1>5, <1>6, <2>1 DEF Answered, PipeAsks
  <2>3. Reply' = [Reply EXCEPT ![lock] = a]
    BY <1>2, <1>5, <2>1, <2>2 DEF Reply
  <2>4. QED
    BY <2>3 DEF a
<1>9. PICK t \in Thread : t = lock
  BY <1>2
<1>10. Service!Serve(t)
  BY <1>3, <1>5, <1>7, <1>8, <1>9 DEF Service!Serve, Phase, Reply
<1>11. QED
  BY <1>10

\* A handler that fails has not been served.
LEMMA FailService ==
    ASSUME BridgeInv, NEW t \in Thread, Fail(t), stage[t] \in {"checking", "writing", "reading"},
           ~Answered(t)
    PROVE  Service!Refuse(t)
<1>1. stage \in [Thread -> InLock \union {"idle", "waiting", "clearing"}]
      /\ response \in [Thread -> Response \union {Pending, Error}]
  BY DEF BridgeInv, ThreadsOK
<1>2. /\ stage' = [stage EXCEPT ![t] = "idle"] /\ response' = [response EXCEPT ![t] = Error]
      /\ rtl' = rtl /\ payload' = payload /\ stdout' = stdout
  BY DEF Fail, Goto, workerVars
<1>3. Phase[t] = "asked" /\ Phase' = [Phase EXCEPT ![t] = "idle"]
  BY <1>1, <1>2 DEF Phase, PhaseOf, Answered
<1>4. Reply' = [Reply EXCEPT ![t] = Error]
  BY <1>1, <1>2 DEF Reply, Answered
<1>5. QED
  BY <1>2, <1>3, <1>4 DEF Service!Refuse, Phase, Reply

LEMMA HandlerService ==
    ASSUME BridgeInv, NEW t \in Thread, Handle(t)
    PROVE  [Service!ServiceNext]_Service!serviceVars
<1> USE DEF At, Goto
<1>1. /\ stage \in [Thread -> InLock \union {"idle", "waiting", "clearing"}]
      /\ response \in [Thread -> Response \union {Pending, Error}]
      /\ payload \in [Thread -> Payload]
  BY DEF BridgeInv, ThreadsOK
<1>2. ASSUME Fail(t), stage[t] \in {"checking", "writing", "reading"}, ~Answered(t)
      PROVE  Service!ServiceNext
  BY <1>2, FailService DEF Service!ServiceNext, Service!Attend
<1>3. CASE Acquire(t)
  <2>1. Phase' = Phase /\ Reply' = Reply
    BY <1>1, <1>3 DEF Acquire, workerVars, Phase, Reply, PhaseOf, Answered
  <2>2. QED
    BY <1>3, <2>1, Unseen DEF Acquire, workerVars
<1>4. CASE Poll(t)
  <2>1. stage[t] = "checking" /\ ~Answered(t)
    BY <1>4 DEF Poll, Answered
  <2>2. CASE Fail(t)
    BY <1>2, <2>1, <2>2
  <2>3. CASE stage' = [stage EXCEPT ![t] = "writing"]
             /\ UNCHANGED <<workerVars, payload, response, lock, telemetry, requests, starts>>
    <3>1. Phase' = Phase /\ Reply' = Reply
      BY <1>1, <2>1, <2>3 DEF workerVars, Phase, Reply, PhaseOf, Answered
    <3>2. QED
      BY <2>3, <3>1, Unseen DEF workerVars
  <2>4. QED
    BY <1>4, <2>2, <2>3 DEF Poll
<1>5. CASE Write(t)
  <2>1. stage[t] = "writing" /\ ~Answered(t) /\ stdout = <<>>
    <3>1. lock = t
      BY <1>1, <1>5 DEF Write, BridgeInv, ThreadsOK, InLock
    <3>2. QED
      BY <1>5, <3>1 DEF Write, Answered, BridgeInv, PipeInv, PipeEmpty, PipeAsks, PipeAnswers
  <2>2. CASE Fail(t)
    BY <1>2, <2>1, <2>2
  <2>3. CASE /\ stage' = [stage EXCEPT ![t] = "reading"]
             /\ UNCHANGED <<process, stdout, rtl, executed>>
             /\ UNCHANGED <<payload, response, lock, telemetry, requests, starts>>
    <3>1. Phase' = Phase /\ Reply' = Reply
      BY <1>1, <2>1, <2>3 DEF Phase, Reply, PhaseOf, Answered
    <3>2. QED
      BY <2>3, <3>1, Unseen
  <2>4. QED
    BY <1>5, <2>2, <2>3 DEF Write
<1>6. CASE ReadLine(t)
  <2>1. lock = t /\ Answered(t) /\ OneAnswered
    BY <1>1, <1>6, AnsweredHasLock DEF ReadLine, Answered, BridgeInv, ThreadsOK, InLock
  <2>2. stdout' = <<>>
    <3>1. PICK r \in Response : stdout = <<r>>
      BY <1>6 DEF ReadLine, BridgeInv, PipeInv, PipeEmpty, PipeAsks, PipeAnswers
    <3>2. QED
      BY <1>6, <3>1 DEF ReadLine
  <2>3. Phase' = Phase
    BY <1>1, <1>6, <2>1, <2>2 DEF ReadLine, Phase, PhaseOf, Answered, OneAnswered
  <2>4. Reply' = Reply
    BY <1>1, <1>6, <2>1, <2>2 DEF ReadLine, Reply, Answered, OneAnswered
  <2>5. QED
    BY <1>6, <2>3, <2>4, Unseen DEF ReadLine
<1>7. CASE ReadEnd(t)
  BY <1>2, <1>7 DEF ReadEnd, Answered
<1>8. CASE Cache(t)
  <2>1. Phase' = Phase /\ Reply' = Reply
    BY <1>1, <1>8 DEF Cache, workerVars, Phase, Reply, PhaseOf, Answered
  <2>2. QED
    BY <1>8, <2>1, Unseen DEF Cache, workerVars
<1>9. CASE Release(t) /\ payload[t].command = "reset"
  <2>1. Phase' = Phase /\ Reply' = Reply
    BY <1>1, <1>9 DEF Release, workerVars, Phase, Reply, PhaseOf, Answered
  <2>2. QED
    BY <1>9, <2>1, Unseen DEF Release, workerVars
<1>10. ASSUME stage[t] \in {"releasing", "clearing"}, stage' = [stage EXCEPT ![t] = "idle"],
              UNCHANGED <<workerVars, payload, response>>
       PROVE  Service!ServiceNext
  <2>1. /\ Phase[t] = "served" /\ Phase' = [Phase EXCEPT ![t] = "idle"] /\ Reply' = Reply
    BY <1>1, <1>10 DEF workerVars, Phase, Reply, PhaseOf, Answered
  <2>2. Service!Conclude(t)
    BY <1>10, <2>1 DEF workerVars, Service!Conclude, Phase, Reply
  <2>3. QED
    BY <2>2 DEF Service!ServiceNext, Service!Attend
<1>11. CASE Release(t) /\ payload[t].command # "reset"
  BY <1>10, <1>11 DEF Release
<1>12. CASE ClearCache(t)
  BY <1>10, <1>12 DEF ClearCache
<1>13. QED
  BY <1>3, <1>4, <1>5, <1>6, <1>7, <1>8, <1>9, <1>11, <1>12 DEF Handle

LEMMA BeginService ==
    ASSUME BridgeInv, NEW t \in Thread, NEW p \in Payload, Begin(t, p)
    PROVE  Service!Ask(t, p)
<1>1. stage \in [Thread -> InLock \union {"idle", "waiting", "clearing"}]
      /\ response \in [Thread -> Response \union {Pending, Error}]
  BY DEF BridgeInv, ThreadsOK
<1>2. Phase[t] = "idle" /\ Phase' = [Phase EXCEPT ![t] = "asked"]
  BY <1>1 DEF Begin, At, Goto, workerVars, Phase, PhaseOf, Answered
<1>3. Reply' = [Reply EXCEPT ![t] = Pending]
  BY <1>1 DEF Begin, At, Goto, workerVars, Reply, Answered
<1>4. QED
  BY <1>2, <1>3 DEF Begin, workerVars, Service!Ask, Phase, Reply

LEMMA ServiceStep ==
    CacheInv /\ [BridgeNext]_bridgeVars => [Service!ServiceNext]_Service!serviceVars
<1> SUFFICES ASSUME CacheInv, [BridgeNext]_bridgeVars
             PROVE  [Service!ServiceNext]_Service!serviceVars
  OBVIOUS
<1>1. CASE Start \/ Stop \/ WorkerExits
  BY <1>1, ServerService
<1>2. CASE WorkerAnswers
  <2>1. PICK t \in Thread : Service!Serve(t)
    BY <1>2, WorkerService DEF CacheInv
  <2>2. QED
    BY <2>1 DEF Service!ServiceNext, Service!Attend
<1>3. ASSUME NEW t \in Thread, NEW p \in Payload, Begin(t, p)
      PROVE  Service!ServiceNext
  BY <1>3, BeginService DEF CacheInv, Service!ServiceNext
<1>4. ASSUME NEW t \in Thread, Handle(t)
      PROVE  [Service!ServiceNext]_Service!serviceVars
  BY <1>4, HandlerService DEF CacheInv
<1>5. CASE UNCHANGED bridgeVars
  <2>1. Phase' = Phase /\ Reply' = Reply
    BY <1>5 DEF bridgeVars, workerVars, handlerVars, Phase, Reply, PhaseOf, Answered
  <2>2. QED
    BY <1>5, <2>1, Unseen DEF bridgeVars, workerVars, handlerVars
<1>6. QED
  BY <1>1, <1>2, <1>3, <1>4, <1>5 DEF BridgeNext

\* The bridge implements the service: every request takes effect once, at one instant
\* between its arrival and its answer, or is refused and never does.
THEOREM BridgeImplementsService == BridgeSpec => RefinesService
  BY InitService, ServiceStep, InitCache, CacheKept, PTL
  DEF BridgeSpec, RefinesService, Service!ServiceSpec
=============================================================================
