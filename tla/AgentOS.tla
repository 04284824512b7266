------------------------------ MODULE AgentOS -------------------------------
(***************************************************************************)
(* The reference monitor for agents: what may be granted, delegated,       *)
(* revoked and approved, and what check() decides and records.  A call     *)
(* that the monitor refuses raises an exception and changes nothing, so    *)
(* it is the absence of a step; only check() records its refusals.         *)
(***************************************************************************)
EXTENDS Integers, Sequences, FiniteSets

CONSTANTS
    AgentId, ResourceId, TokenId,
    Path,               \* of resources and of the roots agents are confined to
    WithinScope(_, _),  \* root, path: the path is relative to the root
    Permission,
    DELEGATE,           \* the permission to delegate
    Dangerous,          \* operations that a human has to approve
    Grants,             \* the tokens that may be granted
    MaxTime,            \* bound on the clock
    MaxChecks           \* bound on the audit log

Time  == 0 .. MaxTime
Never == MaxTime + 1    \* the expiry of a token that does not expire

Token == [issuer : AgentId, subject : AgentId, resource : ResourceId,
          permissions : SUBSET Permission, expiresAt : 0 .. Never,
          uses : Nat \union {-1}, revoked : BOOLEAN]

Unlimited == -1         \* uses_remaining of a token without a quota

ASSUME PolicyAssumption ==
    /\ MaxTime \in Nat /\ MaxChecks \in Nat
    /\ DELEGATE \in Permission /\ Dangerous \subseteq Permission
    /\ Grants \subseteq Token

Decision == {"allow", "deny", "require-human"}

\* An audit record, with the instant at which the token was looked up in place of the
\* record's own timestamp, which a second read of the clock gives.
AuditEvent == [at : Time, agent : AgentId, resource : ResourceId,
               operation : Permission, decision : Decision, token : TokenId]

VARIABLES
    agents,         \* resource_root of each registered agent
    resources,      \* path of each registered resource
    tokens,         \* the tokens by id
    revokedTokens, approvedTokens,
    auditLog,
    now,            \* the clock the monitor reads
    granted         \* every token granted so far, for the properties only

monitorVars == <<agents, resources, tokens, revokedTokens, approvedTokens, auditLog, now>>
agentosVars == <<monitorVars, granted>>

AgentOSInit ==
    /\ agents = <<>> /\ resources = <<>> /\ tokens = <<>>
    /\ revokedTokens = {} /\ approvedTokens = {}
    /\ auditLog = <<>> /\ now = 0 /\ granted = {}

\* A dictionary after an assignment to one of its keys.
Assigned(dict, key, value) ==
    [k \in DOMAIN dict \union {key} |-> IF k = key THEN value ELSE dict[k]]

-----------------------------------------------------------------------------
RegisterAgent(a, root) ==
    /\ agents' = Assigned(agents, a, root)
    /\ UNCHANGED <<resources, tokens, revokedTokens, approvedTokens, auditLog, now, granted>>

RegisterResource(r, path) ==
    /\ resources' = Assigned(resources, r, path)
    /\ UNCHANGED <<agents, tokens, revokedTokens, approvedTokens, auditLog, now, granted>>

KnownParties(token) == {token.issuer, token.subject} \subseteq DOMAIN agents

Grant(id, token) ==
    /\ KnownParties(token)
    /\ token.resource \in DOMAIN resources
    /\ tokens' = Assigned(tokens, id, token)
    /\ granted' = granted \union {token}
    /\ UNCHANGED <<agents, resources, revokedTokens, approvedTokens, auditLog, now>>

\* Fault: revocation is a flag of the token alone.
ActiveToken_FlagOnly(id) ==
    /\ id \in DOMAIN tokens /\ ~tokens[id].revoked
    /\ now < tokens[id].expiresAt

ActiveToken(id) ==
    /\ id \in DOMAIN tokens /\ ~tokens[id].revoked /\ id \notin revokedTokens
    /\ now < tokens[id].expiresAt

\* A quota is compared with the parent's only when both have one.
QuotaFits(uses, parent) ==
    uses = Unlimited \/ parent.uses = Unlimited \/ uses <= parent.uses

\* The token a delegation issues.
Child(parent, agent, permissions, uses) ==
    [parent EXCEPT !.issuer = parent.subject, !.subject = agent,
                   !.permissions = permissions, !.uses = uses, !.revoked = FALSE]

\* Fault: the right to delegate can be delegated.
MayDelegate_Redelegable(parent, permissions) ==
    DELEGATE \in parent.permissions /\ permissions \subseteq parent.permissions

MayDelegate(parent, permissions) ==
    DELEGATE \in parent.permissions /\ permissions \subseteq parent.permissions \ {DELEGATE}

\* The id of the child is fresh.
Delegate(parentId, id, agent, permissions, uses) ==
    /\ ActiveToken(parentId)
    /\ agent \in DOMAIN agents
    /\ MayDelegate(tokens[parentId], permissions)
    /\ QuotaFits(uses, tokens[parentId])
    /\ id \notin DOMAIN tokens
    /\ tokens' = Assigned(tokens, id, Child(tokens[parentId], agent, permissions, uses))
    /\ UNCHANGED <<agents, resources, revokedTokens, approvedTokens, auditLog, now, granted>>

Revoke(id) ==
    /\ ActiveToken(id)
    /\ revokedTokens' = revokedTokens \union {id}
    /\ UNCHANGED <<agents, resources, tokens, approvedTokens, auditLog, now, granted>>

Approve(id) ==
    /\ ActiveToken(id)
    /\ approvedTokens' = approvedTokens \union {id}
    /\ UNCHANGED <<agents, resources, tokens, revokedTokens, auditLog, now, granted>>

Authorized(a, r, operation, id) ==
    /\ a \in DOMAIN agents /\ r \in DOMAIN resources
    /\ WithinScope(agents[a], resources[r])
    /\ ActiveToken(id)
    /\ tokens[id].subject = a /\ tokens[id].resource = r
    /\ operation \in tokens[id].permissions

DecisionOn(a, r, operation, id) ==
    CASE ~Authorized(a, r, operation, id) -> "deny"
      [] /\ Authorized(a, r, operation, id)
         /\ operation \in Dangerous /\ id \notin approvedTokens -> "require-human"
      [] OTHER -> "allow"

\* A check without a token is decided like one with an unknown token.
Check(a, r, operation, id) ==
    /\ Len(auditLog) < MaxChecks
    /\ auditLog' = Append(auditLog,
           [at |-> now, agent |-> a, resource |-> r, operation |-> operation,
            decision |-> DecisionOn(a, r, operation, id), token |-> id])
    /\ UNCHANGED <<agents, resources, tokens, revokedTokens, approvedTokens, now, granted>>

\* Time passes between calls.
TimePasses ==
    /\ now < MaxTime
    /\ now' = now + 1
    /\ UNCHANGED <<agents, resources, tokens, revokedTokens, approvedTokens, auditLog, granted>>

AgentOSNext ==
    \/ \E a \in AgentId, root \in Path : RegisterAgent(a, root)
    \/ \E r \in ResourceId, path \in Path : RegisterResource(r, path)
    \/ \E id \in TokenId, token \in Grants : Grant(id, token)
    \/ \E parentId, id \in TokenId, a \in AgentId, p \in SUBSET Permission,
          uses \in {token.uses : token \in Grants} : Delegate(parentId, id, a, p, uses)
    \/ \E id \in TokenId : Revoke(id) \/ Approve(id)
    \/ \E a \in AgentId, r \in ResourceId, operation \in Permission, id \in TokenId :
          Check(a, r, operation, id)
    \/ TimePasses

AgentOSSpec == AgentOSInit /\ [][AgentOSNext]_agentosVars

-----------------------------------------------------------------------------
(* Properties.                                                             *)

\* The shape of the tables; a token names registered agents and resources only.
AgentOSTypeOK ==
    /\ DOMAIN agents \subseteq AgentId /\ \A a \in DOMAIN agents : agents[a] \in Path
    /\ DOMAIN resources \subseteq ResourceId
    /\ \A r \in DOMAIN resources : resources[r] \in Path
    /\ DOMAIN tokens \subseteq TokenId /\ \A id \in DOMAIN tokens : tokens[id] \in Token
    /\ \A id \in DOMAIN tokens :
          /\ {tokens[id].issuer, tokens[id].subject} \subseteq DOMAIN agents
          /\ tokens[id].resource \in DOMAIN resources
    /\ revokedTokens \subseteq TokenId /\ approvedTokens \subseteq TokenId
    /\ auditLog \in Seq(AuditEvent)
    /\ now \in Time
    /\ granted \subseteq Token

\* Whatever the audit log says was not denied can be traced to one grant: of that
\* operation on that resource, not expired at the time, and made to the agent itself or
\* to one that held the right to delegate, which is never passed on.  No sequence of
\* registrations, grants, delegations, expiries and grants under used ids gives an agent
\* more.
AuthorityFromGrants ==
    \A k \in DOMAIN auditLog :
        LET e == auditLog[k]
        IN  e.decision # "deny" =>
                \E g \in granted :
                    /\ g.resource = e.resource /\ e.operation \in g.permissions
                    /\ e.at < g.expiresAt
                    /\ \/ g.subject = e.agent
                       \/ DELEGATE \in g.permissions /\ e.operation # DELEGATE

\* Revocation is immediate and final: a check with a revoked id is denied, also when
\* a new token has been granted under it.
RevocationFinal ==
    [][ \A id \in revokedTokens :
            auditLog' # auditLog /\ auditLog'[Len(auditLog')].token = id =>
                auditLog'[Len(auditLog')].decision = "deny" ]_agentosVars

\* A token with a quota is used no more often than its quota says.
QuotaIsSpent ==
    \A id \in DOMAIN tokens :
        LET uses == {k \in DOMAIN auditLog :
                        auditLog[k].token = id /\ auditLog[k].decision = "allow"}
        IN  tokens[id].uses # Unlimited => Cardinality(uses) <= tokens[id].uses
=============================================================================
