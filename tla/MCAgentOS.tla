----------------------------- MODULE MCAgentOS ------------------------------
(***************************************************************************)
(* AgentOS for TLC: a manager and a coder, one resource in or out of their *)
(* scope, two token ids, an operation that needs approval and one that     *)
(* does not.                                                               *)
(***************************************************************************)
EXTENDS AgentOS

MCPermission == {"READ", "DELETE", "DELEGATE"}

MCWithinScope(root, path) == root = path

\* The manager's own token, which expires and has a quota, and one that it could be
\* given later under the same id.
MCGrants ==
    {[issuer |-> "manager", subject |-> "manager", resource |-> "source",
      permissions |-> {"DELETE", "DELEGATE"}, expiresAt |-> 1, uses |-> 1, revoked |-> FALSE],
     [issuer |-> "manager", subject |-> "coder", resource |-> "source",
      permissions |-> {"READ"}, expiresAt |-> Never, uses |-> Unlimited, revoked |-> FALSE]}
=============================================================================
