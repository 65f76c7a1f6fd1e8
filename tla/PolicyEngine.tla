---------------------------- MODULE PolicyEngine ----------------------------
(***************************************************************************)
(* Who may do what: identities (kernel/identity.py), their registry         *)
(* (kernel/registry.py) and the policy engine (kernel/policies.py), with the *)
(* default permission of the orchestrator's register_agent.                 *)
(*                                                                         *)
(* Every method is synchronous and is one step.  A scope is what its glob    *)
(* covers: Covers relates scopes to targets.  A capability is its name and  *)
(* the highest action class it reaches; action classes are 0 (L0) to 5 (L5).*)
(***************************************************************************)
EXTENDS Naturals, Sequences, FiniteSets, SequencesExt

CONSTANTS
    Agents, Names,
    Scopes, Targets, Covers,    \* Covers is a set of pairs <<scope, target>>
    All,                        \* the scope "*"
    Levels, Ranks,              \* bounds: action classes and trust ranks in use
    MaxTime,                    \* bound: the clock
    MaxChanges,                 \* bound: calls that change agents or permissions
    None

VARIABLES
    agent,      \* _agents: the identity of each agent, None before it is registered
    perms,      \* _permissions, in the order of the dictionary
    now,        \* the clock
    changes     \* calls so far

engine == <<agent, perms, now, changes>>

Capabilities == [Names -> Levels \cup {None}]
Never == MaxTime + 1

Identity == [caps : Capabilities, trust : Ranks, revoked : BOOLEAN]
Permission ==
    [agent : Agents, scope : Scopes, caps : SUBSET Names, approved : BOOLEAN,
     expires : 1 .. Never, limited : BOOLEAN]

Init ==
    /\ agent = [a \in Agents |-> None]
    /\ perms = <<>>
    /\ now = 0 /\ changes = 0

-----------------------------------------------------------------------------
(* Permissions.                                                            *)

SameKey(p, q) == p.agent = q.agent /\ p.scope = q.scope

\* issue replaces a permission with the same agent and scope where it stands.
Issued(p) ==
    IF \E q \in Range(perms) : SameKey(p, q)
    THEN [i \in DOMAIN perms |-> IF SameKey(p, perms[i]) THEN p ELSE perms[i]]
    ELSE Append(perms, p)

MutExpired(p) == now < p.expires

\* is_expired: at the moment of expiry the permission has lapsed.
Expired(p) == now >= p.expires

Matches(p, a, t) == p.agent = a /\ <<p.scope, t>> \in Covers

\* evaluate takes the first permission that covers the target, live or not.
Matched(a, t) ==
    LET all == SelectSeq(perms, LAMBDA p : Matches(p, a, t))
    IN  IF all = <<>> THEN None ELSE Head(all)

\* _human_gate_met: L5 needs an approval that is limited in time.
HumanGateMet(a, level, t) ==
    \E p \in Range(perms) : p.approved /\ Matches(p, a, t) /\ (level = 5 => p.limited)

RequiredTrust == <<0, 1, 2, 3, 3, 4>>

Reaches(a, name, level) == agent[a].caps[name] # None /\ agent[a].caps[name] >= level

\* evaluate: allowed when no reason speaks against it.
Allowed(a, level, t) ==
    /\ agent[a] # None /\ ~agent[a].revoked
    /\ agent[a].trust >= RequiredTrust[level + 1]
    /\ \E name \in Names : Reaches(a, name, level)
    /\ level >= 4 => HumanGateMet(a, level, t)
    /\ Matched(a, t) # None
    /\ ~Expired(Matched(a, t))
    /\ \E name \in Matched(a, t).caps : Reaches(a, name, level)

-----------------------------------------------------------------------------
(* What callers do.                                                        *)

Change == changes < MaxChanges /\ changes' = changes + 1

\* AgentRegistry.register: an id is used once.
Register(a, caps, trust) ==
    /\ Change /\ agent[a] = None
    /\ agent' = [agent EXCEPT ![a] = [caps |-> caps, trust |-> trust, revoked |-> FALSE]]
    /\ UNCHANGED <<perms, now>>

\* The orchestrator registers with capabilities up to L1 and permits them everywhere,
\* without limit.
RegisterAgent(a, names, trust) ==
    /\ Change /\ agent[a] = None
    /\ agent' = [agent EXCEPT ![a] =
          [caps |-> [n \in Names |-> IF n \in names THEN 1 ELSE None],
           trust |-> trust, revoked |-> FALSE]]
    /\ perms' = Issued([agent |-> a, scope |-> All, caps |-> names, approved |-> FALSE,
                        expires |-> Never, limited |-> FALSE])
    /\ UNCHANGED now

\* A permission expires at its absolute moment or, if it has a time limit, that long
\* after it was created, whichever is first.
Issue(p) ==
    /\ Change /\ (p.limited => p.expires # Never)
    /\ perms' = Issued(p)
    /\ UNCHANGED <<agent, now>>

\* revoke, and revoke_all for every scope.
Revoke(a, scopes) ==
    /\ Change
    /\ perms' = SelectSeq(perms, LAMBDA p : p.agent # a \/ p.scope \notin scopes)
    /\ perms' # perms
    /\ UNCHANGED <<agent, now>>

\* update_capabilities: a union keeps the ceilings that are there.
Merged(old, new) == [n \in Names |-> IF old[n] # None THEN old[n] ELSE new[n]]

UpdateCapabilities(a, caps, replace) ==
    /\ Change /\ agent[a] # None
    /\ agent' = [agent EXCEPT ![a].caps = IF replace THEN caps ELSE Merged(@, caps)]
    /\ UNCHANGED <<perms, now>>

RevokeCapability(a, n) ==
    /\ Change /\ agent[a] # None
    /\ agent' = [agent EXCEPT ![a].caps = [@ EXCEPT ![n] = None]]
    /\ UNCHANGED <<perms, now>>

\* AgentRegistry.revoke: for ever, the record is kept.
RevokeAgent(a) ==
    /\ Change /\ agent[a] # None /\ ~agent[a].revoked
    /\ agent' = [agent EXCEPT ![a].revoked = TRUE]
    /\ UNCHANGED <<perms, now>>

Tick == now < MaxTime /\ now' = now + 1 /\ UNCHANGED <<agent, perms, changes>>

Next ==
    \/ \E a \in Agents, caps \in Capabilities, r \in Ranks : Register(a, caps, r)
    \/ \E a \in Agents, names \in SUBSET Names, r \in Ranks : RegisterAgent(a, names, r)
    \/ \E p \in Permission : Issue(p)
    \/ \E a \in Agents, scopes \in {{s} : s \in Scopes} \cup {Scopes} : Revoke(a, scopes)
    \/ \E a \in Agents, caps \in Capabilities, replace \in BOOLEAN :
          UpdateCapabilities(a, caps, replace)
    \/ \E a \in Agents, n \in Names : RevokeCapability(a, n)
    \/ \E a \in Agents : RevokeAgent(a)
    \/ Tick

-----------------------------------------------------------------------------
(* Properties.                                                             *)

\* Two permissions of an agent never have the same scope, whatever is issued and
\* revoked; and what is allowed rests on one live permission that covers the target
\* and names a capability which the agent holds and which reaches the action, for L4
\* and L5 beside an approval of a human.
AuthorityBounded ==
    /\ \A i, j \in DOMAIN perms : SameKey(perms[i], perms[j]) => i = j
    /\ \A a \in Agents, l \in Levels, t \in Targets : Allowed(a, l, t) =>
          /\ l >= 4 => \E p \in Range(perms) : p.agent = a /\ p.approved
          /\ \E p \in Range(perms), n \in Names :
                /\ Matches(p, a, t) /\ now < p.expires
                /\ n \in p.caps /\ agent[a].caps[n] # None /\ agent[a].caps[n] >= l

\* What an agent may do grows only where somebody gave: it is new or got a capability
\* or a higher ceiling, a permission of it was issued, or the withdrawn permission was
\* the one that hid another.  Time gives nothing, and neither does a union with a
\* capability that it has; a revoked agent gets nothing back.
AuthorityGiven ==
    \A a \in Agents, l \in Levels, t \in Targets :
       ~Allowed(a, l, t) /\ Allowed(a, l, t)' /\ agent[a] # None =>
          /\ ~agent[a].revoked
          /\ \/ \E n \in Names : agent'[a].caps[n] # None /\
                   (agent[a].caps[n] = None \/ agent'[a].caps[n] > agent[a].caps[n])
             \/ \E p \in Range(perms') \ Range(perms) : p.agent = a
             \/ \E p \in Range(perms) \ Range(perms') : Matches(p, a, t)
=============================================================================
