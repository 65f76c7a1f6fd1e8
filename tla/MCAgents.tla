------------------------------ MODULE MCAgents ------------------------------
(***************************************************************************)
(* Small instances of the parts that make agents and let them work: the     *)
(* agent factory and the policies, tool loops and their audit log, evidence *)
(* and risk scores, bridges to other agents, the forge.                     *)
(* They share no state: the initial state chooses the one that moves, so    *)
(* their state spaces add up instead of multiplying, and the invariants of  *)
(* a component are evaluated only where it moves.                           *)
(***************************************************************************)
EXTENDS Naturals

CONSTANTS
    Factories, Blueprints, Actors, Skills, Prompts, Packs, Safety, MaxMoves, MaxCalls,
    Agents, Names, All, Staging, MaxTime, MaxChanges,
    Loops, Procs, Budget, MaxRestarts,
    Callers, Findings, Fields, Entries, Top, MaxRequests, MaxFaults, MaxStops,
    Transports, Calls, FailureThreshold, HalfOpenMax, SuccessThreshold, Dwell, MaxRetries,
    MaxRoutes, MaxCancels,
    Jobs, Branches, Paths, Protected, Dotted, Kinds, MaxEdits, MaxRounds, MaxRunning, MaxWrites, Base,
    None

\* The orchestrator gives every loop at least one tool call; None is no call id.
ASSUME ToolsAssumption ==
    /\ Budget \in Nat \ {0}
    /\ None \notin Loops \X Nat

\* CircuitBreakerConfig: failure_threshold is at least 1.
ASSUME BridgesAssumption == FailureThreshold \in Nat \ {0}

\* The checkout is no job's worktree; a file is one of the kinds the gates tell apart; None
\* is no job and no set of files.
ASSUME ForgeAssumption ==
    /\ Base \notin Jobs /\ None \notin Jobs
    /\ Kinds \subseteq {"clean", "lint", "danger", "broken", "opaque", "absent"}
    /\ None \notin [Paths -> {"clean", "lint", "danger", "broken", "opaque", "absent"}]
    /\ MaxEdits \in Nat

\* An agent with a name is not the one without; None is no name, no coroutine, no level of
\* evidence and no finding.
ASSUME FindbookAssumption ==
    /\ Top \in Nat \ {0}
    /\ None \notin Callers \cup Agents \cup 0 .. Top \cup [Fields -> Callers \cup {None}]
    /\ "unknown" \notin Agents

VARIABLES
    focus,
    row, events, ref, registry, kernel, runtime, lock, call, moves, calls,
    agent, perms, now, changes,
    strict, loop, suspended, conn, intents, outcomes, staged, restarts,
    evidence, scores, request, requests, faults, stops, acked,
    transport, registered, breaker, route, procs, closing, dropped, routed, cancels,
    tree, head, tips, job, writes

Scopes  == {All, Staging}
Targets == {"staging", "production"}
Covers  == {<<All, "staging">>, <<All, "production">>, <<Staging, "staging">>}
Levels  == {1, 4, 5}
Ranks   == {1, 4}

Agency   == INSTANCE AgentFactory WITH MaxChanges <- MaxMoves, changes <- moves
Policy   == INSTANCE PolicyEngine
Tools    == INSTANCE ToolCalls
Findbook == INSTANCE Evidence WITH call <- request, calls <- requests, MaxCalls <- MaxRequests
Bridge   == INSTANCE Bridges WITH call <- route, MaxCalls <- MaxRoutes
Smithy   == INSTANCE Forge

agency   == <<row, events, ref, registry, kernel, runtime, lock, call, moves, calls>>
policy   == <<agent, perms, now, changes>>
tools    == <<strict, loop, suspended, conn, intents, outcomes, staged, restarts>>
findbook == <<evidence, scores, request, requests, faults, stops, acked>>
bridge   == <<transport, registered, breaker, route, procs, closing, dropped, routed, cancels>>
smithy   == <<tree, head, tips, job, writes>>
vars     == <<focus, agency, policy, tools, findbook, bridge, smithy>>

MCInit ==
    /\ focus \in {"agency", "policy", "tools", "findbook", "bridge", "smithy"}
    /\ Agency!Init /\ (focus # "agency" => registry = [f \in Factories |-> f])
    /\ Policy!Init
    /\ Tools!Init /\ (focus # "tools" => strict = {})
    /\ Findbook!Init
    /\ Bridge!Init /\ (focus # "bridge" => transport = "claude")
    /\ Smithy!Init /\ (focus # "smithy" => \A p \in Paths : head[p] = "clean")

MCNext ==
    \/ /\ focus = "agency" /\ Agency!Next
       /\ UNCHANGED <<focus, policy, tools, findbook, bridge, smithy>>
    \/ /\ focus = "policy" /\ Policy!Next
       /\ UNCHANGED <<focus, agency, tools, findbook, bridge, smithy>>
    \/ /\ focus = "tools" /\ Tools!Next
       /\ UNCHANGED <<focus, agency, policy, findbook, bridge, smithy>>
    \/ /\ focus = "findbook" /\ Findbook!Next
       /\ UNCHANGED <<focus, agency, policy, tools, bridge, smithy>>
    \/ /\ focus = "bridge" /\ Bridge!Next
       /\ UNCHANGED <<focus, agency, policy, tools, findbook, smithy>>
    \/ /\ focus = "smithy" /\ Smithy!Next
       /\ UNCHANGED <<focus, agency, policy, tools, findbook, bridge>>

MCSpec == MCInit /\ [][MCNext]_vars

\* AgentFactory's IdentityGoverned (a live identity is the one the table names, approved
\* by somebody else than its creator, and what it pins was published), RevokedInProcess (a
\* revoked blueprint has no identity in the process that revoked it) and Provenance (every
\* change of status has its event, although two factories read before either writes);
\* PolicyEngine's AuthorityBounded and AuthorityGiven (what is allowed rests on a live
\* permission, and an agent's authority grows only by what somebody gives it).
AuthoritySound ==
    /\ [](focus = "agency" =>
              Agency!IdentityGoverned /\ Agency!RevokedInProcess /\ Agency!Provenance)
    /\ [](focus = "policy" => Policy!AuthorityBounded)
    /\ [][focus = "policy" => Policy!AuthorityGiven]_policy

\* ToolCalls' OneUncertainty (nothing is dispatched on top of a call whose effect is not
\* known, over all processes), AnswersAccounted (no answer hides a failed or unrecorded
\* call) and LoopBounded (every loop comes to its end).
ToolCallsSound ==
    focus = "tools" => Tools!OneUncertainty /\ Tools!AnswersAccounted /\ Tools!LoopBounded

\* Evidence's TrailDurable and TrailGrows (what add_evidence acknowledged is on disk, once,
\* and what is on disk stays), LadderSound (the level a finding reached agrees with its
\* history and with the rungs that are admitted next) and ScoresSound (the committed scores
\* and counts of an agent agree).
EvidenceSound ==
    /\ [](focus = "findbook" =>
              Findbook!TrailDurable /\ Findbook!LadderSound /\ Findbook!ScoresSound)
    /\ [][focus = "findbook" => Findbook!TrailGrows]_findbook

\* Bridges' NeverWedged (a half-open circuit that refuses has a probe that will report, or
\* one was cancelled) and ProgramsReaped (a program that runs belongs to an attempt or to a
\* stream that is being closed, or a cancellation or a failing write left it).
BridgesSound == focus = "bridge" => Bridge!NeverWedged /\ Bridge!ProgramsReaped

\* Forge's VerdictSound (a passed job's files are what its reports say, whatever the gates
\* that ran read when), MergeSound (what the merge queue lets through passed its gates, and
\* of the protected paths only those with a leading dot go unapproved) and Isolation
\* (a job writes nothing but its own worktree).
ForgeSound ==
    /\ [](focus = "smithy" => Smithy!VerdictSound /\ Smithy!MergeSound)
    /\ [][focus = "smithy" => Smithy!Isolation]_smithy
=============================================================================
