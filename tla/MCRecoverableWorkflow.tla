----------------------- MODULE MCRecoverableWorkflow -----------------------
(***************************************************************************)
(* Small instances of the two workflow engines: the recoverable executor,   *)
(* and the registry with the plain executor (WorkflowRuns).  They share no  *)
(* state: the initial state chooses the one that moves.                     *)
(***************************************************************************)
EXTENDS RecoverableWorkflow, TLC

CONSTANTS p1, p2, r1, i1, i2, Author, MaxRuns, Faults, None

VARIABLES focus, graph, stored, proc, row, called, faults

Flows == INSTANCE WorkflowRuns WITH effects <- called

\* The third step joins the first two.
JoinDeps == [s \in 1 .. 3 |-> IF s = 3 THEN {1, 2} ELSE {}]

\* The same executor, one that no longer lists step 2 as replay-safe, and one
\* with new operation versions.
ThreeConfigs == {[version |-> "v1", safe |-> 1 .. 3],
                 [version |-> "v1", safe |-> {1, 3}],
                 [version |-> "v2", safe |-> 1 .. 3]}

flows == <<graph, stored, proc, row, called, faults>>

MCInit ==
    /\ focus \in {"recoverable", "flows"}
    /\ Init /\ (focus = "flows" => \A p \in Procs : config[p].version = "v1" /\ 2 \in config[p].safe)
    /\ Flows!Init /\ (focus # "flows" => \A s \in 1 .. N : graph[Author][s] = {})

\* The plain executor may be done with its runs.
MCNext ==
    \/ focus = "recoverable" /\ Next /\ UNCHANGED <<focus, flows>>
    \/ focus = "flows" /\ (Flows!Next \/ UNCHANGED flows) /\ UNCHANGED <<focus, vars>>

MCSpec ==
    /\ MCInit /\ [][MCNext]_<<focus, vars, flows>>
    /\ \A p \in Procs : WF_vars(focus = "recoverable" /\ Work(p))

\* WorkflowRuns' GraphSound (exactly the acyclic definitions are accepted, and their order
\* respects the dependencies), RunSound (what a run records is what it did) and
\* VersionsImmutable (a registered version never changes).
WorkflowsSound ==
    /\ [](focus = "flows" => Flows!GraphSound /\ Flows!RunSound)
    /\ [][focus = "flows" => Flows!VersionsImmutable]_flows
=============================================================================
