---------------------------- MODULE MCGovernance ----------------------------
(***************************************************************************)
(* Small instances of the Lattice above its stores: Governance, and the     *)
(* graph and the votes behind the facade (LatticeGraph).  They share no     *)
(* state: the initial state chooses the one that moves.                     *)
(***************************************************************************)
EXTENDS Governance, TLC

CONSTANTS t1, t2, a1, p1,
    Clients, FirstTasks, FirstEdges, Asked, MaxNodes, MaxEdges, MaxDepth, MaxOps, MaxVotes

VARIABLES focus, backend, node, edge, used, undone, request, ops, proposal

Lattice == INSTANCE LatticeGraph WITH call <- request

lattice == <<backend, node, edge, used, undone, request, ops, proposal>>

\* Calls and agents are interchangeable.
Symmetry == Permutations(Tasks) \cup Permutations(Agents)

MCInit ==
    /\ focus \in {"governance", "lattice", "votes"}
    /\ Init
    /\ Lattice!Init
    /\ focus # "lattice" =>
           backend = "memory" /\ \A e \in 1 .. FirstEdges : edge[e].source = 1 /\ edge[e].target = 1

\* The clients of the graph may be done with their operations.
MCNext ==
    \/ focus = "governance" /\ Next /\ UNCHANGED <<focus, lattice>>
    \/ focus = "lattice" /\ (Lattice!GraphNext \/ UNCHANGED lattice) /\ UNCHANGED <<focus, vars>>
    \/ focus = "votes" /\ (Lattice!VoteNext \/ UNCHANGED lattice) /\ UNCHANGED <<focus, vars>>

MCSpec == MCInit /\ [][MCNext]_<<focus, vars, lattice>>

\* LatticeGraph's QueriesAgree (the backends' queries give the same, and right, nodes and
\* shortest paths), PathSound (what SQLite's find_path answers while others write),
\* TasksLinked (a completed task keeps its deliverable and its link) and FirstVoteDecides
\* (the in-memory backend's verdict follows from its first vote that counts).
GraphSound ==
    focus # "governance" =>
        /\ Lattice!QueriesAgree /\ Lattice!PathSound
        /\ Lattice!TasksLinked /\ Lattice!FirstVoteDecides
=============================================================================
