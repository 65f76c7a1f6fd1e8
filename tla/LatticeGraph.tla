---------------------------- MODULE LatticeGraph ----------------------------
(***************************************************************************)
(* The Lattice as its clients see it (src/agency/lattice/api.py): the graph *)
(* operations of the facade over the in-memory backend or the SQLite one,   *)
(* complete_task (three operations in a row), traverse and find_path of     *)
(* both backends, and the votes of the in-memory backend.  The in-memory    *)
(* backend never suspends, so an operation on it is atomic; on SQLite every *)
(* statement of find_path and every operation of complete_task is an await. *)
(* LatticeStore models the transactions of the SQLite backend; here each of *)
(* its writes is one step.                                                  *)
(***************************************************************************)
EXTENDS Naturals, Sequences, SequencesExt, FiniteSetsExt

CONSTANTS
    Clients,
    FirstTasks,    \* tasks 1 .. FirstTasks exist at the start
    FirstEdges,    \* with any dependencies 1 .. FirstEdges between them
    Asked,         \* the tasks whose paths and completion are asked for
    MaxNodes,      \* bound on node ids
    MaxEdges,      \* bound on edge ids
    MaxDepth,      \* max_depth of the queries
    MaxOps,        \* bound on operations
    MaxVotes,      \* bound on the votes of a proposal
    None

VARIABLES
    backend,    \* "memory" or "sqlite"
    node,       \* node[n]: None, or its status and the deliverable that completed it
    edge,       \* edge[e]: None, or its source, target and type; ids grow with time
    used,       \* node and edge ids given out
    undone,     \* deliverables whose node or link somebody removed
    call,       \* what each client is doing
    ops,
    proposal    \* the proposal of the in-memory backend

graph == <<backend, node, edge, used, undone, call, ops, proposal>>

Nodes      == 1 .. MaxNodes
TaskIds    == 1 .. FirstTasks
EdgeIds    == 1 .. MaxEdges
Directions == {"out", "in", "both"}
Idle       == [op |-> "idle"]
Open       == [status |-> "open", by |-> None]

\* Lattice._create_backend, over a database that already holds tasks.
Init ==
    /\ backend \in {"memory", "sqlite"}
    /\ \E ends \in [1 .. FirstEdges -> TaskIds \X TaskIds] :
        edge = [e \in EdgeIds |->
            IF e > FirstEdges THEN None
            ELSE [source |-> ends[e][1], target |-> ends[e][2], type |-> "depends_on"]]
    /\ node = [n \in Nodes |-> IF n <= FirstTasks THEN Open ELSE None]
    /\ used = [nodes |-> FirstTasks, edges |-> FirstEdges]
    /\ undone = {}
    /\ call = [c \in Clients |-> Idle]
    /\ ops = 0
    /\ proposal = [status |-> "none", late |-> FALSE, votes |-> <<>>, seen |-> None]

(***************************************************************************)
(* Queries                                                                  *)
(***************************************************************************)
Live == SelectSeq([i \in EdgeIds |-> i], LAMBDA e : edge[e] # None)

\* _neighbors: the other ends of a node's edges, in the order of the edges.
Neighbors(n, type, direction) ==
    LET Wanted(e) == type = None \/ edge[e].type = type
        From(e)   == direction \in {"out", "both"} /\ edge[e].source = n
        To(e)     == direction \in {"in", "both"} /\ edge[e].target = n
        found     == SelectSeq(Live, LAMBDA e : Wanted(e) /\ (From(e) \/ To(e)))
    IN  [i \in DOMAIN found |->
            IF From(found[i]) THEN edge[found[i]].target ELSE edge[found[i]].source]

\* The neighbours a search adds: not visited yet, each once.
Fresh(ns, visited) ==
    LET first == SelectSeq([i \in DOMAIN ns |-> i],
                    LAMBDA i : ns[i] \notin visited /\ \A j \in 1 .. i - 1 : ns[j] # ns[i])
    IN  [i \in DOMAIN first |-> ns[first[i]]]

MutDepthReached(depth) == depth > MaxDepth

DepthReached(depth) == depth >= MaxDepth

\* InMemoryLatticeBackend.traverse: breadth first, over (node, depth) pairs.
RECURSIVE Visit(_, _, _, _)
Visit(frontier, seen, type, direction) ==
    IF frontier = <<>> THEN seen
    ELSE LET current == Head(frontier).node
             depth   == Head(frontier).depth
             fresh   == IF DepthReached(depth) THEN <<>>
                        ELSE Fresh(Neighbors(current, type, direction), seen)
         IN  Visit(Tail(frontier) \o [i \in DOMAIN fresh |->
                       [node |-> fresh[i], depth |-> depth + 1]],
                   seen \cup Range(fresh), type, direction)

Traverse(start, type, direction) ==
    Visit(<<[node |-> start, depth |-> 0]>>, {start}, type, direction) \ {start}

\* SQLiteLattice.traverse: the recursive query collects (id, depth) rows, so it follows
\* every walk of at most max_depth edges, round cycles too.
RECURSIVE Reachable(_, _, _)
Reachable(rows, type, direction) ==
    LET branches == IF direction = "both" THEN {"out", "in"} ELSE {direction}
        more == UNION {{[node |-> n, depth |-> r.depth + 1] :
                           n \in UNION {Range(Neighbors(r.node, type, b)) : b \in branches}} :
                       r \in {q \in rows : q.depth < MaxDepth}}
    IN  IF more \subseteq rows THEN rows ELSE Reachable(rows \cup more, type, direction)

TraverseSql(start, type, direction) ==
    {r.node : r \in Reachable({[node |-> start, depth |-> 0]}, type, direction)} \ {start}

\* InMemoryLatticeBackend.find_path
RECURSIVE Search(_, _, _)
Search(queue, visited, target) ==
    IF queue = <<>> THEN None
    ELSE LET path  == Head(queue)
             fresh == IF DepthReached(Len(path) - 1) THEN <<>>
                      ELSE Fresh(Neighbors(Last(path), None, "out"), visited)
         IN  IF target \in Range(fresh) THEN Append(path, target)
             ELSE Search(Tail(queue) \o [i \in DOMAIN fresh |-> Append(path, fresh[i])],
                         visited \cup Range(fresh), target)

FindPath(source, target) ==
    IF source = target THEN <<source>> ELSE Search(<<<<source>>>>, {source}, target)

(***************************************************************************)
(* Operations                                                               *)
(***************************************************************************)
Pairs(edges) == {<<edges[e].source, edges[e].target>> : e \in {f \in EdgeIds : edges[f] # None}}

\* On the in-memory backend nothing runs between two operations of one client.
Turn(c) == backend = "memory" => \A d \in Clients \ {c} : call[d] = Idle

\* The clients after the graph changed: a search in progress remembers which edges were
\* there all the time and which at some time.
Watching(calls, edges) ==
    [d \in Clients |->
        IF calls[d].op # "path" THEN calls[d]
        ELSE [calls[d] EXCEPT !.always = @ \cap Pairs(edges), !.ever = @ \cup Pairs(edges)]]

Ready(c) == call[c] = Idle /\ Turn(c)

Begin(c) ==
    /\ Ready(c)
    /\ ops < MaxOps
    /\ ops' = ops + 1

\* add_edge: SQLite's foreign keys refuse a missing end, the in-memory backend does not.
Accepts(s, t) == backend = "sqlite" => None \notin {node[s], node[t]}

Added(s, t, type) == [edge EXCEPT ![used.edges + 1] = [source |-> s, target |-> t, type |-> type]]

AddEdge(c, s, t, type) ==
    /\ Begin(c)
    /\ used.edges < MaxEdges
    /\ Accepts(s, t)
    /\ edge' = Added(s, t, type)
    /\ used' = [used EXCEPT !.edges = @ + 1]
    /\ call' = Watching(call, edge')
    /\ UNCHANGED <<backend, node, undone, proposal>>

RemoveEdge(c, e) ==
    /\ Begin(c)
    /\ edge[e] # None
    /\ edge' = [edge EXCEPT ![e] = None]
    /\ undone' = IF edge[e].type = "produced_by" THEN undone \cup {edge[e].source} ELSE undone
    /\ call' = Watching(call, edge')
    /\ UNCHANGED <<backend, node, used, proposal>>

\* delete_node removes the edges of the node first.
Incident(e, n) == edge[e] # None /\ n \in {edge[e].source, edge[e].target}

DeleteNode(c, n) ==
    /\ Begin(c)
    /\ node[n] # None
    /\ node' = [node EXCEPT ![n] = None]
    /\ edge' = [e \in EdgeIds |-> IF Incident(e, n) THEN None ELSE edge[e]]
    /\ undone' = undone \cup {n}
    /\ call' = Watching(call, edge')
    /\ UNCHANGED <<backend, used, proposal>>

\* create_task
CreateTask(c) ==
    /\ Begin(c)
    /\ used.nodes < MaxNodes
    /\ node' = [node EXCEPT ![used.nodes + 1] = Open]
    /\ used' = [used EXCEPT !.nodes = @ + 1]
    /\ UNCHANGED <<backend, edge, undone, call, proposal>>

\* complete_task: the deliverable, its link to the task, then the task's status.
CreateDeliverable(c, t) ==
    /\ Begin(c)
    /\ used.nodes < MaxNodes /\ used.edges < MaxEdges
    /\ node' = [node EXCEPT ![used.nodes + 1] = [status |-> "deliverable", by |-> None]]
    /\ used' = [used EXCEPT !.nodes = @ + 1]
    /\ call' = [call EXCEPT ![c] =
           [op |-> "complete", pc |-> "link", task |-> t, id |-> used.nodes + 1]]
    /\ UNCHANGED <<backend, edge, undone, proposal>>

LinkDeliverable(c) ==
    LET d == call[c].id  t == call[c].task IN
    /\ call[c].op = "complete" /\ call[c].pc = "link"
    /\ used.edges < MaxEdges
    /\ IF Accepts(d, t)
       THEN /\ edge' = Added(d, t, "produced_by")
            /\ used' = [used EXCEPT !.edges = @ + 1]
            /\ call' = Watching([call EXCEPT ![c].pc = "finish"], edge')
       ELSE /\ call' = [call EXCEPT ![c] = Idle]
            /\ UNCHANGED <<edge, used>>
    /\ UNCHANGED <<backend, node, undone, ops, proposal>>

MutCompletesFirst(c) == call[c].pc \in {"link", "finish"}

Completes(c) == call[c].pc = "finish"

FinishTask(c) ==
    LET t == call[c].task IN
    /\ call[c].op = "complete" /\ Completes(c)
    /\ node' = IF node[t] = None THEN node
               ELSE [node EXCEPT ![t] = [status |-> "completed", by |-> call[c].id]]
    /\ call' = [call EXCEPT ![c] = Idle]
    /\ UNCHANGED <<backend, edge, used, undone, ops, proposal>>

\* The caller is cancelled between two operations.
Cancel(c) ==
    /\ call[c].op \in {"complete", "path"}
    /\ backend = "sqlite"
    /\ call' = [call EXCEPT ![c] = Idle]
    /\ UNCHANGED <<backend, node, edge, used, undone, ops, proposal>>

(***************************************************************************)
(* find_path on SQLite: level by level, one SELECT for every open path.      *)
(***************************************************************************)
Answer(request, path) == [request EXCEPT !.op = "answer", !.path = path]

StartPath(c, source, target) ==
    /\ Begin(c)
    /\ backend = "sqlite"
    /\ LET request == [op |-> "path", source |-> source, target |-> target, depth |-> 1,
                       queue |-> <<<<source>>>>, next |-> <<>>, visited |-> {source},
                       always |-> Pairs(edge), ever |-> Pairs(edge), path |-> None]
       IN  call' = [call EXCEPT ![c] =
               IF source = target THEN Answer(request, <<source>>) ELSE request]
    /\ UNCHANGED <<backend, node, edge, used, undone, proposal>>

MutLastLevel(depth) == depth = MaxDepth - 1

LastLevel(depth) == depth = MaxDepth

\* What the search goes on with after the path at the head of its queue.
Advance(r, paths, fresh) ==
    LET next == r.next \o paths
    IN  IF Len(r.queue) > 1
        THEN [r EXCEPT !.queue = Tail(@), !.next = next, !.visited = @ \cup fresh]
        ELSE IF next = <<>> \/ LastLevel(r.depth) THEN Answer(r, None)
        ELSE [r EXCEPT !.queue = next, !.next = <<>>, !.depth = @ + 1, !.visited = @ \cup fresh]

Select(c) ==
    LET r     == call[c]
        path  == Head(r.queue)
        fresh == Fresh(Neighbors(Last(path), None, "out"), r.visited)
        paths == [i \in DOMAIN fresh |-> Append(path, fresh[i])]
    IN  /\ r.op = "path"
        /\ call' = [call EXCEPT ![c] =
               IF r.target \in Range(fresh) THEN Answer(r, Append(path, r.target))
               ELSE Advance(r, paths, Range(fresh))]
        /\ UNCHANGED <<backend, node, edge, used, undone, ops, proposal>>

Return(c) ==
    /\ call[c].op = "answer"
    /\ call' = [call EXCEPT ![c] = Idle]
    /\ UNCHANGED <<backend, node, edge, used, undone, ops, proposal>>

(***************************************************************************)
(* Votes of the in-memory backend: every vote weighs the same, every vote    *)
(* appends, and check_quorum follows each.                                  *)
(***************************************************************************)
SubmitProposal(c, quorum) ==
    /\ Begin(c)
    /\ backend = "memory"
    /\ proposal.status = "none"
    /\ proposal' = [proposal EXCEPT !.status = "open", !.seen = quorum]
    /\ UNCHANGED <<backend, node, edge, used, undone, call>>

Expire ==
    /\ proposal.status = "open" /\ ~proposal.late
    /\ proposal' = [proposal EXCEPT !.late = TRUE]
    /\ UNCHANGED <<backend, node, edge, used, undone, call, ops>>

Count(votes, decision) == Len(SelectSeq(votes, LAMBDA v : v.decision = decision))

\* check_quorum: the share of the counted votes, as a fraction of quorum[2].
Meets(share, total, quorum) == share * quorum[2] >= quorum[1] * total

MutVerdict(p, votes) ==
    LET approve == Count(votes, "approve")
        total   == approve + Count(votes, "deny")
    IN  IF p.status = "none" THEN p.status
        ELSE IF p.late THEN "expired"
        ELSE IF total = 0 THEN "open"
        ELSE IF Meets(approve, total, p.seen) THEN "passed"
        ELSE IF Meets(total - approve, total, p.seen) THEN "denied" ELSE "open"

Verdict(p, votes) ==
    LET approve == Count(votes, "approve")
        total   == approve + Count(votes, "deny")
    IN  IF p.status # "open" THEN p.status
        ELSE IF p.late THEN "expired"
        ELSE IF total = 0 THEN "open"
        ELSE IF Meets(approve, total, p.seen) THEN "passed"
        ELSE IF Meets(total - approve, total, p.seen) THEN "denied" ELSE "open"

CastVote(c, decision) ==
    LET votes == Append(proposal.votes, [decision |-> decision, late |-> proposal.late]) IN
    /\ Ready(c)
    /\ proposal.status # "none" /\ Len(proposal.votes) < MaxVotes
    /\ proposal' = [proposal EXCEPT !.votes = votes, !.status = Verdict(proposal, votes)]
    /\ UNCHANGED <<backend, node, edge, used, undone, call, ops>>

CheckQuorum(c) ==
    /\ Ready(c)
    /\ proposal.status # "none"
    /\ proposal' = [proposal EXCEPT !.status = Verdict(proposal, proposal.votes)]
    /\ UNCHANGED <<backend, node, edge, used, undone, call, ops>>

Thresholds == {<<1, 2>>, <<2, 3>>, <<1, 1>>}

GraphNext ==
    \E c \in Clients :
        \/ \E s, t \in TaskIds : AddEdge(c, s, t, "depends_on")
        \/ \E e \in EdgeIds : RemoveEdge(c, e)
        \/ \E n \in Nodes : DeleteNode(c, n)
        \/ CreateTask(c)
        \/ \E t \in Asked : CreateDeliverable(c, t)
        \/ LinkDeliverable(c) \/ FinishTask(c) \/ Cancel(c)
        \/ \E s, t \in Asked : StartPath(c, s, t)
        \/ Select(c) \/ Return(c)

VoteNext ==
    \/ \E c \in Clients :
        \/ \E q \in Thresholds : SubmitProposal(c, q)
        \/ \E d \in {"approve", "deny", "abstain"} : CastVote(c, d)
        \/ CheckQuorum(c)
    \/ Expire

Next == GraphNext \/ VoteNext

Spec == Init /\ [][Next]_graph

(***************************************************************************)
(* Properties                                                               *)
(***************************************************************************)
\* The nodes at the end of a path of one to k edges of a relation.
Ends(relation, start, k) ==
    LET reach[i \in 0 .. k] ==
            IF i = 0 THEN {start}
            ELSE reach[i - 1] \cup {p[2] : p \in {q \in relation : q[1] \in reach[i - 1]}}
    IN  reach[k]

\* Between the operations, the queries of the two backends give the same nodes, the ones within max_depth of the
\* start; and the in-memory find_path is a path of the graph, as short as there is one.
QueriesAgree ==
    (\A c \in Clients : call[c] = Idle) =>
    /\ \A n \in Nodes, type \in {None, "depends_on"}, direction \in Directions :
        Traverse(n, type, direction) = TraverseSql(n, type, direction)
    /\ \A m \in Nodes :
        /\ Traverse(m, None, "out") = Ends(Pairs(edge), m, MaxDepth) \ {m}
        /\ \A n \in Nodes :
            LET path == FindPath(m, n) IN
            IF n \notin Ends(Pairs(edge), m, MaxDepth) THEN path = None
            ELSE /\ path[1] = m /\ Last(path) = n
                 /\ \A i \in 1 .. Len(path) - 1 : <<path[i], path[i + 1]>> \in Pairs(edge)
                 /\ \A k \in 0 .. Len(path) - 2 : n \notin Ends(Pairs(edge), m, k)

\* What SQLite's find_path answers while others write: a path whose every edge was there
\* at some time during the search, without a repeated node and within max_depth; and it
\* finds one no longer than any path that was there all the time.
PathSound ==
    \A c \in Clients : call[c].op = "answer" =>
        LET r == call[c] IN
        /\ r.path # None =>
            /\ r.path[1] = r.source /\ Last(r.path) = r.target
            /\ Len(r.path) - 1 <= MaxDepth
            /\ Cardinality(Range(r.path)) = Len(r.path)
            /\ \A i \in 1 .. Len(r.path) - 1 : <<r.path[i], r.path[i + 1]>> \in r.ever
        /\ \A k \in 0 .. MaxDepth :
            r.target \in Ends(r.always, r.source, k) => r.path # None /\ Len(r.path) - 1 <= k

\* A completed task has its deliverable and the link to it, unless somebody removed one,
\* however completions, deletions and cancellations interleave; and SQLite's graph has no
\* edge without its ends.
TasksLinked ==
    /\ \A t \in Nodes : node[t] # None /\ node[t].by # None /\ node[t].by \notin undone =>
        /\ node[node[t].by] # None
        /\ <<node[t].by, t>> \in Pairs(edge)
    /\ backend = "sqlite" => \A p \in Pairs(edge) : None \notin {node[p[1]], node[p[2]]}

\* Whatever the quorum, the first vote that is not an abstention decides the in-memory
\* backend's proposal, unless it comes too late; later votes change nothing.
FirstVoteDecides ==
    LET counted == SelectSeq(proposal.votes, LAMBDA v : v.decision # "abstain") IN
    /\ proposal.status = "passed" => counted[1] = [decision |-> "approve", late |-> FALSE]
    /\ proposal.status = "denied" => counted[1] = [decision |-> "deny", late |-> FALSE]
    /\ proposal.status = "open" => counted = <<>>
=============================================================================
