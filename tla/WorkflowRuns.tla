---------------------------- MODULE WorkflowRuns ----------------------------
(***************************************************************************)
(* Plain workflows: the registry of definitions with its check of the        *)
(* dependency graph (src/agency/workflows/registry.py), the order of the     *)
(* steps and WorkflowExecutor.run (executor.py).  Processes share the        *)
(* database; each registers its own definition under one workflow id and     *)
(* version and then runs what is registered.  Durable runs are the subject   *)
(* of RecoverableWorkflow, which takes the order of the steps from here.     *)
(***************************************************************************)
EXTENDS Naturals, Sequences, FiniteSets, SequencesExt, Relation

CONSTANTS
    Procs,
    Author,  \* the process that brings any definition
    N,       \* the number of steps; a step is its position in the declaration
    MaxRuns, \* bound: runs, which have fresh ids and do not meet
    Faults,  \* bound: kills and failing writes
    None

VARIABLES
    graph,    \* graph[p]: depends_on of each step in p's definition
    stored,   \* the definition in the registry, or None
    proc,     \* proc[p]: the call in progress
    row,      \* row[p]: the record of p's run
    effects,  \* effects[p]: the operations p's run called, in order
    faults

runs == <<graph, stored, proc, row, effects, faults>>

Steps  == 1 .. N
Ghost  == 0        \* a step id that is not declared
Graphs == [Steps -> SUBSET Steps] \cup {[s \in Steps |-> {Ghost}]}

Idle == [pc |-> "idle", order |-> <<>>, results |-> <<>>, seen |-> FALSE]
NoRow == [status |-> "absent", results |-> <<>>]

\* The others bring one without dependencies.
Init ==
    /\ \E g \in Graphs :
        graph = [p \in Procs |-> IF p = Author THEN g ELSE [s \in Steps |-> {}]]
    /\ stored = None
    /\ proc = [p \in Procs |-> Idle]
    /\ row = [p \in Procs |-> NoRow]
    /\ effects = [p \in Procs |-> <<>>]
    /\ faults = 0

-----------------------------------------------------------------------------
(* The algorithms.                                                         *)

\* The depth-first search: visited steps are done with, a step met while it is being
\* visited closes a cycle.
RECURSIVE Visit(_, _, _)
Visit(g, node, st) ==
    IF st.cycle \/ node \in st.visited THEN st
    ELSE IF node \in st.visiting THEN [st EXCEPT !.cycle = TRUE]
    ELSE LET below == FoldLeft(LAMBDA acc, dep : Visit(g, dep, acc),
                               [st EXCEPT !.visiting = @ \cup {node}], SetToSeq(g[node]))
         IN  [below EXCEPT !.visiting = @ \ {node}, !.visited = @ \cup {node}]

\* Mutant: only the first step is searched from.
MutHasCycle(g) == Visit(g, 1, [visiting |-> {}, visited |-> {}, cycle |-> FALSE]).cycle

HasCycle(g) ==
    FoldLeft(LAMBDA acc, s : Visit(g, s, acc),
             [visiting |-> {}, visited |-> {}, cycle |-> FALSE], [s \in Steps |-> s]).cycle

\* _validate_dag.
Valid(g) ==
    /\ \A s \in Steps : s \notin g[s] /\ Ghost \notin g[s]
    /\ ~HasCycle(g)

\* topological_order: steps without open dependencies are ready; the earliest declared
\* one comes next.
RECURSIVE Order(_, _)
Order(g, done) ==
    LET ready == {s \in Steps \ ToSet(done) : g[s] \subseteq ToSet(done)}
        next  == CHOOSE s \in ready : \A t \in ready : s <= t
    IN  IF ready = {} THEN done ELSE Order(g, Append(done, next))

-----------------------------------------------------------------------------
(* The registry.                                                           *)

\* register: the graph is checked and the version looked up ...
Lookup(p) ==
    /\ proc[p].pc = "idle" /\ row[p] = NoRow
    /\ Valid(graph[p])
    /\ proc' = [proc EXCEPT ![p] = [Idle EXCEPT !.pc = "insert", !.seen = stored # None]]
    /\ UNCHANGED <<graph, stored, row, effects, faults>>

\* Mutant: INSERT OR REPLACE, as for runs.
MutInsertable(p) == TRUE

\* The primary key refuses the second of two inserts.
Insertable(p) == stored = None

\* ... then it is inserted, or ValueError or IntegrityError is raised.
Insert(p) ==
    /\ proc[p].pc = "insert"
    /\ stored' = IF ~proc[p].seen /\ Insertable(p) THEN graph[p] ELSE stored
    /\ proc' = [proc EXCEPT ![p] = Idle]
    /\ UNCHANGED <<graph, row, effects, faults>>

-----------------------------------------------------------------------------
(* WorkflowExecutor.run.                                                   *)

\* The definition is read and the record written as PENDING ...
Run(p) ==
    /\ proc[p].pc = "idle" /\ row[p] = NoRow
    /\ Cardinality({q \in Procs : row[q] # NoRow}) < MaxRuns
    /\ stored # None
    /\ proc' = [proc EXCEPT ![p] = [Idle EXCEPT !.pc = "pending", !.order = Order(stored, <<>>)]]
    /\ row' = [row EXCEPT ![p].status = "PENDING"]
    /\ UNCHANGED <<graph, stored, effects, faults>>

\* ... and as RUNNING.
Started(p) ==
    /\ proc[p].pc = "pending"
    /\ row' = [row EXCEPT ![p].status = "RUNNING"]
    /\ proc' = [proc EXCEPT ![p].pc = "steps"]
    /\ UNCHANGED <<graph, stored, effects, faults>>

Position(p) == Len(proc[p].results) + 1

Failed(p) == "failed" \in ToSet(proc[p].results)

\* Mutant: a failing step is recorded and the next one runs.
MutMoreSteps(p) == Position(p) <= Len(proc[p].order)

MoreSteps(p) == Position(p) <= Len(proc[p].order) /\ ~Failed(p)

\* A step: its operation is unknown or not permitted and is not called; or it raises or
\* returns what cannot be kept; or its output is kept.
Step(p, outcome) ==
    /\ proc[p].pc = "steps" /\ MoreSteps(p)
    /\ proc' = [proc EXCEPT ![p].results = Append(@, IF outcome = "ok" THEN "ok" ELSE "failed")]
    /\ effects' = IF outcome = "refused" THEN effects
                  ELSE [effects EXCEPT ![p] = Append(@, proc[p].order[Position(p)])]
    /\ UNCHANGED <<graph, stored, row, faults>>

\* The last record replaces the row whole.
Finish(p) ==
    /\ proc[p].pc = "steps" /\ ~MoreSteps(p)
    /\ row' = [row EXCEPT ![p] = [status |-> IF Failed(p) THEN "FAILED" ELSE "COMPLETED",
                                  results |-> proc[p].results]]
    /\ proc' = [proc EXCEPT ![p] = Idle]
    /\ UNCHANGED <<graph, stored, effects, faults>>

\* The process is killed or a write raises; nobody takes a plain run up again.
Abort(p) ==
    /\ faults < Faults
    /\ faults' = faults + 1
    /\ proc[p].pc # "idle"
    /\ proc' = [proc EXCEPT ![p] = Idle]
    /\ UNCHANGED <<graph, stored, row, effects>>

Next ==
    \E p \in Procs :
        \/ Lookup(p) \/ Insert(p)
        \/ Run(p) \/ Started(p) \/ Finish(p) \/ Abort(p)
        \/ \E outcome \in {"ok", "raised", "refused"} : Step(p, outcome)

-----------------------------------------------------------------------------
(* Properties.                                                             *)

Edges(g) == [pair \in Steps \X Steps |-> pair[1] \in g[pair[2]]]

\* No step is before itself in the transitive closure of the dependencies.
Acyclic(g) ==
    LET before == TransitiveClosure(Edges(g), Steps)
    IN  \A s \in Steps : ~before[<<s, s>>]

Respects(order, g) ==
    \A i \in DOMAIN order : g[order[i]] \subseteq {order[j] : j \in 1 .. (i - 1)}

Earlier(a, b) == \E i \in Steps : a[i] < b[i] /\ \A j \in 1 .. (i - 1) : a[j] = b[j]

\* The search and the order are right for every graph: what is accepted is exactly the
\* acyclic graphs over declared steps, and its order is a permutation that respects the
\* dependencies, the first one in the order of the declaration.
GraphSound ==
    \A p \in Procs :
        LET g == graph[p] IN
        /\ Valid(g) <=> (\A s \in Steps : Ghost \notin g[s]) /\ Acyclic(g)
        /\ Valid(g) => LET order == Order(g, <<>>) IN
               /\ Len(order) = N /\ Respects(order, g)
               /\ \A other \in SetToSeqs(Steps) : Respects(other, g) => ~Earlier(other, order)

\* What a run records is what it did: the operations were called in an order that respects
\* the registered definition, each at most once and none after a failure; COMPLETED means
\* all of them with success, FAILED that the last one of the record failed.
RunSound ==
    \A p \in Procs :
        LET r == row[p].results IN
        /\ effects[p] # <<>> => Respects(effects[p], stored) /\ IsInjective(effects[p])
        /\ row[p].status = "COMPLETED" => Len(effects[p]) = N /\ ToSet(r) \subseteq {"ok"}
        /\ row[p].status = "FAILED" =>
               /\ \A i \in DOMAIN r : r[i] = "failed" <=> i = Len(r)
               /\ Len(effects[p]) \in {Len(r) - 1, Len(r)}

\* A registered version never changes, however registrations race.
VersionsImmutable == stored # None => stored' = stored
=============================================================================
