---------------------------- MODULE LatticeStore ----------------------------
(***************************************************************************)
(* The SQLite backend of the Lattice (src/agency/lattice/backends/          *)
(* sqlite.py) with the governance calls of src/agency/lattice/api.py and of *)
(* the orchestrator (src/agency/orchestrator.py) that run over it.          *)
(*                                                                         *)
(* All tasks share one connection.  A writer takes the asyncio lock,        *)
(* executes its statements one by one, each an await, and commits; nobody   *)
(* rolls back.  So the database has two states: disk, as committed, and     *)
(* work, as the connection sees it.  A statement whose await is cancelled   *)
(* is executed all the same, because the connection's thread has it; one    *)
(* that fails is not.  Readers do not take the lock.                        *)
(*                                                                         *)
(* A call is a list of operations, each under the lock of its own.  What an *)
(* operation will write is computed when it takes the lock: until it        *)
(* releases it nobody else writes.                                          *)
(***************************************************************************)
EXTENDS Naturals, Sequences, FiniteSets, SequencesExt

CONSTANTS
    Callers,
    Nodes, Edges, Proposals,    \* identities (uuid4), each used once
    Values,                     \* values of the property of a node that is written
    Agents,                     \* voters that vote at their reputation
    Quorum,                     \* in percent
    Full,                       \* the weight 1.0
    Window,                     \* peer ratings that count (20)
    Kept,                       \* peer ratings that are kept (100)
    Calls,                      \* which calls are made
    MaxCalls,                   \* bound: calls made
    Interrupts,                 \* bound: cancelled or failed statements
    Kills,                      \* bound: kills of the process
    Closes,                     \* bound: calls of close
    Null

Trusted == {"user", "butler"}
Voters == Agents \cup Trusted
Decisions == {"approve", "deny", "abstain"}

ASSUME StoreAssumption ==
    /\ Quorum \in 1..100 /\ Full \in Nat \ {0} /\ Window \in Nat \ {0}
    /\ Kept \in Nat /\ Kept >= Window
    /\ MaxCalls \in Nat /\ Interrupts \in Nat /\ Kills \in Nat /\ Closes \in Nat
    /\ Agents \cap Trusted = {}
    /\ Null \notin Callers \cup Values \cup Proposals /\ Values \cap Proposals = {}
    /\ Null \notin [done : Nat, failed : Nat, ratings : Seq(Nat)]

VARIABLES
    disk,       \* the database as committed
    work,       \* the database as the connection sees it
    used,       \* identities given out
    late,       \* proposals whose expires_at has passed
    db,         \* TRUE while the connection is open
    holder,     \* who holds the lock
    todo,       \* operations that each task has still to do
    script,     \* statements of its current operation still to execute
    spawned,    \* _spawned_proposals of the orchestrator
    spent       \* calls, interrupts, kills and closes so far (the bounds)

base == <<disk, work>>
storeVars == <<disk, work, used, late, db, holder, todo, script, spawned, spent>>

NewRep == [done |-> 0, failed |-> 0, ratings |-> <<>>]

Empty == [nodes   |-> [n \in Nodes |-> Null],
          edges   |-> [e \in Edges |-> Null],
          status  |-> [p \in Proposals |-> "none"],
          ballots |-> {},
          reps    |-> [a \in Agents |-> Null],
          events  |-> <<>>]

StoreInit ==
    /\ disk = Empty /\ work = Empty
    /\ used = {} /\ late = {} /\ db = TRUE /\ holder = Null
    /\ todo = [t \in Callers |-> <<>>]
    /\ script = [t \in Callers |-> <<>>]
    /\ spawned = {}
    /\ spent = [calls |-> 0, interrupts |-> 0, kills |-> 0, closes |-> 0]

-----------------------------------------------------------------------------
(* Statements.                                                             *)

Incident(d, n) == {e \in Edges : d.edges[e] # Null /\ n \in {d.edges[e].source, d.edges[e].target}}

\* What one SQL statement does to a database.
Apply(d, s) ==
    CASE s.table = "nodes" -> [d EXCEPT !.nodes[s.id] = s.to]
      [] s.table = "edges" -> [d EXCEPT !.edges[s.id] = s.to]
      [] s.table = "incident" ->
            [d EXCEPT !.edges = [e \in Edges |-> IF e \in Incident(d, s.id) THEN Null ELSE @[e]]]
      [] s.table = "proposals" -> [d EXCEPT !.status[s.id] = s.to]
      [] s.table = "unvote" ->
            [d EXCEPT !.ballots = {b \in @ : b.prop # s.id \/ b.voter # s.to}]
      [] s.table = "votes" -> [d EXCEPT !.ballots = @ \cup {s.to}]
      [] s.table = "reputations" -> [d EXCEPT !.reps[s.id] = s.to]
      [] s.table = "events" -> [d EXCEPT !.events = Append(@, s.to)]
      [] s.table = "commit" -> d

Stmt(table, id, to) == [table |-> table, id |-> id, to |-> to]

\* _append_event.
Event(type, id, payload) ==
    Stmt("events", Null, [type |-> type, id |-> id, payload |-> payload])

-----------------------------------------------------------------------------
(* The governance rules.                                                   *)

LastOf(s, n) == IF Len(s) <= n THEN s ELSE SubSeq(s, Len(s) - n + 1, Len(s))

Sum(s) == FoldLeft(+, 0, s)

\* compute_reputation: 60 percent tasks and 40 percent peers, 0.5 without peers.
compute_reputation(r) ==
    LET recent == LastOf(r.ratings, Window)
        peers == IF recent = <<>> THEN Full \div 2 ELSE Sum(recent) \div Len(recent)
    IN  (6 * ((Full * r.done) \div (r.done + r.failed)) + 4 * peers) \div 10

\* The weight of a ballot, read in the voter's own transaction.
WeightOf(v) ==
    IF v \in Trusted THEN Full
    ELSE IF work.reps[v] = Null THEN Full \div 2 ELSE compute_reputation(work.reps[v])

\* The weights of the ballots for dec, counted in units.
Tally(d, p, dec) ==
    LET cast == {b \in d.ballots : b.prop = p /\ b.decision = dec}
    IN  Cardinality({u \in cast \X (1 .. Full) : u[2] <= u[1].weight})

\* What check_quorum makes of the tally.
Verdict(yes, no) ==
    CASE yes + no = 0 -> "open"
      [] yes + no > 0 /\ 100 * yes >= Quorum * (yes + no) -> "passed"
      [] yes + no > 0 /\ 100 * yes < Quorum * (yes + no)
                      /\ 100 * no >= Quorum * (yes + no) -> "denied"
      [] OTHER -> "open"

MutResolvesQuietly(p, to) == <<Stmt("proposals", p, to)>>

Resolve(p, to) ==
    <<Stmt("proposals", p, to), Event("proposal_resolved", p, to)>>

-----------------------------------------------------------------------------
(* The operations: what each one writes, given what it reads in work.      *)

CreateNode(o) ==
    <<Stmt("nodes", o.id, o.arg), Event("node_created", o.id, o.arg)>>

UpdateNode(o) ==
    IF work.nodes[o.id] = Null THEN <<>>
    ELSE <<Stmt("nodes", o.id, o.arg), Event("node_updated", o.id, o.arg)>>

\* The edges go first, as the foreign keys demand.
DeleteNode(o) ==
    IF work.nodes[o.id] = Null THEN <<>>
    ELSE <<Stmt("incident", o.id, Null), Stmt("nodes", o.id, Null),
           Event("node_deleted", o.id, Null)>>

\* The foreign keys of edges: an edge to a missing node is refused.
AddEdge(o) ==
    IF Null \in {work.nodes[o.arg.source], work.nodes[o.arg.target]} THEN <<>>
    ELSE <<Stmt("edges", o.id, o.arg), Event("edge_added", o.id, o.arg)>>

RemoveEdge(o) ==
    IF work.edges[o.id] = Null THEN <<>>
    ELSE <<Stmt("edges", o.id, Null), Event("edge_removed", o.id, Null)>>

Submit(o) ==
    <<Stmt("proposals", o.id, "open"), Event("proposal_submitted", o.id, Null)>>

MutAddsBallot(o) ==
    LET b == [prop |-> o.id, voter |-> o.arg.voter, decision |-> o.arg.decision,
              weight |-> WeightOf(o.arg.voter)]
    IN  IF work.status[o.id] # "open" THEN <<>>
        ELSE IF o.id \in late THEN Resolve(o.id, "expired")
        ELSE <<Stmt("votes", o.id, b), Event("vote_cast", o.id, b)>>

\* A ballot replaces the voter's earlier one; a late one expires the proposal.
Vote(o) ==
    LET b == [prop |-> o.id, voter |-> o.arg.voter, decision |-> o.arg.decision,
              weight |-> WeightOf(o.arg.voter)]
    IN  IF work.status[o.id] # "open" THEN <<>>
        ELSE IF o.id \in late THEN Resolve(o.id, "expired")
        ELSE <<Stmt("unvote", o.id, o.arg.voter), Stmt("votes", o.id, b),
               Event("vote_cast", o.id, b)>>

Check(o) ==
    LET to == IF o.id \in late THEN "expired"
              ELSE Verdict(Tally(work, o.id, "approve"), Tally(work, o.id, "deny"))
    IN  IF work.status[o.id] # "open" \/ to = "open" THEN <<>> ELSE Resolve(o.id, to)

UpdateReputation(o) ==
    LET r == IF work.reps[o.id] = Null THEN NewRep ELSE work.reps[o.id]
        new == [done |-> r.done + IF o.arg.success THEN 1 ELSE 0,
                failed |-> r.failed + IF o.arg.success THEN 0 ELSE 1,
                ratings |-> LastOf(r.ratings \o o.arg.rating, Kept)]
    IN  <<Stmt("reputations", o.id, new),
          Event("reputation_updated", o.id, compute_reputation(new))>>

Writes(o) ==
    CASE o.op = "create_node" -> CreateNode(o)
      [] o.op = "update_node" -> UpdateNode(o)
      [] o.op = "delete_node" -> DeleteNode(o)
      [] o.op = "add_edge" -> AddEdge(o)
      [] o.op = "remove_edge" -> RemoveEdge(o)
      [] o.op = "submit" -> Submit(o)
      [] o.op = "vote" -> Vote(o)
      [] o.op \in {"quorum", "check"} -> Check(o)
      [] o.op = "reputation" -> UpdateReputation(o)

\* Whoever writes nothing returns without a commit.
Script(o) == IF Writes(o) = <<>> THEN <<>> ELSE Append(Writes(o), Stmt("commit", Null, Null))

Op(op, id, arg) == [op |-> op, id |-> id, arg |-> arg]

\* A vote that is counted is followed by check_quorum; one that is refused is not.
AfterVote(o, rest) ==
    IF o.op = "vote" /\ (work.status[o.id] # "open" \/ o.id \in late)
    THEN RemoveAt(rest, 2) ELSE rest

-----------------------------------------------------------------------------
(* The calls.                                                              *)

Start(t, call, ops, new) ==
    /\ db /\ todo[t] = <<>> /\ call \in Calls /\ spent.calls < MaxCalls
    /\ new \cap used = {}
    /\ todo' = [todo EXCEPT ![t] = ops]
    /\ used' = used \cup new
    /\ spent' = [spent EXCEPT !.calls = @ + 1]
    /\ UNCHANGED <<base, late, db, holder, script, spawned>>

CallCreateNode(t) ==
    \E n \in Nodes, v \in Values : Start(t, "graph", <<Op("create_node", n, v)>>, {n})
CallUpdateNode(t) ==
    \E n \in Nodes, v \in Values : Start(t, "graph", <<Op("update_node", n, v)>>, {})
CallDeleteNode(t) ==
    \E n \in Nodes : Start(t, "graph", <<Op("delete_node", n, Null)>>, {})
CallAddEdge(t) ==
    \E e \in Edges, m, n \in Nodes :
        Start(t, "graph", <<Op("add_edge", e, [source |-> m, target |-> n])>>, {e})
CallRemoveEdge(t) ==
    \E e \in Edges : Start(t, "graph", <<Op("remove_edge", e, Null)>>, {})
CallSubmit(t) ==
    \E p \in Proposals : Start(t, "votes", <<Op("submit", p, Null)>>, {p})
CallReputation(t) ==
    \E a \in Agents, ok \in BOOLEAN, r \in {<<>>, <<0>>, <<Full>>} :
        Start(t, "votes", <<Op("reputation", a, [success |-> ok, rating |-> r])>>, {})

\* resolve_agent_proposal: Lattice.cast_vote is the vote with its check, another
\* check and a look at the status; then an agent may be spawned.
CallVote(t) ==
    \E p \in Proposals, v \in Voters, d \in Decisions :
        /\ work.status[p] # "none"
        /\ Start(t, "votes", <<Op("vote", p, [voter |-> v, decision |-> d]), Op("quorum", p, Null),
                               Op("check", p, Null), Op("status", p, Null)>>, {})

-----------------------------------------------------------------------------
(* Steps of a call.                                                        *)

Now(t) == Head(todo[t])

\* The operation takes the lock and reads what it needs.
Take(t) ==
    /\ db /\ holder = Null /\ todo[t] # <<>> /\ Now(t).op # "status"
    /\ holder' = t
    /\ script' = [script EXCEPT ![t] = Script(Now(t))]
    /\ todo' = [todo EXCEPT ![t] = AfterVote(Now(t), @)]
    /\ UNCHANGED <<base, used, late, db, spawned, spent>>

\* The connection executes the next statement of t.
Execute(t) ==
    /\ work' = Apply(work, Head(script[t]))
    /\ disk' = IF Head(script[t]).table = "commit" THEN work ELSE disk

Statement(t) ==
    /\ holder = t /\ script[t] # <<>>
    /\ Execute(t)
    /\ script' = [script EXCEPT ![t] = Tail(@)]
    /\ UNCHANGED <<used, late, db, holder, todo, spawned, spent>>

\* It releases the lock and goes on to the next operation of its call.
Unlock(t) ==
    /\ holder = t /\ script[t] = <<>>
    /\ holder' = Null
    /\ todo' = [todo EXCEPT ![t] = Tail(@)]
    /\ UNCHANGED <<base, used, late, db, script, spawned, spent>>

Spawns(p, seen) == seen = "passed" /\ p \notin spawned

\* Without the lock, the orchestrator looks at the status and spawns the agent
\* of a proposal once in its life.
LookAtStatus(t) ==
    LET p == Now(t).id
    IN  /\ db /\ todo[t] # <<>> /\ Now(t).op = "status"
        /\ \/ /\ Spawns(p, work.status[p])
              /\ spawned' = spawned \cup {p}
              /\ \E n \in Nodes \ used :
                    /\ used' = used \cup {n}
                    /\ todo' = [todo EXCEPT ![t] = <<Op("create_node", n, p)>>]
           \/ /\ ~Spawns(p, work.status[p])
              /\ todo' = [todo EXCEPT ![t] = <<>>]
              /\ UNCHANGED <<used, spawned>>
        /\ UNCHANGED <<base, late, db, holder, script, spent>>

End(t) == todo' = [todo EXCEPT ![t] = <<>>]

\* Cancelled between operations, or the connection is closed and the call raises.
Abandon(t) ==
    /\ holder # t /\ todo[t] # <<>>
    /\ End(t)
    /\ UNCHANGED <<base, used, late, db, holder, script, spawned, spent>>

\* The await of a statement is cancelled, and the statement executed, or it
\* fails.  Nothing is rolled back.
Interrupt(t) ==
    /\ holder = t /\ script[t] # <<>> /\ spent.interrupts < Interrupts
    /\ Execute(t) \/ UNCHANGED base
    /\ spent' = [spent EXCEPT !.interrupts = @ + 1]
    /\ holder' = Null
    /\ script' = [script EXCEPT ![t] = <<>>]
    /\ End(t)
    /\ UNCHANGED <<used, late, db, spawned>>

-----------------------------------------------------------------------------
(* The connection and the process.                                         *)

\* Closing discards what was not committed.
Close ==
    /\ db /\ holder = Null /\ spent.closes < Closes
    /\ db' = FALSE
    /\ work' = disk
    /\ spent' = [spent EXCEPT !.closes = @ + 1]
    /\ UNCHANGED <<disk, used, late, holder, todo, script, spawned>>

\* The schema statements change nothing in a database that has its tables.
Initialize ==
    /\ ~db
    /\ db' = TRUE
    /\ UNCHANGED <<base, used, late, holder, todo, script, spawned, spent>>

\* The process dies; the next one begins with what is on disk.
Kill ==
    /\ spent.kills < Kills
    /\ work' = disk
    /\ db' = FALSE
    /\ holder' = Null
    /\ todo' = [t \in Callers |-> <<>>]
    /\ script' = [t \in Callers |-> <<>>]
    /\ spawned' = {}
    /\ spent' = [spent EXCEPT !.kills = @ + 1]
    /\ UNCHANGED <<disk, used, late>>

\* The clock passes expires_at of a proposal.
Expire(p) ==
    /\ "votes" \in Calls /\ p \in used \ late
    /\ late' = late \cup {p}
    /\ UNCHANGED <<base, used, db, holder, todo, script, spawned, spent>>

-----------------------------------------------------------------------------
AnyCall(t) ==
    \/ CallCreateNode(t) \/ CallUpdateNode(t) \/ CallDeleteNode(t)
    \/ CallAddEdge(t) \/ CallRemoveEdge(t)
    \/ CallSubmit(t) \/ CallVote(t) \/ CallReputation(t)

Step(t) == Take(t) \/ Statement(t) \/ Unlock(t) \/ LookAtStatus(t)

StoreNext ==
    \/ \E t \in Callers : AnyCall(t) \/ Step(t) \/ Abandon(t) \/ Interrupt(t)
    \/ \E p \in Proposals : Expire(p)
    \/ Close \/ Initialize \/ Kill

StoreSpec == StoreInit /\ [][StoreNext]_storeVars

-----------------------------------------------------------------------------
(* Properties.                                                             *)

\* The effect of an event, as get_audit_trail and replay_events would show it.
Redo(d, e) ==
    CASE e.type \in {"node_created", "node_updated"} -> Apply(d, Stmt("nodes", e.id, e.payload))
      [] e.type = "node_deleted" ->
            Apply(Apply(d, Stmt("incident", e.id, Null)), Stmt("nodes", e.id, Null))
      [] e.type \in {"edge_added", "edge_removed"} -> Apply(d, Stmt("edges", e.id, e.payload))
      [] e.type = "proposal_submitted" -> Apply(d, Stmt("proposals", e.id, "open"))
      [] e.type = "proposal_resolved" -> Apply(d, Stmt("proposals", e.id, e.payload))
      [] e.type = "vote_cast" ->
            Apply(Apply(d, Stmt("unvote", e.id, e.payload.voter)), Stmt("votes", e.id, e.payload))
      [] e.type = "reputation_updated" -> Apply(d, Stmt("reputations", e.id, e.payload))

\* The database that the events tell of; told[n] is what the first n of them do.
Replay(events) ==
    LET told[n \in 0 .. Len(events)] ==
            IF n = 0 THEN Empty ELSE Redo(told[n - 1], events[n])
    IN  told[Len(events)]

\* Every object keeps its type, and an open connection without a writer and
\* without interrupted ones sees what is committed.
StoreTypeOK ==
    /\ \A d \in {disk, work} :
          /\ \A p \in Proposals :
                d.status[p] \in {"none", "open", "passed", "denied", "expired"}
          /\ \A b \in d.ballots :
                b.prop \in Proposals /\ b.voter \in Voters /\ b.weight \in 0..Full
          /\ \A e \in Edges : d.edges[e] # Null => d.edges[e].source \in Nodes
    /\ used \subseteq Nodes \cup Edges \cup Proposals
    /\ holder \in Callers \cup {Null}
    /\ Interrupts = 0 /\ holder = Null => work = disk

\* Event sourcing: the events on disk, replayed in order, give the graph, the
\* proposals, the ballots and the scores on disk, whoever is killed when.
EventSourced ==
    LET told == Replay(disk.events)
    IN  /\ told.nodes = disk.nodes /\ told.edges = disk.edges
        /\ told.status = disk.status /\ told.ballots = disk.ballots
        /\ \A a \in Agents : IF disk.reps[a] = Null THEN told.reps[a] = Null
                             ELSE told.reps[a] = compute_reputation(disk.reps[a])

\* The same as long as no statement was cancelled or failed.
EventSourcedUnlessInterrupted == spent.interrupts = 0 => EventSourced

\* Whatever was interrupted, no voter counts twice, and a verdict on disk
\* follows from the ballots on disk.
VerdictSound ==
    \A p \in Proposals :
        LET yes == Tally(disk, p, "approve")
            no  == Tally(disk, p, "deny")
        IN  /\ \A b, c \in disk.ballots : b.prop = c.prop /\ b.voter = c.voter => b = c
            /\ disk.status[p] = "passed" => yes > 0 /\ 100 * yes >= Quorum * (yes + no)
            /\ disk.status[p] = "denied" => no > 0 /\ 100 * no >= Quorum * (yes + no)

\* A verdict on disk is final and its ballots are frozen.
VerdictFinal ==
    [][\A p \in Proposals : disk.status[p] \notin {"none", "open"} =>
          /\ disk'.status[p] = disk.status[p]
          /\ {b \in disk'.ballots : b.prop = p} = {b \in disk.ballots : b.prop = p}]_storeVars

Spawn(p) == {n \in Nodes : disk.nodes[n] = p}

\* An agent that governance spawned has a proposal that passed although its
\* status is read outside the lock (an interrupted write that the closing of the
\* connection discards has been read already), and as long as the process lives
\* it is the only one.
SpawnGoverned ==
    \A p \in Proposals :
        /\ spent.interrupts = 0 /\ Spawn(p) # {} => disk.status[p] = "passed"
        /\ spent.kills = 0 => Cardinality(Spawn(p)) <= 1

\* What governance on SQLite rests on, interrupted or not: verdicts follow from their
\* ballots and are final, agents are spawned for passed proposals only.
GovernedBySqlite == [](VerdictSound /\ SpawnGoverned) /\ VerdictFinal
=============================================================================
