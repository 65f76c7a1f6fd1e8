---------------------------- MODULE LatticeLease ----------------------------
(***************************************************************************)
(* Who owns the process-wide Lattice and when its connection is closed      *)
(* (src/agency/lattice/factory.py).                                         *)
(*                                                                         *)
(* Event loops run in threads of one process.  A manager belongs to the     *)
(* loop that installed it and is dropped when nobody uses it and it has no  *)
(* generation.  A generation is one Lattice with one backend connection;    *)
(* leases and the pin of get_lattice keep it alive.  What a task does under *)
(* the manager's lock is one action up to its next await; the waits are for *)
(* the lock, for backend.initialize and for backend.close, each of which    *)
(* may fail or be cancelled.                                                *)
(*                                                                         *)
(* A call from a foreign loop raises before it changes anything and is not  *)
(* an action.                                                               *)
(***************************************************************************)
EXTENDS Naturals, FiniteSets

CONSTANTS
    Tasks, Loops, LoopOf,   \* tasks and the event loop each runs on
    Managers, Generations, Leases, \* object identities, each used once
    Configs, Default,       \* configurations, and what get_config returns
    None

ASSUME LeaseAssumption ==
    /\ LoopOf \in [Tasks -> Loops]
    /\ Default \in Configs
    /\ None \notin Tasks \cup Loops \cup Managers \cup Generations \cup Leases \cup Configs
    /\ None \notin [manager : Managers, generation : Generations]

VARIABLES
    manager,  \* _manager
    loop,     \* loop of each manager, None before it is created
    users,    \* tasks that each manager counts in users
    lock,     \* holder of each manager's asyncio.Lock
    gen,      \* generation of each manager
    ready, tokens, pin, config, \* the fields of each generation
    conn,     \* its backend connection: new, none, open or closed
    issued,   \* manager and generation of each lease, None before it is issued
    pc, job   \* where each task stands, and the call it makes

manVars  == <<manager, loop, users, lock>>
genVars  == <<gen, ready, tokens, pin, config, conn, issued>>
taskVars == <<pc, job>>
vars     == <<manVars, genVars, taskVars>>

NoJob == [op |-> "none", arg |-> None, on |-> None]

Init ==
    /\ manager = None
    /\ loop = [m \in Managers |-> None]
    /\ users = [m \in Managers |-> {}]
    /\ lock = [m \in Managers |-> None]
    /\ gen = [m \in Managers |-> None]
    /\ ready = [g \in Generations |-> FALSE]
    /\ tokens = [g \in Generations |-> {}]
    /\ pin = [g \in Generations |-> FALSE]
    /\ config = [g \in Generations |-> None]
    /\ conn = [g \in Generations |-> "new"]
    /\ issued = [l \in Leases |-> None]
    /\ pc = [t \in Tasks |-> "idle"]
    /\ job = [t \in Tasks |-> NoJob]

-----------------------------------------------------------------------------
(* _guard.                                                                 *)

\* The reservation that a call makes in manager m under _manager_lock.
Reserve(t, m, op, arg) ==
    /\ users' = [users EXCEPT ![m] = @ \cup {t}]
    /\ pc' = [pc EXCEPT ![t] = "wait"]
    /\ job' = [job EXCEPT ![t] = [op |-> op, arg |-> arg, on |-> m]]
    /\ UNCHANGED <<lock, genVars>>

\* The installed manager if it is of this loop, or a new one if there is none.
Enter(t, op, arg) ==
    /\ pc[t] = "idle"
    /\ \/ /\ manager # None /\ loop[manager] = LoopOf[t]
          /\ Reserve(t, manager, op, arg)
          /\ UNCHANGED <<manager, loop>>
       \/ \E m \in Managers :
              /\ manager = None /\ loop[m] = None
              /\ manager' = m
              /\ loop' = [loop EXCEPT ![m] = LoopOf[t]]
              /\ Reserve(t, m, op, arg)

MutDropsUsedManager(m, t, g) == m = manager /\ users[m] = {t}

\* The finally clause of _guard drops a manager nobody needs.
Unneeded(m, t, g) == m = manager /\ users[m] = {t} /\ g = None

MutKeepsLock(t, g) ==
    LET m == job[t].on
    IN  /\ users' = [users EXCEPT ![m] = @ \ {t}]
        /\ manager' = IF Unneeded(m, t, g) THEN None ELSE manager
        /\ gen' = [gen EXCEPT ![m] = g]
        /\ pc' = [pc EXCEPT ![t] = "idle"]
        /\ job' = [job EXCEPT ![t] = NoJob]
        /\ UNCHANGED <<loop, lock>>

\* The call of t returns or raises; g is its manager's generation by then.
Leave(t, g) ==
    LET m == job[t].on
    IN  /\ users' = [users EXCEPT ![m] = @ \ {t}]
        /\ lock' = [lock EXCEPT ![m] = IF @ = t THEN None ELSE @]
        /\ manager' = IF Unneeded(m, t, g) THEN None ELSE manager
        /\ gen' = [gen EXCEPT ![m] = g]
        /\ pc' = [pc EXCEPT ![t] = "idle"]
        /\ job' = [job EXCEPT ![t] = NoJob]
        /\ UNCHANGED loop

Current(t) == gen[job[t].on]

\* Now t holds the lock.
TakesLock(t) == lock' = [lock EXCEPT ![job[t].on] = t]

-----------------------------------------------------------------------------
(* The calls.                                                              *)

\* The bound on object identities: there are enough for everyone who waits.
Room ==
    LET waiting == {t \in Tasks : job[t].op \in {"acquire", "get"}}
    IN  /\ Cardinality(waiting) < Cardinality({g \in Generations : conn[g] = "new"})
        /\ Cardinality(waiting) < Cardinality({l \in Leases : issued[l] = None})

AcquireLattice(t, c) == Room /\ Enter(t, "acquire", c)

GetLattice(t, c) == Room /\ Enter(t, "get", c)

\* A lease names its own manager, which may have been dropped.
Release(t, l) ==
    /\ pc[t] = "idle" /\ issued[l] # None
    /\ loop[issued[l].manager] = LoopOf[t]
    /\ Reserve(t, issued[l].manager, "release", l)
    /\ UNCHANGED <<manager, loop>>

\* Before it enters, reset_lattice refuses if there are leases or an initializer.
ResetLattice(t) ==
    /\ manager # None =>
           /\ gen[manager] # None => tokens[gen[manager]] = {}
           /\ \A u \in users[manager] : pc[u] \notin {"init", "undo"}
    /\ Enter(t, "reset", None)

\* Cancelled in the queue of the lock.
CancelWait(t) ==
    /\ pc[t] = "wait"
    /\ Leave(t, Current(t))
    /\ UNCHANGED <<ready, tokens, pin, config, conn, issued>>

Locked(t) == pc[t] = "wait" /\ lock[job[t].on] = None

\* A lease is issued, or the generation is pinned.
Publish(t, g) ==
    \/ /\ job[t].op = "acquire"
       /\ \E l \in Leases :
              /\ issued[l] = None
              /\ issued' = [issued EXCEPT ![l] = [manager |-> job[t].on, generation |-> g]]
              /\ tokens' = [tokens EXCEPT ![g] = @ \cup {l}]
       /\ UNCHANGED pin
    \/ /\ job[t].op = "get"
       /\ pin' = [pin EXCEPT ![g] = TRUE]
       /\ UNCHANGED <<issued, tokens>>

\* The generation that exists serves only if it is ready and configured alike.
Serves(t) == ready[Current(t)] /\ job[t].arg \in {None, config[Current(t)]}

Share(t) ==
    /\ Locked(t) /\ job[t].op \in {"acquire", "get"}
    /\ Current(t) # None /\ Serves(t)
    /\ Publish(t, Current(t))
    /\ Leave(t, Current(t))
    /\ UNCHANGED <<ready, config, conn>>

Refuse(t) ==
    /\ Locked(t) /\ job[t].op \in {"acquire", "get"}
    /\ Current(t) # None /\ ~Serves(t)
    /\ Leave(t, Current(t))
    /\ UNCHANGED <<ready, tokens, pin, config, conn, issued>>

\* The first call creates the generation and initializes its backend.
Create(t) ==
    /\ Locked(t) /\ job[t].op \in {"acquire", "get"} /\ Current(t) = None
    /\ \E g \in Generations :
           /\ conn[g] = "new"
           /\ gen' = [gen EXCEPT ![job[t].on] = g]
           /\ config' = [config EXCEPT ![g] =
                            IF job[t].arg = None THEN Default ELSE job[t].arg]
           /\ conn' = [conn EXCEPT ![g] = "none"]
    /\ TakesLock(t)
    /\ pc' = [pc EXCEPT ![t] = "init"]
    /\ UNCHANGED <<manager, loop, users, ready, tokens, pin, issued, job>>

Initialized(t) ==
    /\ pc[t] = "init"
    /\ ready' = [ready EXCEPT ![Current(t)] = TRUE]
    /\ conn' = [conn EXCEPT ![Current(t)] = "open"]
    /\ Publish(t, Current(t))
    /\ Leave(t, Current(t))
    /\ UNCHANGED config

\* initialize raises or is cancelled, having closed its connection or not.
InitializeFails(t) ==
    /\ pc[t] = "init"
    /\ \E left \in {"none", "open"} : conn' = [conn EXCEPT ![Current(t)] = left]
    /\ pc' = [pc EXCEPT ![t] = "undo"]
    /\ UNCHANGED <<manVars, gen, ready, tokens, pin, config, issued, job>>

\* The cleanup, drained against cancellation.  If it fails too, the generation
\* stays, not ready.
UndoStart(t) ==
    /\ pc[t] = "undo"
    /\ \/ /\ conn' = [conn EXCEPT ![Current(t)] = "closed"]
          /\ Leave(t, None)
       \/ Leave(t, Current(t)) /\ UNCHANGED conn
    /\ UNCHANGED <<ready, tokens, pin, config, issued>>

\* The lease was released before, maybe through a copy of it.
ReleaseAgain(t) ==
    /\ Locked(t) /\ job[t].op = "release"
    /\ job[t].arg \notin tokens[issued[job[t].arg].generation]
    /\ Leave(t, Current(t))
    /\ UNCHANGED <<ready, tokens, pin, config, conn, issued>>

MutReadyWhileClosing(t, g) == ready' = ready

\* _retire takes the generation out of service before it awaits the close.
StopServing(t, g) == ready' = [ready EXCEPT ![g] = FALSE]

MutIgnoresPin(g) == tokens'[g] = {}

LastOwner(g) == tokens'[g] = {} /\ ~pin[g]

ReleaseToken(t) ==
    LET l == job[t].arg
        g == issued[l].generation
    IN  /\ Locked(t) /\ job[t].op = "release" /\ l \in tokens[g]
        /\ tokens' = [tokens EXCEPT ![g] = @ \ {l}]
        /\ \/ /\ LastOwner(g)
              /\ StopServing(t, g)
              /\ TakesLock(t)
              /\ pc' = [pc EXCEPT ![t] = "retire"]
              /\ UNCHANGED <<manager, loop, users, gen, job>>
           \/ ~LastOwner(g) /\ Leave(t, Current(t)) /\ UNCHANGED ready
        /\ UNCHANGED <<pin, config, conn, issued>>

\* The second check of reset_lattice, under the lock.
Quiescent(t) == Current(t) # None /\ tokens[Current(t)] = {}

ResetStarts(t) ==
    /\ Locked(t) /\ job[t].op = "reset" /\ Quiescent(t)
    /\ pin' = [pin EXCEPT ![Current(t)] = FALSE]
    /\ StopServing(t, Current(t))
    /\ TakesLock(t)
    /\ pc' = [pc EXCEPT ![t] = "retire"]
    /\ UNCHANGED <<manager, loop, users, gen, tokens, config, conn, issued, job>>

ResetNothing(t) ==
    /\ Locked(t) /\ job[t].op = "reset" /\ ~Quiescent(t)
    /\ Leave(t, Current(t))
    /\ UNCHANGED <<ready, tokens, pin, config, conn, issued>>

\* close succeeds, or it succeeds and the caller was cancelled, or it fails:
\* only in the first case is the generation dropped.
Retire(t) ==
    /\ pc[t] = "retire"
    /\ \/ /\ conn' = [conn EXCEPT ![Current(t)] = "closed"]
          /\ \E g \in {None, Current(t)} : Leave(t, g)
       \/ Leave(t, Current(t)) /\ UNCHANGED conn
    /\ UNCHANGED <<ready, tokens, pin, config, issued>>

Call(t) ==
    \/ \E c \in Configs \cup {None} : AcquireLattice(t, c) \/ GetLattice(t, c)
    \/ \E l \in Leases : Release(t, l)
    \/ ResetLattice(t)

LockStep(t) ==
    \/ Share(t) \/ Refuse(t) \/ Create(t)
    \/ ReleaseAgain(t) \/ ReleaseToken(t)
    \/ ResetStarts(t) \/ ResetNothing(t)

AwaitStep(t) == Initialized(t) \/ InitializeFails(t) \/ UndoStart(t) \/ Retire(t)

Next == \E t \in Tasks : Call(t) \/ CancelWait(t) \/ LockStep(t) \/ AwaitStep(t)

\* asyncio.Lock is first in, first out; initialize and close return or raise.
Fairness == \A t \in Tasks : SF_vars(LockStep(t)) /\ WF_vars(AwaitStep(t))

Safety == Init /\ [][Next]_vars
Spec == Safety /\ Fairness

-----------------------------------------------------------------------------
(* Properties.                                                             *)

Ops == {"none", "acquire", "get", "release", "reset"}
Job == [op : Ops, arg : Configs \cup Leases \cup {None}, on : Managers \cup {None}]

\* Every object keeps its type.
TypeOK ==
    /\ manager \in Managers \cup {None}
    /\ loop \in [Managers -> Loops \cup {None}]
    /\ users \in [Managers -> SUBSET Tasks]
    /\ lock \in [Managers -> Tasks \cup {None}]
    /\ gen \in [Managers -> Generations \cup {None}]
    /\ ready \in [Generations -> BOOLEAN]
    /\ tokens \in [Generations -> SUBSET Leases]
    /\ pin \in [Generations -> BOOLEAN]
    /\ config \in [Generations -> Configs \cup {None}]
    /\ conn \in [Generations -> {"new", "none", "open", "closed"}]
    /\ issued \in [Leases -> [manager : Managers, generation : Generations] \cup {None}]
    /\ pc \in [Tasks -> {"idle", "wait", "init", "undo", "retire"}]
    /\ job \in [Tasks -> Job]

\* Whoever holds a lease or has borrowed a pinned Lattice can use it: its
\* generation is ready, its connection open and it is the installed one.
OwnersServed ==
    \A g \in Generations : tokens[g] # {} \/ pin[g] =>
        /\ ready[g] /\ conn[g] = "open"
        /\ manager # None /\ gen[manager] = g

\* There is one open connection in the process, whatever loops and failures, and
\* the installed manager knows it, so that it can still be closed.
OneConnection ==
    \A g \in Generations : conn[g] = "open" => manager # None /\ gen[manager] = g

\* A connection is closed only when no lease and no pin is left, and a generation
\* taken out of service never serves again.
ClosedWhenUnused ==
    [][\A g \in Generations :
          /\ conn[g] = "open" /\ conn'[g] = "closed" => tokens[g] = {} /\ ~pin[g] /\ ~ready[g]
          /\ ready'[g] /\ ~ready[g] => conn[g] = "none"]_vars

\* Loops do not mix: only tasks of its loop are inside a manager, and one of
\* them at most is past its lock.
LoopOwnership ==
    \A m \in Managers :
        /\ \A t \in users[m] : LoopOf[t] = loop[m]
        /\ \A t, u \in users[m] :
              pc[t] \notin {"idle", "wait"} /\ pc[u] \notin {"idle", "wait"} => t = u

\* Nobody waits forever for the lock of a manager.
CallsReturn == \A t \in Tasks : pc[t] = "wait" ~> pc[t] = "idle"
=============================================================================
