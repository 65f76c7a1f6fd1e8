----------------------------- MODULE MCServices -----------------------------
(***************************************************************************)
(* Small instances of three services: tasks, the Telegram gateway, and the  *)
(* memory with its aging passes.                                            *)
(* They share no state: the initial state chooses the one that moves, so    *)
(* their state spaces add up instead of multiplying.                        *)
(***************************************************************************)
EXTENDS Naturals

CONSTANTS
    Tasks, Calls, Workers, Priorities, MaxSubtasks, MaxRetries, MaxRestarts,
    N, MaxSeen, Limit, MaxFaults,
    Items, Ops, NewTiers, AgingThreshold, MaxDays, MaxOps, MaxInterrupts,
    None

\* Task.priority has its bounds (kernel/tasks.py); None is no task, call or status.
ASSUME ExecutionAssumption ==
    /\ Priorities \subseteq 0 .. 10 /\ MaxSubtasks \in Nat
    /\ None \notin Tasks \cup Calls
    /\ None \notin {"pending", "running", "completed", "failed", "blocked"}

ASSUME GatewayAssumption == N \in Nat /\ Limit \in Nat

\* Callers name a tier of the scale; None is no row.
ASSUME MemoryAssumption ==
    /\ NewTiers \subseteq 0 .. 4
    /\ None \notin [tier : 0 .. 4, accessed : Nat]

VARIABLES
    focus,
    client, status, priority, pending, busy, running, state, cancelled, open, restarts,
    findings, audited, memory, pc, call,
    beta, kind, sent, confirmed, saved, row, names, up, offset, seen, batch, at, res,
    answered, dropped, faults,
    mem, fts, disk, used, op, aging, day, done, interrupts, acked, broken

\* Days after which an item leaves each tier.
MaxIdle == <<1, 1, 0, 0>>

Execution == INSTANCE TaskExecution
Gateway   == INSTANCE TelegramGateway WITH pc <- at
Memories  == INSTANCE Memory WITH MaxFaults <- MaxInterrupts, faults <- interrupts

execution == <<client, status, priority, pending, busy, running, state, cancelled, open,
               restarts, findings, audited, memory, pc, call>>
gateway   == <<beta, kind, sent, confirmed, saved, row, names, up, offset, seen, batch, at, res,
               answered, dropped, faults>>
memories  == <<mem, fts, disk, used, op, aging, day, done, interrupts, acked, broken>>
vars      == <<focus, execution, gateway, memories>>

Init ==
    /\ focus \in {"execution", "gateway", "memories"}
    /\ Execution!Init /\ (focus # "execution" => client = "api")
    /\ Gateway!Init /\ (focus # "gateway" => ~beta /\ kind = [u \in 1 .. N |-> "text"])
    /\ Memories!Init

Next ==
    \/ focus = "execution" /\ Execution!Next /\ UNCHANGED <<focus, gateway, memories>>
    \/ focus = "gateway" /\ Gateway!Next /\ UNCHANGED <<focus, execution, memories>>
    \/ focus = "memories" /\ Memories!Next /\ UNCHANGED <<focus, execution, gateway>>

\* The fairness of the component that moves; nothing is asked of the memory.
Spec ==
    /\ Init /\ [][Next]_vars
    /\ \A c \in Calls : WF_execution(focus = "execution" /\ Execution!Step(c))
    /\ WF_gateway(focus = "gateway" /\ Gateway!Work)

\* TaskExecution's TasksConsistent (queue, running tasks and records agree with what goes
\* on) and CancellationLasts (no model call after a cancellation, no end is taken back).
ExecutionSound == 
    /\ [](focus = "execution" => Execution!TasksConsistent)
    /\ [][focus = "execution" => Execution!CancellationLasts]_execution

\* TelegramGateway's NoneLost (an update that is forgotten was answered or refused) and
\* NameOnce (a redelivered update does not repeat its effect).
GatewaySound == focus = "gateway" => Gateway!NoneLost /\ Gateway!NameOnce

\* Memory's IndexMirrors (rows and full-text index agree, on disk too) and
\* AcknowledgedLasts (what store() acknowledged survives every kill).
MemorySound == focus = "memories" => Memories!IndexMirrors /\ Memories!AcknowledgedLasts

\* What must happen: a running task ends (TaskExecution's ExecutionEnds) and every update is
\* passed (TelegramGateway's AllPassed).
ServicesProgress == Execution!ExecutionEnds /\ Gateway!AllPassed
=============================================================================
