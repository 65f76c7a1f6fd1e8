---------------------------- MODULE TaskExecution ----------------------------
(***************************************************************************)
(* Tasks and their execution outside the owner pilot: the task manager      *)
(* (kernel/tasks.py), submit_task and execute_task of the orchestrator with *)
(* its start and stop, the planner and its workers (agents/planner.py,      *)
(* agents/registry.py) and the executor with retries, timeouts and          *)
(* cancellation (agents/executor.py).                                       *)
(*                                                                         *)
(* No method of the task manager awaits while it holds its lock, so each    *)
(* one is a step.  Executions interleave at the model, the tools, the      *)
(* backoff, the evidence store, the audit log and the memory store.  The   *)
(* executor keys its status, its cancellations and the running coroutine by *)
(* the id of the task: all subtasks of a task share them.                   *)
(***************************************************************************)
EXTENDS Naturals, Sequences, FiniteSets, SequencesExt

CONSTANTS
    Tasks, Calls, Workers,
    Priorities,
    MaxSubtasks,        \* bound: subtasks of a plan
    MaxRetries,         \* retries of a model call after its first attempt
    MaxRestarts,        \* bound: stops of the orchestrator
    None

VARIABLES
    client,     \* whose manager this is: the orchestrator's, or the REST API's own
    status,     \* of each task, None before it is created
    priority,   \* of each task
    pending,    \* the tasks in _pending, in the order of their sequence numbers
    busy,       \* runtime agents with status BUSY
    running,    \* executor: the call whose coroutine _running holds for a task
    state,      \* executor: _statuses
    cancelled,  \* executor: _cancelled
    open,       \* the orchestrator is started: tool layer and stores are there
    restarts,   \* stops so far
    findings, audited,  \* (history) subtasks acknowledged by the two stores
    memory,     \* tasks whose completion is in the memory store
    pc, call    \* where each execute_task stands, and its locals

manager  == <<status, priority, pending>>
executor == <<running, state, cancelled>>
records  == <<findings, audited, memory>>
vars     == <<client, manager, busy, executor, open, restarts, records, pc, call>>

Statuses == {"pending", "running", "completed", "failed", "blocked"}
NoCall == [task |-> None, path |-> "classic", plan |-> 0, at |-> 0, attempt |-> 0, done |-> {}]

Init ==
    /\ client \in {"orchestrator", "api"}
    /\ status = [t \in Tasks |-> None]
    /\ priority = [t \in Tasks |-> 0]
    /\ pending = <<>>
    /\ busy = {}
    /\ running = [t \in Tasks |-> None]
    /\ state = [t \in Tasks |-> None]
    /\ cancelled = {}
    /\ open = FALSE /\ restarts = 0
    /\ findings = [t \in Tasks |-> {}]
    /\ audited = [t \in Tasks |-> {}]
    /\ memory = {}
    /\ pc = [c \in Calls |-> "idle"]
    /\ call = [c \in Calls |-> NoCall]

-----------------------------------------------------------------------------
(* The task manager.                                                       *)

Legal ==
    [pending   |-> {"running", "blocked", "failed", "completed"},
     running   |-> {"completed", "failed", "blocked"},
     blocked   |-> {"pending", "failed", "completed"},
     completed |-> {},
     failed    |-> {}]

\* _drop_from_pending (no task is queued twice, see TasksConsistent), and _enqueue at the
\* end for a task that is pending again.
Requeued(t, s) ==
    LET rest == RemoveFirst(pending, t)
    IN  IF s = "pending" THEN Append(rest, t) ELSE rest

\* update_status, which raises for a transition that is not legal.
SetStatus(t, s) ==
    /\ status[t] # None /\ s \in Legal[status[t]]
    /\ status' = [status EXCEPT ![t] = s]
    /\ pending' = Requeued(t, s)
    /\ UNCHANGED priority

\* The orchestrator's submit_task leaves the priority at 0.
CreateTask(t, p) ==
    /\ status[t] = None
    /\ client = "orchestrator" => p = 0
    /\ status' = [status EXCEPT ![t] = "pending"]
    /\ priority' = [priority EXCEPT ![t] = p]
    /\ pending' = Append(pending, t)
    /\ UNCHANGED <<client, busy, executor, open, restarts, records, pc, call>>

\* PATCH /tasks/{id}: any legal transition, by the clients of the REST API.
UpdateStatus(t, s) ==
    /\ client = "api" /\ SetStatus(t, s)
    /\ UNCHANGED <<client, busy, executor, open, restarts, records, pc, call>>

\* Highest priority first, then first come first served.
Foremost(q) ==
    CHOOSE i \in DOMAIN q : \A j \in DOMAIN q :
        \/ priority[q[i]] > priority[q[j]]
        \/ priority[q[i]] = priority[q[j]] /\ i <= j

\* Offered to whoever schedules tasks; the orchestrator does not use it.
TakeNextPending ==
    /\ client = "api" /\ pending # <<>>
    /\ LET i == Foremost(pending) IN
          /\ status' = [status EXCEPT ![pending[i]] = "running"]
          /\ pending' = RemoveAt(pending, i)
    /\ UNCHANGED <<client, priority, busy, executor, open, restarts, records, pc, call>>

-----------------------------------------------------------------------------
(* How an execution goes on.                                               *)

Goto(c, place, locals) ==
    /\ pc' = [pc EXCEPT ![c] = place]
    /\ call' = [call EXCEPT ![c] = IF place = "idle" THEN NoCall ELSE locals]

\* The executor's books for task t: its status, and the coroutine or None.
Books(t, s, c) ==
    /\ state' = [state EXCEPT ![t] = s]
    /\ running' = [running EXCEPT ![t] = c]
    /\ UNCHANGED cancelled

MutReraises(t) == UNCHANGED manager

\* execute_task's handler: a task that is still RUNNING ends as FAILED.
Fail(t) == SetStatus(t, "failed")

\* The call raises: its coroutine is gone, the task is FAILED.
Raise(c) == Fail(call[c].task) /\ Goto(c, "idle", NoCall)

\* Every subtask has run: a completed task is remembered first, a failed one ends.
Conclude(c, locals) ==
    IF locals.done = 1 .. locals.plan
    THEN Goto(c, "memory", locals) /\ UNCHANGED manager
    ELSE SetStatus(locals.task, "failed") /\ Goto(c, "idle", locals)

\* An attempt starts unless the id of the task was cancelled.
MayAttempt(t) == t \notin cancelled

\* execute() for the next subtask.  A cancelled id ends each of the remaining ones
\* without an await; s is what the books say of the subtask before.
NextSubtask(c, locals, s) ==
    LET next == [locals EXCEPT !.at = @ + 1, !.attempt = 0]
        t    == locals.task
    IN  IF next.at > locals.plan
        THEN Conclude(c, locals) /\ Books(t, s, None)
        ELSE IF MayAttempt(t)
        THEN Goto(c, "model", next) /\ Books(t, "running", c) /\ UNCHANGED manager
        ELSE Conclude(c, locals) /\ Books(t, "cancelled", None)

-----------------------------------------------------------------------------
(* execute_task.                                                           *)

\* plan() assigns each subtask of the default strategy to an idle worker.
Assigned(n) ==
    {b \in SUBSET Workers : busy \subseteq b
        /\ LET idle == Cardinality(Workers \ busy)
           IN  Cardinality(b \ busy) = IF n < idle THEN n ELSE idle}

\* The task becomes RUNNING, or update_status raises and nothing happens.  An agent
\* with a tool domain runs the tool loop, unless the orchestrator is not started; the
\* loop counts as one subtask.
ExecuteTask(c, t, n, path) ==
    LET locals == [NoCall EXCEPT !.task = t, !.path = path,
                                 !.plan = IF path = "tool" THEN 1 ELSE n]
    IN  /\ client = "orchestrator" /\ pc[c] = "idle" /\ status[t] = "pending"
        /\ path = "tool" => open
        /\ status' = [status EXCEPT ![t] = "running"]
        /\ pending' = Requeued(t, "running")
        /\ busy' \in Assigned(n)
        /\ IF path = "tool"
           THEN Goto(c, "tool", locals) /\ UNCHANGED executor
           ELSE Goto(c, "model", [locals EXCEPT !.at = 1]) /\ Books(t, "running", c)
        /\ UNCHANGED <<client, priority, open, restarts, records>>

\* The description is blank and the planner raises.
ExecuteBlank(t) ==
    /\ client = "orchestrator" /\ status[t] = "pending"
    /\ status' = [status EXCEPT ![t] = "failed"]
    /\ pending' = Requeued(t, "failed")
    /\ UNCHANGED <<client, priority, busy, executor, open, restarts, records, pc, call>>

Keep == UNCHANGED <<client, busy, open, restarts>>

\* The model answers: the answer is verified and becomes a finding.
Answer(c) ==
    /\ pc[c] = "model"
    /\ Goto(c, "finding", call[c]) /\ Books(call[c].task, "completed", None)
    /\ Keep /\ UNCHANGED <<manager, records>>

\* A blank answer is a failed subtask that the executor calls completed; programming
\* errors fail the subtask at once.
Unusable(c) ==
    /\ pc[c] = "model"
    /\ \E s \in {"completed", "failed"} : NextSubtask(c, call[c], s)
    /\ Keep /\ UNCHANGED records

\* A timeout or a transient error: again after a pause, or the subtask has failed.
AttemptFails(c) ==
    /\ pc[c] = "model"
    /\ IF call[c].attempt < MaxRetries
       THEN /\ Goto(c, "backoff", [call[c] EXCEPT !.attempt = @ + 1])
            /\ UNCHANGED <<manager, executor>>
       ELSE \E s \in {"timeout", "failed"} : NextSubtask(c, call[c], s)
    /\ Keep /\ UNCHANGED records

Retry(c) ==
    LET t == call[c].task
    IN  /\ pc[c] = "backoff"
        /\ IF MayAttempt(t)
           THEN Goto(c, "model", call[c]) /\ UNCHANGED <<manager, executor>>
           ELSE NextSubtask(c, call[c], "cancelled")
        /\ Keep /\ UNCHANGED records

\* A metered model denies the call or does not know its outcome.
MeteredBlocks(c) ==
    /\ pc[c] = "model"
    /\ Raise(c) /\ Books(call[c].task, "failed", None)
    /\ Keep /\ UNCHANGED records

FindingStored(c) ==
    /\ pc[c] = "finding" /\ open
    /\ findings' = [findings EXCEPT ![call[c].task] = @ \cup {call[c].at}]
    /\ Goto(c, "audit", call[c])
    /\ Keep /\ UNCHANGED <<manager, executor, audited, memory>>

\* The subtask is done, and on to the next.
Audited(c) ==
    LET l == call[c]
    IN  /\ pc[c] = "audit" /\ open
        /\ audited' = [audited EXCEPT ![l.task] = @ \cup {l.at}]
        /\ NextSubtask(c, [l EXCEPT !.done = @ \cup {l.at}], state[l.task])
        /\ Keep /\ UNCHANGED <<findings, memory>>

\* The tool loop returns an answer, or none.
ToolLoopEnds(c) ==
    /\ pc[c] = "tool"
    /\ \E done \in {{}, {1}} : Conclude(c, [call[c] EXCEPT !.done = done])
    /\ Keep /\ UNCHANGED <<executor, records>>

MutCompletesFirst(c) ==
    /\ pc[c] = "memory"
    /\ SetStatus(call[c].task, "completed") /\ Goto(c, "idle", NoCall)
    /\ Keep /\ UNCHANGED <<executor, records>>

\* Required persistence first, terminal status last.
MemoryStored(c) ==
    /\ pc[c] = "memory"
    /\ memory' = memory \cup {call[c].task}
    /\ SetStatus(call[c].task, "completed") /\ Goto(c, "idle", NoCall)
    /\ Keep /\ UNCHANGED <<executor, findings, audited>>

\* A store or the tool loop raises, or the coroutine is cancelled there; the memory
\* may have been written.
StepRaises(c) ==
    /\ pc[c] \in {"finding", "audit", "tool", "memory"}
    /\ Raise(c)
    /\ memory' \in {memory, memory \cup ({call[c].task} \cap
                                {t \in Tasks : pc[c] = "memory"})}
    /\ Keep /\ UNCHANGED <<executor, findings, audited>>

\* CancelledError inside the executor: during an attempt its status tells, during a
\* backoff it does not.
Interrupted(c, s) ==
    /\ pc[c] \in {"model", "backoff"}
    /\ Raise(c)
    /\ state' = [state EXCEPT ![call[c].task] = IF pc[c] = "model" THEN "cancelled" ELSE s]
    /\ running' = [running EXCEPT ![call[c].task] = None]

\* The caller of execute_task is cancelled.
CallerCancelled(c) ==
    /\ pc[c] \in {"model", "backoff"}
    /\ Interrupted(c, state[call[c].task])
    /\ Keep /\ UNCHANGED <<cancelled, records>>

\* AgentExecutor.cancel: the coroutine is interrupted; a model that absorbs the
\* cancellation goes on.
ExecutorCancel(t) ==
    /\ state[t] = "running"
    /\ cancelled' = cancelled \cup {t}
    /\ \/ running[t] # None /\ Interrupted(running[t], "cancelled")
       \/ /\ running[t] # None => pc[running[t]] = "model"
          /\ state' = [state EXCEPT ![t] = "cancelled"]
          /\ UNCHANGED <<manager, running, pc, call>>
    /\ Keep /\ UNCHANGED records

Start ==
    /\ client = "orchestrator" /\ ~open
    /\ open' = TRUE
    /\ UNCHANGED <<client, manager, busy, executor, restarts, records, pc, call>>

\* stop() closes the stores under the executions in flight.
Stop ==
    /\ open /\ restarts < MaxRestarts
    /\ open' = FALSE /\ restarts' = restarts + 1
    /\ UNCHANGED <<client, manager, busy, executor, records, pc, call>>

Step(c) ==
    \/ Answer(c) \/ Unusable(c) \/ AttemptFails(c) \/ Retry(c) \/ MeteredBlocks(c)
    \/ FindingStored(c) \/ Audited(c) \/ ToolLoopEnds(c) \/ MemoryStored(c)
    \/ StepRaises(c)

Next ==
    \/ \E t \in Tasks :
          \/ \E p \in Priorities : CreateTask(t, p)
          \/ \E s \in Statuses : UpdateStatus(t, s)
          \/ \E c \in Calls, n \in 1 .. MaxSubtasks, path \in {"classic", "tool"} :
                ExecuteTask(c, t, n, path)
          \/ ExecuteBlank(t) \/ ExecutorCancel(t)
    \/ TakeNextPending
    \/ \E c \in Calls : Step(c) \/ CallerCancelled(c)
    \/ Start \/ Stop

\* Model calls have timeouts, stores answer or raise, the event loop resumes.
Fairness == \A c \in Calls : WF_vars(Step(c))

Spec == Init /\ [][Next]_vars /\ Fairness

-----------------------------------------------------------------------------
(* Properties.                                                             *)

On(t) == {c \in Calls : pc[c] # "idle" /\ call[c].task = t}

\* The manager's books agree with what goes on: the queue holds every PENDING task
\* once and no other; a task is RUNNING exactly while one execution works on it,
\* whatever was cancelled, raised or stopped; and a COMPLETED one is in the memory store,
\* which it enters after the finding and the audit entry of each of its subtasks.
TasksConsistent ==
    /\ \A t \in Tasks :
          Cardinality({i \in DOMAIN pending : pending[i] = t}) =
              IF status[t] = "pending" THEN 1 ELSE 0
    /\ client = "orchestrator" => \A t \in Tasks :
          /\ Cardinality(On(t)) = IF status[t] = "running" THEN 1 ELSE 0
          /\ status[t] = "completed" => t \in memory
          /\ running[t] # None => running[t] \in On(t)
    /\ \A c \in Calls : pc[c] = "memory" /\ call[c].path = "classic" =>
          LET t == call[c].task IN findings[t] \cap audited[t] = 1 .. call[c].plan

\* Ended tasks stay ended, and the executor's cancellation lasts: no model call starts
\* for a task after cancel() returned true, not by a retry and not by a later subtask.
CancellationLasts ==
    /\ \A t \in Tasks : status[t] \in {"completed", "failed"} => status'[t] = status[t]
    /\ \A c \in Calls :
          pc'[c] = "model" /\ <<pc[c], call[c]>> # <<pc'[c], call'[c]>> =>
              call'[c].task \notin cancelled

\* Every task that is RUNNING in the orchestrator ends: retries, remaining subtasks,
\* failures of the stores and cancellations all lead to COMPLETED or FAILED.
ExecutionEnds ==
    \A t \in Tasks : client = "orchestrator" /\ status[t] = "running" ~>
                         status[t] \in {"completed", "failed"}
=============================================================================
