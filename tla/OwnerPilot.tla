----------------------------- MODULE OwnerPilot -----------------------------
(***************************************************************************)
(* One durable owner turn, end to end: OwnerPilotService                    *)
(* (src/agency/admission/service.py) driving OwnerPilotStore (store.py),    *)
(* OwnerBudgetAdapter (budget.py) with the quota ledger behind it,          *)
(* MeteredModel (llm/metered.py), the owner path of ToolRegistry            *)
(* (tools/registry.py) and BetaAuditLog (kernel/audit.py).                  *)
(*                                                                         *)
(* Three stores are durable and independent: the pilot rows with the        *)
(* published transcript, the quota ledger and the audit log.  Everything    *)
(* else lives in the one process that holds the store's OS lock.            *)
(*                                                                         *)
(* The execution task is a sequence of awaits.  In stage pc it waits for a  *)
(* worker (io = "busy"); the worker commits, refuses or fails, and only     *)
(* then the coroutine resumes: _offload and _wait shield and drain the      *)
(* worker, so a cancellation is delivered after it.  The ownership checks   *)
(* (_active, _current), which read the row again, are evaluated where the   *)
(* coroutine resumes.                                                       *)
(***************************************************************************)
EXTENDS Integers, FiniteSets

CONSTANTS
    Requests,        \* request ids of turns; a row's sequence is its request
    NoRequest,       \* no active task, no lease
    MaxModelCalls,   \* grant.max_model_calls, at most 8
    MaxToolCalls     \* grant.max_tool_calls, at most 4

ASSUME PilotAssumption ==
    /\ NoRequest \notin Requests
    /\ MaxModelCalls \in 1 .. 8
    /\ MaxToolCalls \in 1 .. 4

VARIABLES
    \* durable: pilot_requests and thread_messages, requests, audit_entries
    row,         \* the turn's row, state "ABSENT" before admission
    transcript,  \* turns whose message pair is in thread_messages
    ledger,      \* state of the turn's quota request ("ABSENT" if none)
    charged,     \* model attempts counted by the quota ledger
    intents,     \* calls with a committed intent
    outcomes,    \* calls with a committed outcome
    \* the environment
    late,        \* turns whose deadline created_at + 120 has passed
    \* volatile: the service process
    up,          \* a process holds the lock and is _ready
    stopping,    \* _stopping, set together with the publication fence
    blocked,     \* _blocked of the service
    gate,        \* holder of the service's _gate
    target,      \* the turn the holder of the gate works on
    fresh,       \* _fresh_turns of the store
    dead,        \* _blocked_sequences of the store
    owned,       \* _owned of the adapter: state of the turn's lease
    lease,       \* _lease: the turn of the last lease issued
    \* volatile: the execution task
    active,      \* _active_task_id
    pc, io,      \* what the execution awaits, and how far the worker is
    kind,        \* whether the call in progress is a "model" or a "tool" call
    exc,         \* in the except clause: the exception counts as uncertain
    seen,        \* in the except clause: current.state
    signal,      \* a cancellation not yet delivered to the execution
    cancelling,  \* the execution was cancelled by _cancel or _stop
    \* history
    calls,       \* provider and tool calls that were really started
    interrupted  \* turns whose _perform a cancel() or stop() interrupted

durable  == <<row, transcript, ledger, charged, intents, outcomes>>
service  == <<up, stopping, blocked, gate, target>>
tables   == <<fresh, dead, owned, lease>>
task     == <<active, pc, io, kind, exc, seen, signal, cancelling>>
history  == <<calls, interrupted>>
vars     == <<durable, late, service, tables, task, history>>

States    == {"ADMITTED", "RUNNING", "COMPLETED", "FAILED", "DENIED",
              "CANCELLED", "UNCERTAIN"}
LiveRow   == {"ADMITTED", "RUNNING"}
Phases    == {"none", "admitted", "reserved", "running", "staged",
              "committed", "failed", "uncertain", "cancelled", "recovery"}
Row == [state : States \cup {"ABSENT"}, phase : Phases, cancel : BOOLEAN,
        staged : BOOLEAN, models : 0 .. MaxModelCalls, tools : 0 .. MaxToolCalls]
NoRow == [state |-> "ABSENT", phase |-> "none", cancel |-> FALSE,
          staged |-> FALSE, models |-> 0, tools |-> 0]

\* The awaits of _perform in order; "turn" stands for the driver between calls.
Performing == {"start", "claim", "reserve", "mark", "running", "turn",
               "attempt", "quota", "intent", "dispatch", "outcome",
               "stage", "finish", "commit"}
Handling   == {"inspect", "refund", "dispose"}
Done       == pc = "none"

\* A call is named by its turn and by how many attempts the turn had counted.
Calls == Requests \X (1 .. (MaxModelCalls + MaxToolCalls))
ThisCall == <<active, row[active].models + row[active].tools>>

-----------------------------------------------------------------------------
(* Reads.                                                                  *)

\* has_pending_calls: an intent without an outcome, of any turn.
Pending == intents \ outcomes

MutForgetsUncertainTurns == Pending # {} \/ blocked \/ stopping

\* _uncertainty.
Uncertainty ==
    \/ \E r \in Requests : row[r].state = "UNCERTAIN"
    \/ Pending # {}
    \/ blocked
    \/ stopping

\* OwnerBudgetAdapter.owns.
Owns(r) == owned[r] # "none" /\ r \notin dead /\ r \notin late

\* OwnerBudgetAdapter._active: a running lease over a running, uncancelled row.
Active(r) ==
    /\ Owns(r) /\ owned[r] = "RUNNING"
    /\ row[r].state = "RUNNING" /\ ~row[r].cancel

MutLiveIgnoresCancel(r) == row[r].state = "RUNNING" /\ r \notin late

\* OwnerPilotStore._live.
Uncancelled(r) == row[r].state = "RUNNING" /\ ~row[r].cancel
LiveTurn(r) == Uncancelled(r) /\ r \notin late

Revoked(r) == IF r = NoRequest THEN owned ELSE [owned EXCEPT ![r] = "none"]
SetRow(r, new) == row' = [row EXCEPT ![r] = new]

-----------------------------------------------------------------------------
Init ==
    /\ row = [r \in Requests |-> NoRow]
    /\ transcript = {}
    /\ ledger = [r \in Requests |-> "ABSENT"]
    /\ charged = [r \in Requests |-> 0]
    /\ intents = {} /\ outcomes = {}
    /\ late = {}
    /\ up = FALSE /\ stopping = FALSE /\ blocked = FALSE
    /\ gate = "free" /\ target = NoRequest
    /\ fresh = {} /\ dead = {}
    /\ owned = [r \in Requests |-> "none"] /\ lease = NoRequest
    /\ active = NoRequest /\ pc = "none" /\ io = "ok" /\ kind = "model"
    /\ exc = FALSE /\ seen = "ADMITTED" /\ signal = "no" /\ cancelling = FALSE
    /\ calls = {} /\ interrupted = {}

(* The process.                                                            *)

FreshProcess ==
    /\ stopping' = FALSE /\ blocked' = FALSE /\ gate' = "free" /\ target' = NoRequest
    /\ fresh' = {} /\ owned' = [r \in Requests |-> "none"] /\ lease' = NoRequest
    /\ active' = NoRequest /\ pc' = "none" /\ io' = "ok" /\ kind' = "model"
    /\ exc' = FALSE /\ seen' = "ADMITTED" /\ signal' = "no" /\ cancelling' = FALSE

Interrupted == {r \in Requests : row[r].state \in LiveRow}

\* recover_interrupted.
Recovered ==
    [r \in Requests |-> IF r \in Interrupted
        THEN [row[r] EXCEPT !.state = "UNCERTAIN", !.phase = "recovery"]
        ELSE row[r]]

\* start(): take the lock, open the three stores, recover interrupted turns.
Start ==
    /\ ~up
    /\ up' = TRUE
    /\ FreshProcess
    /\ row' = Recovered
    /\ dead' = Interrupted
    /\ UNCHANGED <<transcript, ledger, charged, intents, outcomes, late, history>>

\* The process is killed at any point; the kernel releases its lock.
Crash ==
    /\ up
    /\ up' = FALSE
    /\ FreshProcess /\ dead' = {}
    /\ UNCHANGED <<durable, late, history>>

\* The wall clock passes the deadline of a turn.
Expire(r) ==
    /\ row[r].state \in LiveRow /\ r \notin late
    /\ late' = late \cup {r}
    /\ UNCHANGED <<durable, service, tables, task, history>>

-----------------------------------------------------------------------------
(* submit, cancel, stop.                                                   *)

\* No row has this request id; an existing one makes the request a replay,
\* which returns the stored row and changes nothing.
IsNewRequest(r) == row[r].state = "ABSENT"

\* _submit under the gate, up to the admit transaction.
SubmitCheck(r) ==
    /\ up /\ gate = "free" /\ ~stopping
    /\ IsNewRequest(r)
    /\ Done
    /\ ~Uncertainty
    /\ gate' = "submit" /\ target' = r
    /\ UNCHANGED <<durable, late, up, stopping, blocked, tables, task, history>>

\* store.admit, then the execution task is created and the gate released.
SubmitAdmit ==
    /\ gate = "submit"
    /\ SetRow(target, [NoRow EXCEPT !.state = "ADMITTED", !.phase = "admitted"])
    /\ fresh' = fresh \cup {target}
    /\ active' = target /\ pc' = "start" /\ io' = "ok"
    /\ signal' = "no" /\ cancelling' = FALSE
    /\ gate' = "free" /\ target' = NoRequest
    /\ UNCHANGED <<transcript, ledger, charged, intents, outcomes, late, up,
                   stopping, blocked, dead, owned, lease, kind, exc, seen, history>>

\* The admit transaction fails: PilotError, nothing admitted.
SubmitFails ==
    /\ gate = "submit"
    /\ gate' = "free" /\ target' = NoRequest
    /\ UNCHANGED <<durable, late, up, stopping, blocked, tables, task, history>>

\* request_cancel's effect on the target row.
CancelledRow(r) ==
    [row[r] EXCEPT !.cancel = TRUE, !.phase = "cancelled",
        !.state = IF @ = "ADMITTED" /\ row[r].models = 0 /\ row[r].tools = 0
                  THEN "CANCELLED" ELSE @]

\* _cancel under the gate: request_cancel.  Its in-memory part is done before
\* COMMIT, so it stays when the commit fails and the request raises.
CancelRequest(r, commits) ==
    /\ up /\ gate = "free"
    /\ row[r].state # "ABSENT"
    /\ IF row[r].state \in LiveRow
       THEN /\ IF commits THEN SetRow(r, CancelledRow(r)) ELSE UNCHANGED row
            /\ fresh' = fresh \ {r} /\ dead' = dead \cup {r}
       ELSE UNCHANGED <<row, fresh, dead>>
    /\ IF commits /\ r = active
       THEN gate' = "cancel" /\ target' = r
       ELSE UNCHANGED <<gate, target>>
    /\ UNCHANGED <<transcript, ledger, charged, intents, outcomes, late, up,
                   stopping, blocked, owned, lease, task, history>>

\* _cancel after its await: revoke the lease and cancel the execution.
CancelSignal ==
    /\ gate = "cancel" /\ ~cancelling
    /\ owned' = Revoked(lease)
    /\ signal' = IF Done THEN "no" ELSE "cancel"
    /\ cancelling' = TRUE
    /\ UNCHANGED <<durable, late, service, fresh, dead, lease, active, pc, io,
                   kind, exc, seen, history>>

MutWaitsForTerminalRow ==
    /\ gate = "cancel" /\ cancelling /\ Done /\ row[target].state \notin LiveRow
    /\ gate' = "free" /\ target' = NoRequest
    /\ UNCHANGED <<durable, late, up, stopping, blocked, tables, task, history>>

\* _cancel returns once the execution task has ended.
CancelReturn ==
    /\ gate = "cancel" /\ cancelling /\ Done
    /\ gate' = "free" /\ target' = NoRequest
    /\ UNCHANGED <<durable, late, up, stopping, blocked, tables, task, history>>

\* stop(): the synchronous part, before it waits for the gate.
Stop ==
    /\ up /\ ~stopping
    /\ stopping' = TRUE
    /\ owned' = Revoked(lease)
    /\ UNCHANGED <<durable, late, up, blocked, gate, target, fresh, dead, lease,
                   task, history>>

\* _stop under the gate: revoke again, cancel the execution once.
StopSignal ==
    /\ stopping /\ gate = "free"
    /\ gate' = "stop"
    /\ owned' = Revoked(lease)
    /\ IF Done \/ cancelling \/ signal # "no"
       THEN UNCHANGED <<signal, cancelling>>
       ELSE signal' = "cancel" /\ cancelling' = TRUE
    /\ UNCHANGED <<durable, late, up, stopping, blocked, target, fresh, dead,
                   lease, active, pc, io, kind, exc, seen, history>>

\* _stop after the execution has drained: close the stores, release the lock.
StopClose ==
    /\ gate = "stop" /\ Done
    /\ up' = FALSE
    /\ FreshProcess /\ dead' = {}
    /\ UNCHANGED <<durable, late, history>>
-----------------------------------------------------------------------------
(* The execution task: moving between its awaits.                          *)

\* The coroutine runs on and awaits a worker (or, for "turn" and "dispatch",
\* something that has no worker of its own).
Await(stage) ==
    /\ pc' = stage
    /\ io' = IF stage \in {"turn", "dispatch"} THEN "ok" ELSE "busy"

\* An exception leaves _perform for the except clause of _execute.
Raise(uncertain) == pc' = "inspect" /\ io' = "ok" /\ exc' = uncertain

\* The execution task ends; its finally clause revokes the lease.
Finish ==
    /\ pc' = "none" /\ io' = "ok" /\ owned' = Revoked(lease)
    /\ kind' = "model" /\ exc' = FALSE /\ seen' = "ADMITTED"

\* The coroutine may go on: its worker has answered ok, nothing is to deliver.
Resumes(stage) == pc = stage /\ io = "ok" /\ signal = "no"

\* The stages whose except clause revokes the lease.
RevokingStages == {"mark", "running", "attempt", "quota", "finish"}

\* Frames: what a worker, or a resuming coroutine, leaves alone.
WorkerFrame == UNCHANGED <<late, service, owned, lease, active, pc, kind, exc,
                           seen, signal, cancelling, history>>
LoopFrame   == UNCHANGED <<durable, late, up, stopping, gate, target, fresh,
                           dead, active, signal, cancelling, interrupted>>
KeepLease   == UNCHANGED <<owned, lease>>

(* _perform up to the running lease.                                       *)

\* _perform's first check.
PerformStart ==
    /\ Resumes("start")
    /\ IF Uncertainty THEN Raise(TRUE) ELSE Await("claim") /\ UNCHANGED exc
    /\ KeepLease /\ UNCHANGED <<blocked, kind, seen, calls>> /\ LoopFrame

\* store._claim: only the process that admitted a turn may claim it, once.
ClaimAllowed(r) ==
    /\ r \in fresh
    /\ row[r].state = "ADMITTED" /\ row[r].phase = "admitted"
    /\ ~row[r].cancel /\ r \notin late

ClaimWorker ==
    /\ pc = "claim" /\ io = "busy"
    /\ IF ClaimAllowed(active)
       THEN /\ io' = "ok"
            /\ fresh' = fresh \ {active}
            /\ SetRow(active, [row[active] EXCEPT !.phase = "reserved"])
       ELSE io' = "no" /\ UNCHANGED <<fresh, row>>
    /\ UNCHANGED <<transcript, ledger, charged, intents, outcomes, dead>>
    /\ WorkerFrame

ClaimResume ==
    /\ Resumes("claim")
    /\ Await("reserve")
    /\ KeepLease /\ UNCHANGED <<exc, blocked, kind, seen, calls>> /\ LoopFrame

\* BetaBudgetStore.reserve_request: a new row, or a denial by its windows.
ReserveWorker ==
    /\ pc = "reserve" /\ io = "busy"
    /\ \/ /\ ledger[active] = "ABSENT"
          /\ io' = "ok"
          /\ ledger' = [ledger EXCEPT ![active] = "RESERVED"]
       \/ io' = "no" /\ UNCHANGED ledger
    /\ UNCHANGED <<row, transcript, charged, intents, outcomes, fresh, dead>>
    /\ WorkerFrame

\* reserve_request issues the lease, _current checks it, mark_running begins.
ReserveResume ==
    /\ Resumes("reserve")
    /\ IF active \in dead \/ active \in late \/ row[active].state # "ADMITTED"
       THEN Raise(FALSE) /\ UNCHANGED <<owned, lease>>
       ELSE /\ Await("mark") /\ UNCHANGED exc
            /\ owned' = [owned EXCEPT ![active] = "RESERVED"]
            /\ lease' = active
    /\ UNCHANGED <<blocked, kind, seen, calls>> /\ LoopFrame

\* backend.mark_running.
MarkWorker ==
    /\ pc = "mark" /\ io = "busy"
    /\ IF ledger[active] = "RESERVED"
       THEN io' = "ok" /\ ledger' = [ledger EXCEPT ![active] = "RUNNING"]
       ELSE io' = "err" /\ UNCHANGED ledger
    /\ UNCHANGED <<row, transcript, charged, intents, outcomes, fresh, dead>>
    /\ WorkerFrame

MarkResume ==
    /\ Resumes("mark")
    /\ IF Owns(active)
       THEN Await("running") /\ UNCHANGED <<exc, owned>>
       ELSE Raise(FALSE) /\ owned' = Revoked(active)
    /\ UNCHANGED <<lease, blocked, kind, seen, calls>> /\ LoopFrame

\* store.transition(ADMITTED -> RUNNING).
RunningWorker ==
    /\ pc = "running" /\ io = "busy"
    /\ IF row[active].state = "ADMITTED" /\ ~row[active].cancel /\ active \notin late
       THEN /\ io' = "ok"
            /\ SetRow(active, [row[active] EXCEPT !.state = "RUNNING",
                                                  !.phase = "running"])
       ELSE io' = "no" /\ UNCHANGED row
    /\ UNCHANGED <<transcript, ledger, charged, intents, outcomes, fresh, dead>>
    /\ WorkerFrame

\* mark_running's last _current, then _perform's second uncertainty check.
RunningResume ==
    /\ Resumes("running")
    /\ IF ~Owns(active)
       THEN Raise(FALSE) /\ owned' = Revoked(active)
       ELSE /\ owned' = [owned EXCEPT ![active] = "RUNNING"]
            /\ IF Uncertainty THEN Raise(TRUE) ELSE Await("turn") /\ UNCHANGED exc
    /\ UNCHANGED <<lease, blocked, kind, seen, calls>> /\ LoopFrame

(* The driver loop: model and tool calls.                                  *)

\* The driver asks for a model call, or for a tool call after a model answer.
\* The first ownership check of generate / call refuses a dead lease.
BeginCall(k) ==
    /\ Resumes("turn")
    /\ k = "tool" => kind = "model" /\ row[active].models > 0
    /\ kind' = k
    /\ IF Active(active) THEN Await("attempt") /\ UNCHANGED exc ELSE Raise(FALSE)
    /\ KeepLease /\ UNCHANGED <<blocked, seen, calls>> /\ LoopFrame

\* store.reserve_attempt.
AttemptAllowed(r, k) ==
    /\ LiveTurn(r)
    /\ IF k = "model" THEN row[r].models < MaxModelCalls
                      ELSE row[r].tools < MaxToolCalls

AttemptWorker ==
    /\ pc = "attempt" /\ io = "busy"
    /\ IF AttemptAllowed(active, kind)
       THEN /\ io' = "ok"
            /\ SetRow(active, IF kind = "model"
                              THEN [row[active] EXCEPT !.models = @ + 1]
                              ELSE [row[active] EXCEPT !.tools = @ + 1])
       ELSE io' = "no" /\ UNCHANGED row
    /\ UNCHANGED <<transcript, ledger, charged, intents, outcomes, fresh, dead>>
    /\ WorkerFrame

\* A model attempt goes on to the quota ledger, a tool attempt to its intent.
AfterAttempt(k) == IF k = "model" THEN "quota" ELSE "intent"

AttemptResume ==
    /\ Resumes("attempt")
    /\ IF Active(active)
       THEN Await(AfterAttempt(kind)) /\ UNCHANGED exc
       ELSE Raise(FALSE)
    /\ KeepLease /\ UNCHANGED <<blocked, kind, seen, calls>> /\ LoopFrame

\* backend.reserve_model_call: counted, or refused by a window.
QuotaWorker ==
    /\ pc = "quota" /\ io = "busy"
    /\ \/ /\ ledger[active] = "RUNNING" /\ charged[active] < MaxModelCalls
          /\ io' = "ok"
          /\ charged' = [charged EXCEPT ![active] = @ + 1]
       \/ io' = "no" /\ UNCHANGED charged
    /\ UNCHANGED <<row, transcript, ledger, intents, outcomes, fresh, dead>>
    /\ WorkerFrame

MutDispatchesWithoutIntent ==
    /\ Resumes("quota")
    /\ IF Active(active)
       THEN Await("dispatch") /\ calls' = calls \cup {ThisCall} /\ UNCHANGED exc
       ELSE Raise(FALSE) /\ UNCHANGED calls
    /\ KeepLease /\ UNCHANGED <<blocked, kind, seen>> /\ LoopFrame

QuotaResume ==
    /\ Resumes("quota")
    /\ IF Active(active) THEN Await("intent") /\ UNCHANGED exc ELSE Raise(FALSE)
    /\ KeepLease /\ UNCHANGED <<blocked, kind, seen, calls>> /\ LoopFrame

\* audit.claim_intent: refused while any call is pending.
ClaimIntentAllowed == Pending = {}

IntentWorker ==
    /\ pc = "intent" /\ io = "busy"
    /\ IF ClaimIntentAllowed
       THEN io' = "ok" /\ intents' = intents \cup {ThisCall}
       ELSE io' = "no" /\ UNCHANGED intents
    /\ UNCHANGED <<row, transcript, ledger, charged, outcomes, fresh, dead>>
    /\ WorkerFrame

\* The ownership check inside _dispatch is the last one before the call.
IntentResume ==
    /\ Resumes("intent")
    /\ IF Active(active)
       THEN Await("dispatch") /\ calls' = calls \cup {ThisCall} /\ UNCHANGED exc
       ELSE Raise(FALSE) /\ UNCHANGED calls
    /\ KeepLease /\ UNCHANGED <<blocked, kind, seen>> /\ LoopFrame

\* The provider or the tool answers; ownership is checked before the outcome.
Answered ==
    /\ Resumes("dispatch")
    /\ IF Active(active) THEN Await("outcome") /\ UNCHANGED exc ELSE Raise(TRUE)
    /\ KeepLease /\ UNCHANGED <<blocked, kind, seen, calls>> /\ LoopFrame

\* It fails, answers nothing or runs into its timeout: no outcome is written.
CallFails ==
    /\ Resumes("dispatch")
    /\ Raise(TRUE)
    /\ KeepLease /\ UNCHANGED <<blocked, kind, seen, calls>> /\ LoopFrame

\* append_beta of the outcome.
OutcomeWorker ==
    /\ pc = "outcome" /\ io = "busy"
    /\ io' = "ok" /\ outcomes' = outcomes \cup {ThisCall}
    /\ UNCHANGED <<row, transcript, ledger, charged, intents, fresh, dead>>
    /\ WorkerFrame

\* Back in the driver; a tool that reported failure ends an owner turn.
OutcomeResume ==
    /\ Resumes("outcome")
    /\ \/ IF Active(active) THEN Await("turn") /\ UNCHANGED exc ELSE Raise(TRUE)
       \/ kind = "tool" /\ Active(active) /\ Raise(FALSE)
    /\ KeepLease /\ UNCHANGED <<blocked, kind, seen, calls>> /\ LoopFrame

\* The driver, orchestrator or Butler gives up without a completed answer.
TurnFails ==
    /\ Resumes("turn")
    /\ Raise(FALSE)
    /\ KeepLease /\ UNCHANGED <<blocked, kind, seen, calls>> /\ LoopFrame

(* From the answer to the published turn.                                  *)

\* Butler returns a completed, assessed reply.
TurnCompletes ==
    /\ Resumes("turn") /\ kind = "model" /\ row[active].models > 0
    /\ Await("stage")
    /\ KeepLease /\ UNCHANGED <<exc, blocked, kind, seen, calls>> /\ LoopFrame

\* store.stage_result: a turn past its deadline is refused as uncertain.
StageWorker ==
    /\ pc = "stage" /\ io = "busy"
    /\ IF LiveTurn(active)
       THEN /\ io' = "ok"
            /\ SetRow(active, [row[active] EXCEPT !.staged = TRUE, !.phase = "staged"])
       ELSE io' = (IF Uncancelled(active) THEN "overdue" ELSE "no") /\ UNCHANGED row
    /\ UNCHANGED <<transcript, ledger, charged, intents, outcomes, fresh, dead>>
    /\ WorkerFrame

\* The gateway entry, the third uncertainty check, finish_request's checks.
StageResume ==
    /\ Resumes("stage")
    /\ IF Uncertainty THEN Raise(TRUE)
       ELSE IF Active(active) THEN Await("finish") /\ UNCHANGED exc
       ELSE Raise(FALSE)
    /\ KeepLease /\ UNCHANGED <<blocked, kind, seen, calls>> /\ LoopFrame

\* backend.finish_request(success=True).
FinishWorker ==
    /\ pc = "finish" /\ io = "busy"
    /\ IF ledger[active] = "RUNNING"
       THEN io' = "ok" /\ ledger' = [ledger EXCEPT ![active] = "COMPLETED"]
       ELSE io' = "err" /\ UNCHANGED ledger
    /\ UNCHANGED <<row, transcript, charged, intents, outcomes, fresh, dead>>
    /\ WorkerFrame

\* The lease is over; the last uncertainty check before publication.
FinishResume ==
    /\ Resumes("finish")
    /\ owned' = Revoked(active)
    /\ IF Uncertainty THEN Raise(TRUE) ELSE Await("commit") /\ UNCHANGED exc
    /\ UNCHANGED <<lease, blocked, kind, seen, calls>> /\ LoopFrame

MutNoFence == TRUE

\* _transaction(publication=True): COMMIT and the fence share one gate.
PublicationOpen == ~stopping

\* store.commit_turn: the row, both messages and the in-memory sets.
CommitWorker ==
    /\ pc = "commit" /\ io = "busy"
    /\ IF LiveTurn(active) /\ row[active].staged
       THEN /\ dead' = dead \cup {active} /\ fresh' = fresh \ {active}
            /\ IF PublicationOpen
               THEN /\ io' = "ok"
                    /\ SetRow(active, [row[active] EXCEPT !.state = "COMPLETED",
                                                          !.phase = "committed"])
                    /\ transcript' = transcript \cup {active}
               ELSE io' = "no" /\ UNCHANGED <<row, transcript>>
       ELSE io' = "no" /\ UNCHANGED <<row, transcript, fresh, dead>>
    /\ UNCHANGED <<ledger, charged, intents, outcomes>>
    /\ WorkerFrame

CommitResume ==
    /\ Resumes("commit")
    /\ Finish
    /\ UNCHANGED <<lease, blocked, calls>> /\ LoopFrame

(* Failures of _perform.                                                   *)

Workers == (Performing \cup Handling) \ {"start", "turn", "dispatch", "inspect"}

\* A storage operation fails and rolls back.  Sets that a transaction changes
\* in memory before its COMMIT may keep the change, and an audit entry that is
\* committed but not read back is reported as a failure.
WorkerFails ==
    /\ pc \in Workers /\ io = "busy"
    /\ io' = "err"
    /\ fresh' \in IF pc \in {"claim", "commit", "dispose"}
                  THEN {fresh, fresh \ {active}} ELSE {fresh}
    /\ dead' \in IF pc \in {"commit", "dispose"}
                 THEN {dead, dead \cup {active}} ELSE {dead}
    /\ intents' \in IF pc = "intent" /\ ClaimIntentAllowed
                    THEN {intents, intents \cup {ThisCall}} ELSE {intents}
    /\ outcomes' \in IF pc = "outcome"
                     THEN {outcomes, outcomes \cup {ThisCall}} ELSE {outcomes}
    /\ UNCHANGED <<row, transcript, ledger, charged>>
    /\ WorkerFrame

\* Whether the exception of a refused or failed await says "uncertain": that of an audit
\* entry, of a deadline that has passed (_live), and of a failed quota store (_wait).
FailureUncertain ==
    \/ pc = "intent" /\ kind = "tool"
    \/ pc = "outcome"
    \/ io = "overdue"
    \/ io = "err" /\ pc \in {"reserve", "mark", "finish"}

MutRaisesRefusalsOnly ==
    /\ pc \in Performing /\ io = "no" /\ signal = "no"
    /\ Raise(FailureUncertain)
    /\ owned' = IF pc = "running" THEN Revoked(active) ELSE owned
    /\ UNCHANGED <<lease, blocked, kind, seen, calls>> /\ LoopFrame

WorkerRaises ==
    /\ pc \in Performing /\ io \in {"no", "overdue", "err"} /\ signal = "no"
    /\ Raise(FailureUncertain)
    /\ owned' = IF \/ pc \in {"mark", "running", "finish"}
                   \/ pc \in {"attempt", "quota"} /\ io = "err"
                THEN Revoked(active) ELSE owned
    /\ UNCHANGED <<lease, blocked, kind, seen, calls>> /\ LoopFrame

\* An uncertainty check cannot read the audit log (uncertain) or the store.
\* The one after mark_running is made only if its last _current held.
CheckFails ==
    /\ pc \in {"start", "running", "stage", "finish"} /\ Resumes(pc)
    /\ pc = "running" => Owns(active)
    /\ \E uncertain \in BOOLEAN : Raise(uncertain)
    /\ owned' = IF pc = "finish" THEN Revoked(active)
                ELSE IF pc = "running" THEN [owned EXCEPT ![active] = "RUNNING"]
                ELSE owned
    /\ UNCHANGED <<lease, blocked, kind, seen, calls>> /\ LoopFrame

\* asyncio.timeout of _execute fires after the deadline.
TimeoutFires ==
    /\ active \in late /\ pc \in Performing /\ signal = "no"
    /\ signal' = "timeout"
    /\ UNCHANGED <<durable, late, service, tables, active, pc, io, kind, exc,
                   seen, cancelling, history>>

\* What a delivered cancellation has become when it reaches _execute: a
\* MeteredDenied or a forbidden PilotError (FALSE), a MeteredError or an
\* uncertain PilotError (TRUE), or itself: CancelledError counts as
\* uncertain, the TimeoutError of the deadline does not.
InterruptUncertain ==
    CASE pc \in {"dispatch", "outcome"}                             -> {TRUE}
      [] pc = "intent" /\ kind = "tool"                             -> {TRUE, FALSE}
      [] pc \in {"attempt", "quota", "intent"} /\ kind = "model"    -> {FALSE}
      [] pc = "turn" \/ (pc = "attempt" /\ kind = "tool")
                                              -> {FALSE, signal = "cancel"}
      [] OTHER                                                      -> {signal = "cancel"}

\* The cancellation is delivered once the worker awaited has ended.
Interrupt ==
    /\ pc \in Performing /\ io # "busy" /\ signal # "no"
    /\ \E uncertain \in InterruptUncertain : Raise(uncertain)
    /\ signal' = "no"
    /\ owned' = IF pc \in RevokingStages THEN Revoked(active) ELSE owned
    /\ interrupted' = IF signal = "cancel" THEN interrupted \cup {active}
                      ELSE interrupted
    /\ UNCHANGED <<durable, late, service, fresh, dead, lease, active, kind,
                   seen, cancelling, calls>>

-----------------------------------------------------------------------------
(* The except clause of _execute.                                          *)

MutForgetsStagedResult(auditUp) == ~auditUp \/ Pending # {} \/ exc

\* The turn may have had effects nobody has accounted for.
TurnUncertain(auditUp) == ~auditUp \/ Pending # {} \/ row[active].staged \/ exc

\* Inspect the audit log and the row, and decide how the turn ends.
Inspect(auditUp) ==
    LET uncertain == TurnUncertain(auditUp)
        refund    == ~uncertain /\ lease # NoRequest /\ Owns(lease)
    IN  /\ Resumes("inspect")
        /\ blocked' = (blocked \/ ~auditUp)
        /\ IF row[active].state \notin LiveRow
           THEN Finish
           ELSE /\ seen' = row[active].state
                /\ UNCHANGED <<owned, kind>>
                /\ IF refund /\ owned[lease] = "RUNNING"
                   THEN Await("refund") /\ UNCHANGED exc
                   ELSE Await("dispose") /\ exc' = (uncertain \/ refund)
        /\ UNCHANGED <<lease, calls>> /\ LoopFrame

\* The row cannot be read: the failed disposition blocks the service.
InspectFails ==
    /\ Resumes("inspect")
    /\ blocked' = TRUE
    /\ Finish
    /\ UNCHANGED <<lease, calls>> /\ LoopFrame

\* backend.finish_request(success=False).
RefundWorker ==
    /\ pc = "refund" /\ io = "busy"
    /\ IF ledger[active] = "RUNNING"
       THEN io' = "ok" /\ ledger' = [ledger EXCEPT ![active] = "FAILED"]
       ELSE io' = "err" /\ UNCHANGED ledger
    /\ UNCHANGED <<row, transcript, charged, intents, outcomes, fresh, dead>>
    /\ WorkerFrame

RefundResume ==
    /\ pc = "refund" /\ io \in {"ok", "err"} /\ signal = "no"
    /\ exc' = (io = "err")
    /\ Await("dispose")
    /\ owned' = Revoked(lease)
    /\ UNCHANGED <<lease, blocked, kind, seen, calls>> /\ LoopFrame

Disposition ==
    IF exc THEN "UNCERTAIN" ELSE IF seen = "ADMITTED" THEN "DENIED" ELSE "FAILED"

\* store.transition(expected=current.state): the row may have been cancelled.
DisposeWorker ==
    /\ pc = "dispose" /\ io = "busy"
    /\ IF row[active].state = seen
       THEN /\ io' = "ok"
            /\ SetRow(active, [row[active] EXCEPT !.state = Disposition,
                    !.phase = IF exc THEN "uncertain" ELSE "failed"])
            /\ dead' = dead \cup {active} /\ fresh' = fresh \ {active}
       ELSE io' = "no" /\ UNCHANGED <<row, fresh, dead>>
    /\ UNCHANGED <<transcript, ledger, charged, intents, outcomes>>
    /\ WorkerFrame

MutNeverBlocks(result) == blocked

\* A disposition that failed blocks the service until it is restarted.
BlockedAfter(result) == blocked \/ result # "ok"

DisposeResume ==
    /\ pc = "dispose" /\ io # "busy" /\ signal = "no"
    /\ blocked' = BlockedAfter(io)
    /\ Finish
    /\ UNCHANGED <<lease, calls>> /\ LoopFrame

\* A cancellation inside the except clause abandons the disposition.
InterruptHandler ==
    /\ pc \in Handling /\ io # "busy" /\ signal # "no"
    /\ blocked' = TRUE
    /\ signal' = "no"
    /\ Finish
    /\ UNCHANGED <<durable, late, up, stopping, gate, target, fresh, dead, lease,
                   active, cancelling, history>>

-----------------------------------------------------------------------------
Worker ==
    \/ ClaimWorker \/ ReserveWorker \/ MarkWorker \/ RunningWorker
    \/ AttemptWorker \/ QuotaWorker \/ IntentWorker \/ OutcomeWorker
    \/ StageWorker \/ FinishWorker \/ CommitWorker
    \/ RefundWorker \/ DisposeWorker \/ WorkerFails

Coroutine ==
    \/ PerformStart \/ ClaimResume \/ ReserveResume \/ MarkResume \/ RunningResume
    \/ \E k \in {"model", "tool"} : BeginCall(k)
    \/ AttemptResume \/ QuotaResume \/ IntentResume
    \/ Answered \/ CallFails \/ OutcomeResume \/ TurnFails \/ TurnCompletes
    \/ StageResume \/ FinishResume \/ CommitResume
    \/ WorkerRaises \/ CheckFails \/ Interrupt
    \/ \E auditUp \in BOOLEAN : Inspect(auditUp)
    \/ InspectFails \/ RefundResume \/ DisposeResume \/ InterruptHandler

Execution == Worker \/ Coroutine

Control ==
    \/ Start \/ Crash
    \/ \E r \in Requests : Expire(r)
    \/ \E r \in Requests : SubmitCheck(r)
    \/ SubmitAdmit \/ SubmitFails
    \/ \E r \in Requests, commits \in BOOLEAN : CancelRequest(r, commits)
    \/ CancelSignal \/ CancelReturn
    \/ Stop \/ StopSignal \/ StopClose
    \/ TimeoutFires

Next == Execution \/ Control

\* Workers and the event loop make progress, provider calls end (wait_for has
\* a timeout of at most 45 s), and asyncio.Lock is first in, first out, so that
\* stop() gets the gate although cancel() may ask for it again and again.
Fairness ==
    /\ WF_vars(Execution)
    /\ WF_vars(SubmitAdmit \/ SubmitFails)
    /\ WF_vars(CancelSignal \/ CancelReturn)
    /\ SF_vars(StopSignal)
    /\ WF_vars(StopClose)

Safety == Init /\ [][Next]_vars
Spec == Safety /\ Fairness

-----------------------------------------------------------------------------
(* Properties.                                                             *)

LeaseStates == {"none", "RESERVED", "RUNNING"}

\* The typed state of the composition; the counters of a row stay within the
\* grant's limits although three coroutines and two stores move them.
TypeOK ==
    /\ row \in [Requests -> Row]
    /\ transcript \subseteq Requests
    /\ ledger \in [Requests -> {"ABSENT", "RESERVED", "RUNNING", "COMPLETED", "FAILED"}]
    /\ charged \in [Requests -> 0 .. MaxModelCalls]
    /\ intents \subseteq Calls /\ outcomes \subseteq Calls /\ calls \subseteq Calls
    /\ late \subseteq Requests /\ fresh \subseteq Requests /\ dead \subseteq Requests
    /\ up \in BOOLEAN /\ stopping \in BOOLEAN /\ blocked \in BOOLEAN
    /\ gate \in {"free", "submit", "cancel", "stop"}
    /\ target \in Requests \cup {NoRequest}
    /\ owned \in [Requests -> LeaseStates]
    /\ lease \in Requests \cup {NoRequest}
    /\ active \in Requests \cup {NoRequest}
    /\ pc \in Performing \cup Handling \cup {"none"}
    /\ io \in {"busy", "ok", "no", "overdue", "err"}
    /\ kind \in {"model", "tool"}
    /\ exc \in BOOLEAN /\ seen \in LiveRow
    /\ signal \in {"no", "cancel", "timeout"} /\ cancelling \in BOOLEAN
    /\ interrupted \subseteq Requests

\* A provider or tool call starts only for a running turn that is neither
\* cancelled nor past its deadline, while its quota request is RUNNING, never
\* after stop() has begun, and with its intent as the only open one.
DispatchGate ==
    [][\A c \in calls' \ calls :
           /\ row[c[1]].state = "RUNNING" /\ ~row[c[1]].cancel
           /\ c[1] \notin late /\ ~stopping
           /\ ledger[c[1]] = "RUNNING"
           /\ Pending = {c}]_vars

\* No call is started without a durable intent, no outcome is written for a call
\* that was not started, and over the whole history, restarts included, at most
\* one call is without an outcome.  A turn starts no more calls than it has paid
\* for: model calls are counted by the quota ledger, which never counts more
\* than the pilot row.
CallsAccounted ==
    /\ outcomes \subseteq calls /\ calls \subseteq intents
    /\ \A c, d \in Pending : c = d
    /\ \A r \in Requests :
           /\ Cardinality({c \in calls : c[1] = r}) <= charged[r] + row[r].tools
           /\ charged[r] <= row[r].models

\* Exactly the COMPLETED turns are in the transcript, and a COMPLETED turn was
\* not cancelled, its quota request is COMPLETED and all its calls are settled.
CompletedIsClean ==
    /\ transcript = {r \in Requests : row[r].state = "COMPLETED"}
    /\ \A r \in transcript :
           /\ ~row[r].cancel /\ ledger[r] = "COMPLETED"
           /\ \A c \in intents : c[1] = r => c \in outcomes

\* The ledger and the pilot store commit separately: whatever happens between
\* the two commits, a turn whose quota was finished as a success never ends as
\* FAILED, DENIED or CANCELLED, and one finished as a failure never COMPLETED.
LedgerAgreement ==
    \A r \in Requests :
        /\ ledger[r] = "COMPLETED" => row[r].state \in {"RUNNING", "COMPLETED", "UNCERTAIN"}
        /\ ledger[r] = "FAILED" => row[r].state \in {"RUNNING", "FAILED", "UNCERTAIN"}

\* In a running process a live row belongs to the live execution, unless the
\* service has blocked itself; and there is at most one live row.
NoSilentOrphan ==
    /\ \A r \in Requests : up /\ row[r].state \in LiveRow =>
           (r = active /\ ~Done) \/ blocked
    /\ \A r, s \in Requests :
           row[r].state \in LiveRow /\ row[s].state \in LiveRow => r = s

\* A turn is admitted only when every earlier turn has ended, none of them in
\* uncertainty, and every call ever intended has its outcome.
AdmissionClean ==
    [][\A r \in Requests : row[r].state = "ABSENT" /\ row'[r].state # "ABSENT" =>
           /\ Pending = {}
           /\ \A s \in Requests :
                  row[s].state \in {"ABSENT", "COMPLETED", "FAILED", "DENIED",
                                    "CANCELLED"}]_vars

\* Nothing is published once stop() has set its fence or a cancellation is
\* durable, whatever the execution was doing.
PublicationFence ==
    [][\A r \in transcript' \ transcript : ~stopping /\ ~row[r].cancel]_vars

\* Neither a call nor a publication gets past what has been stopped, cancelled or missed
\* its deadline, although both are prepared long before they happen.
Fences == DispatchGate /\ PublicationFence

\* HANDOFF_OWNER_FOUNDATION_20261019.md on cancellation: the service must
\* "conservatively transition interrupted dispatched work to UNCERTAIN" (a turn
\* already published stays COMPLETED).
InterruptedIsUncertain ==
    \A r \in interrupted :
        /\ \E c \in calls : c[1] = r
        /\ row[r].state \notin LiveRow
        => row[r].state \in {"UNCERTAIN", "COMPLETED"}

\* Every execution ends, however it is failed, cancelled or timed out.
TurnEnds == ~Done ~> Done

\* stop() drains the execution and releases the process' lock.
StopCompletes == stopping ~> ~up
=============================================================================
