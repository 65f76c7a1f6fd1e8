------------------------ MODULE RecoverableWorkflow ------------------------
(***************************************************************************)
(* Durable workflow runs: run_recoverable, resume and reconcile of          *)
(* WorkflowExecutor (src/agency/workflows/executor.py), the table           *)
(* recoverable_runs (registry.py) and the OS file lock (recovery.py).       *)
(*                                                                         *)
(* Several processes share the database file.  An executor is synchronous:  *)
(* each of its database writes and each operation callback is one action,   *)
(* so that a kill can come between any two of them.  Every record of a run  *)
(* is written whole (INSERT OR REPLACE) from the worker's own copy of the   *)
(* step results.                                                            *)
(*                                                                         *)
(* All runs are of one pinned definition, whose steps are named by their    *)
(* position in topological_order; definitions are immutable, so that the    *)
(* definition digest of a run always matches.                               *)
(***************************************************************************)
EXTENDS Integers

CONSTANTS
    Procs, NoProc,   \* processes, and no process
    Runs, NoRun,     \* run ids, and no run
    Inputs, NoInput, \* inputs with the actor a caller supplies (their digest)
    N,               \* number of steps
    Deps,            \* depends_on of each step
    Configs          \* executors: operation_versions and replay_safe steps

Steps == 1 .. N

ASSUME WorkflowAssumption ==
    /\ NoProc \notin Procs /\ NoRun \notin Runs /\ NoInput \notin Inputs
    /\ N \in Nat
    /\ Deps \in [Steps -> SUBSET Steps]
    /\ \A s \in Steps : \A d \in Deps[s] : d < s
    /\ \A c \in Configs : c.safe \subseteq Steps

VARIABLES
    runs,     \* recoverable_runs, status "ABSENT" if there is no row
    lock,     \* holder of <db>.recover.lock
    config,   \* configuration of each process' executor
    pc,       \* where each process stands
    run, inp, \* the run it works on, the inputs it was given
    pos,      \* the step its loop has reached, N + 1 after the last
    results,  \* its copy of step_results
    todo,     \* runs reconcile has listed and not yet marked
    effects   \* history: operation callbacks that were started

local == <<pc, run, inp, pos, results, todo>>
vars  == <<runs, lock, config, local, effects>>

Results  == {"none", "running", "ok", "failed", "refused"}
Statuses == {"ABSENT", "RUNNING", "INDETERMINATE", "COMPLETED", "FAILED"}
Versions == {c.version : c \in Configs}
NoResults == [s \in Steps |-> "none"]
NoRow == [status |-> "ABSENT", results |-> NoResults, inputs |-> NoInput,
          version |-> "none"]

-----------------------------------------------------------------------------
Init ==
    /\ runs = [r \in Runs |-> NoRow]
    /\ lock = NoProc
    /\ config \in [Procs -> Configs]
    /\ pc = [p \in Procs |-> "idle"]
    /\ run = [p \in Procs |-> NoRun]
    /\ inp = [p \in Procs |-> NoInput]
    /\ pos = [p \in Procs |-> 1]
    /\ results = [p \in Procs |-> NoResults]
    /\ todo = [p \in Procs |-> {}]
    /\ effects = {}

\* The frames of p's local state back in an idle process.
Reset(p) ==
    /\ pc' = [pc EXCEPT ![p] = "idle"]
    /\ run' = [run EXCEPT ![p] = NoRun]
    /\ inp' = [inp EXCEPT ![p] = NoInput]
    /\ pos' = [pos EXCEPT ![p] = 1]
    /\ results' = [results EXCEPT ![p] = NoResults]
    /\ todo' = [todo EXCEPT ![p] = {}]

\* The finally clause: lock.release(), whether the call returns or raises.
Release(p) == Reset(p) /\ lock' = NoProc

Goto(p, stage) == pc' = [pc EXCEPT ![p] = stage]

MutStealsLock == TRUE

\* A nonblocking flock succeeds only if nobody holds the file.
LockFree == lock = NoProc

\* record_recoverable_run of p's run.
Record(p, status, res) ==
    runs' = [runs EXCEPT ![run[p]] =
                [@ EXCEPT !.status = status, !.results = res]]

Set(p, result) == [results[p] EXCEPT ![pos[p]] = result]

-----------------------------------------------------------------------------
(* The three entries take the lock or raise.                               *)

\* run_recoverable: the run id is a new uuid.
RunRecoverable(p, r, i) ==
    /\ pc[p] = "idle" /\ LockFree
    /\ runs[r].status = "ABSENT"
    /\ lock' = p
    /\ Goto(p, "start")
    /\ run' = [run EXCEPT ![p] = r]
    /\ inp' = [inp EXCEPT ![p] = i]
    /\ UNCHANGED <<runs, config, pos, results, todo, effects>>

\* The first record binds the inputs and the operation versions.
RecordStarted(p) ==
    /\ pc[p] = "start"
    /\ runs' = [runs EXCEPT ![run[p]] =
                   [status |-> "RUNNING", results |-> NoResults,
                    inputs |-> inp[p], version |-> config[p].version]]
    /\ Goto(p, "loop")
    /\ UNCHANGED <<lock, config, run, inp, pos, results, todo, effects>>

\* resume takes the lock before it reads the row.
Resume(p, r, i) ==
    /\ pc[p] = "idle" /\ LockFree
    /\ lock' = p
    /\ Goto(p, "resume")
    /\ run' = [run EXCEPT ![p] = r]
    /\ inp' = [inp EXCEPT ![p] = i]
    /\ UNCHANGED <<runs, config, pos, results, todo, effects>>

MutResumesOtherVersions(p) ==
    /\ runs[run[p]].inputs = inp[p]
    /\ runs[run[p]].status = "INDETERMINATE"

MutResumesFailed(p) ==
    /\ runs[run[p]].inputs = inp[p]
    /\ runs[run[p]].version = config[p].version
    /\ runs[run[p]].status \in {"INDETERMINATE", "FAILED"}

\* Same inputs and actor, same operation versions, and reconciled.
ResumeAllowed(p) ==
    /\ runs[run[p]].inputs = inp[p]
    /\ runs[run[p]].version = config[p].version
    /\ runs[run[p]].status = "INDETERMINATE"

ResumeStart(p) ==
    /\ pc[p] = "resume" /\ ResumeAllowed(p)
    /\ Record(p, "RUNNING", runs[run[p]].results)
    /\ results' = [results EXCEPT ![p] = runs[run[p]].results]
    /\ Goto(p, "loop")
    /\ UNCHANGED <<lock, config, run, inp, pos, todo, effects>>

\* It raises; a COMPLETED run is returned as it is, an unknown one is KeyError.
ResumeRefused(p) ==
    /\ pc[p] = "resume" /\ ~ResumeAllowed(p)
    /\ Release(p)
    /\ UNCHANGED <<runs, config, effects>>

\* reconcile lists the RUNNING runs, all of them crashed ones.
Reconcile(p) ==
    /\ pc[p] = "idle" /\ LockFree
    /\ lock' = p
    /\ Goto(p, "reconcile")
    /\ todo' = [todo EXCEPT ![p] = {r \in Runs : runs[r].status = "RUNNING"}]
    /\ UNCHANGED <<runs, config, run, inp, pos, results, effects>>

MutForgetsInterrupted(p, r) ==
    /\ pc[p] = "reconcile" /\ r \in todo[p]
    /\ runs' = [runs EXCEPT ![r] = [@ EXCEPT !.status = "INDETERMINATE",
           !.results = [s \in Steps |-> IF @[s] = "ok" THEN "ok" ELSE "none"]]]
    /\ todo' = [todo EXCEPT ![p] = @ \ {r}]
    /\ UNCHANGED <<lock, config, pc, run, inp, pos, results, effects>>

MarkIndeterminate(p, r) ==
    /\ pc[p] = "reconcile" /\ r \in todo[p]
    /\ runs' = [runs EXCEPT ![r] = [@ EXCEPT !.status = "INDETERMINATE"]]
    /\ todo' = [todo EXCEPT ![p] = @ \ {r}]
    /\ UNCHANGED <<lock, config, pc, run, inp, pos, results, effects>>

Reconciled(p) ==
    /\ pc[p] = "reconcile" /\ todo[p] = {}
    /\ Release(p)
    /\ UNCHANGED <<runs, config, effects>>

-----------------------------------------------------------------------------
(* _execute_remaining.                                                     *)

AtStep(p) == pc[p] = "loop" /\ pos[p] \in Steps

MutSkipStays(p) ==
    /\ AtStep(p) /\ results[p][pos[p]] = "ok"
    /\ UNCHANGED vars

\* A step recorded as ok is not executed again.
StepDone(p) == results[p][pos[p]] = "ok"

Skip(p) ==
    /\ AtStep(p) /\ StepDone(p)
    /\ pos' = [pos EXCEPT ![p] = @ + 1]
    /\ UNCHANGED <<runs, lock, config, pc, run, inp, results, todo, effects>>

MutRefusalSkipsStep(p) ==
    /\ AtStep(p) /\ ~StepDone(p) /\ pos[p] \notin config[p].safe
    /\ results' = [results EXCEPT ![p] = Set(p, "refused")]
    /\ pos' = [pos EXCEPT ![p] = @ + 1]
    /\ UNCHANGED <<runs, lock, config, pc, run, inp, todo, effects>>

\* An operation that is unknown or not replay-safe is never called.
Refuse(p) ==
    /\ AtStep(p) /\ ~StepDone(p) /\ pos[p] \notin config[p].safe
    /\ Record(p, "INDETERMINATE", Set(p, "refused"))
    /\ Release(p)
    /\ UNCHANGED <<config, effects>>

\* A permission of the step is denied, or the authorizer fails.
Deny(p) ==
    /\ AtStep(p) /\ ~StepDone(p) /\ pos[p] \in config[p].safe
    /\ Record(p, "FAILED", Set(p, "failed"))
    /\ Release(p)
    /\ UNCHANGED <<config, effects>>

MutCallsBeforeIntent(p) ==
    /\ AtStep(p) /\ ~StepDone(p) /\ pos[p] \in config[p].safe
    /\ results' = [results EXCEPT ![p] = Set(p, "running")]
    /\ Goto(p, "call")
    /\ UNCHANGED <<runs, lock, config, run, inp, pos, todo, effects>>

\* The durable intent, before the callback.
StartStep(p) ==
    /\ AtStep(p) /\ ~StepDone(p) /\ pos[p] \in config[p].safe
    /\ results' = [results EXCEPT ![p] = Set(p, "running")]
    /\ Record(p, "RUNNING", Set(p, "running"))
    /\ Goto(p, "call")
    /\ UNCHANGED <<lock, config, run, inp, pos, todo, effects>>

\* The callback runs; it raises, or its output is not bounded JSON ("failed").
Operate(p, result) ==
    /\ pc[p] = "call"
    /\ effects' = effects \cup {[run |-> run[p], step |-> pos[p],
                                 inputs |-> inp[p], version |-> config[p].version]}
    /\ results' = [results EXCEPT ![p] = Set(p, result)]
    /\ Goto(p, "outcome")
    /\ UNCHANGED <<runs, lock, config, run, inp, pos, todo>>

Advance(p) == [pos EXCEPT ![p] = @ + 1]

\* The durable outcome, after the callback.
RecordOk(p) ==
    /\ pc[p] = "outcome" /\ results[p][pos[p]] = "ok"
    /\ Record(p, "RUNNING", results[p])
    /\ Goto(p, "loop")
    /\ pos' = Advance(p)
    /\ UNCHANGED <<lock, config, run, inp, results, todo, effects>>

RecordFailed(p) ==
    /\ pc[p] = "outcome" /\ results[p][pos[p]] = "failed"
    /\ Record(p, "FAILED", results[p])
    /\ Release(p)
    /\ UNCHANGED <<config, effects>>

\* After the last step; if that write fails, FAILED is tried and it raises.
Complete(p) ==
    /\ pc[p] = "loop" /\ pos[p] = N + 1
    /\ \E status \in {"COMPLETED", "FAILED"} : Record(p, status, results[p])
    /\ Release(p)
    /\ UNCHANGED <<config, effects>>

\* A write fails, or a callback raises something that is not an Exception: the
\* call raises and the row stays as it was.
Raises(p) ==
    /\ pc[p] # "idle"
    /\ Release(p)
    /\ UNCHANGED <<runs, config, effects>>

\* The process is killed, which frees its lock; a new one may be configured
\* in another way.
Kill(p, c) ==
    /\ Reset(p)
    /\ lock' = IF lock = p THEN NoProc ELSE lock
    /\ config' = [config EXCEPT ![p] = c]
    /\ UNCHANGED <<runs, effects>>

Call(p) ==
    \/ \E r \in Runs, i \in Inputs : RunRecoverable(p, r, i) \/ Resume(p, r, i)
    \/ Reconcile(p)

Work(p) ==
    \/ RecordStarted(p)
    \/ ResumeStart(p) \/ ResumeRefused(p)
    \/ \E r \in Runs : MarkIndeterminate(p, r)
    \/ Reconciled(p)
    \/ Skip(p) \/ Refuse(p) \/ Deny(p) \/ StartStep(p)
    \/ \E result \in {"ok", "failed"} : Operate(p, result)
    \/ RecordOk(p) \/ RecordFailed(p) \/ Complete(p)

Next ==
    \/ \E p \in Procs : Call(p) \/ Work(p) \/ Raises(p)
    \/ \E p \in Procs, c \in Configs : Kill(p, c)

\* Callbacks return and the interpreter goes on; nobody has to call anything.
Fairness == \A p \in Procs : WF_vars(Work(p))

Safety == Init /\ [][Next]_vars
Spec == Safety /\ Fairness
-----------------------------------------------------------------------------
(* Properties.                                                             *)

Row == [status : Statuses, results : [Steps -> Results],
        inputs : Inputs \cup {NoInput}, version : Versions \cup {"none"}]
Effect == [run : Runs, step : Steps, inputs : Inputs, version : Versions]
Stages == {"idle", "start", "resume", "reconcile", "loop", "call", "outcome"}
Executing == {"loop", "call", "outcome"}

\* The tables and the workers keep their types; the loop never runs past the
\* step after the last one.
TypeOK ==
    /\ runs \in [Runs -> Row]
    /\ lock \in Procs \cup {NoProc}
    /\ config \in [Procs -> Configs]
    /\ pc \in [Procs -> Stages]
    /\ run \in [Procs -> Runs \cup {NoRun}]
    /\ inp \in [Procs -> Inputs \cup {NoInput}]
    /\ pos \in [Procs -> 1 .. (N + 1)]
    /\ results \in [Procs -> [Steps -> Results]]
    /\ todo \in [Procs -> SUBSET Runs]
    /\ effects \subseteq Effect

\* A worker in the loop owns its run: the row is RUNNING, it is bound to the
\* worker's inputs and versions, it agrees with the worker's copy of the step
\* results in every step but the one in progress, and nobody else works on it.
WorkerOwnsRun ==
    \A p \in Procs : pc[p] \in Executing =>
        /\ runs[run[p]].status = "RUNNING"
        /\ runs[run[p]].inputs = inp[p]
        /\ runs[run[p]].version = config[p].version
        /\ \A s \in Steps :
               s # pos[p] \/ pc[p] # "outcome" => runs[run[p]].results[s] = results[p][s]
        /\ \A q \in Procs \ {p} : run[q] # run[p]

\* A callback starts only after its intent is durable and every step it depends
\* on is durably ok, and never for a step that is durably ok.
CallOrder ==
    [][\A p \in Procs : pc[p] = "call" /\ pc'[p] = "outcome" =>
           /\ runs[run[p]].results[pos[p]] = "running"
           /\ \A d \in Deps[pos[p]] : runs[run[p]].results[d] = "ok"]_vars

\* A step whose callback may have run is visible in the row: it is never back to
\* not started, whatever crashed in between.
EffectsVisible ==
    \A e \in effects : runs[e.run].results[e.step] # "none"

\* All callbacks of a run, before and after crashes and resumes by other
\* processes, see the same inputs and the same operation versions.
SameBinding ==
    \A e, f \in effects : e.run = f.run => e.inputs = f.inputs /\ e.version = f.version

\* A COMPLETED run has every step ok, and the callback of each of them ran.
CompletedSound ==
    \A r \in Runs : runs[r].status = "COMPLETED" =>
        \A s \in Steps :
            /\ runs[r].results[s] = "ok"
            /\ \E e \in effects : e.run = r /\ e.step = s

\* A run that has ended is never changed again, and an ok step stays ok.
EndedForever ==
    [][\A r \in Runs :
           /\ runs[r].status \in {"COMPLETED", "FAILED"} => runs'[r] = runs[r]
           /\ \A s \in Steps : runs[r].results[s] = "ok" => runs'[r].results[s] = "ok"]_vars

\* What a row says of a run, without what only recovery needs: RUNNING and INDETERMINATE
\* are both a run that has not ended, and of the step results only ok counts.
Outcome(r) ==
    CASE runs[r].status = "ABSENT" -> "none"
      [] runs[r].status \in {"RUNNING", "INDETERMINATE"} -> "open"
      [] OTHER -> runs[r].status

Durable == INSTANCE DurableRun WITH
    Bindings <- Inputs \X Versions,
    NoBinding <- <<NoInput, "none">>,
    outcome <- [r \in Runs |-> Outcome(r)],
    done <- [r \in Runs |-> {s \in Steps : runs[r].results[s] = "ok"}],
    bound <- [r \in Runs |-> <<runs[r].inputs, runs[r].version>>]

\* The executor, its locks, crashes, reconciliation and resumption implement the runs of
\* DurableRun: nothing but a finished step or an end ever shows, one at a time, in order.
ImplementsDurableRun == Durable!Spec

\* Every worker gives the lock back.
LockReleased == \A p \in Procs : lock = p ~> lock # p
=============================================================================
