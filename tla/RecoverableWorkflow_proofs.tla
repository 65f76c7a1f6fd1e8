--------------------- MODULE RecoverableWorkflow_proofs ---------------------
(***************************************************************************)
(* Theorems about recoverable runs for any number of processes, runs, steps *)
(* and executor configurations and any acyclic dependencies.                *)
(***************************************************************************)
EXTENDS RecoverableWorkflow, TLAPS

(* The inductive invariant, in parts.                                      *)

\* Whoever is inside one of the three entries holds the lock.
Holder == \A p \in Procs : pc[p] # "idle" => lock = p

\* What a worker outside its loop has not touched yet.
FreshWorker ==
    \A p \in Procs :
        /\ pc[p] \in {"idle", "reconcile"} => run[p] = NoRun
        /\ pc[p] \notin Executing => pos[p] = 1 /\ results[p] = NoResults
        /\ pc[p] \in {"start", "resume"} \cup Executing => run[p] \in Runs /\ inp[p] \in Inputs
        /\ pc[p] = "start" => runs[run[p]].status = "ABSENT"
        /\ pc[p] = "reconcile" => \A r \in todo[p] : runs[r].status = "RUNNING"

\* A worker in the loop and its row: the steps before pos are ok, and the copy
\* differs from the row only between a callback and its durable outcome.
InStep(p) ==
    /\ runs[run[p]].status = "RUNNING"
    /\ runs[run[p]].inputs = inp[p]
    /\ runs[run[p]].version = config[p].version
    /\ \A s \in Steps : s < pos[p] => results[p][s] = "ok"
    /\ \A s \in Steps :
           s # pos[p] \/ pc[p] # "outcome" => runs[run[p]].results[s] = results[p][s]
    /\ pc[p] \in {"call", "outcome"} =>
           pos[p] \in Steps /\ runs[run[p]].results[pos[p]] = "running"
    /\ pc[p] = "outcome" =>
           /\ results[p][pos[p]] \in {"ok", "failed"}
           /\ \E e \in effects : e.run = run[p] /\ e.step = pos[p]

InLoop == \A p \in Procs : pc[p] \in Executing => InStep(p)

\* Rows and effects: an effect is visible and bound as its run is, an ok step
\* has an effect, a run that does not exist has none.
RowsAndEffects ==
    /\ \A e \in effects :
           /\ runs[e.run].results[e.step] # "none"
           /\ runs[e.run].status # "ABSENT"
           /\ runs[e.run].inputs = e.inputs /\ runs[e.run].version = e.version
    /\ \A r \in Runs :
           /\ runs[r].status = "ABSENT" => runs[r].results = NoResults
           /\ runs[r].status = "COMPLETED" => \A s \in Steps : runs[r].results[s] = "ok"
           /\ \A s \in Steps : runs[r].results[s] = "ok" =>
                  \E e \in effects : e.run = r /\ e.step = s

Inv == TypeOK /\ Holder /\ FreshWorker /\ InLoop /\ RowsAndEffects

-----------------------------------------------------------------------------
\* Only the holder of the lock is inside an entry.
LEMMA OthersIdle ==
  ASSUME Inv, NEW p \in Procs, pc[p] # "idle" \/ LockFree
  PROVE  \A q \in Procs \ {p} : pc[q] = "idle" /\ run[q] = NoRun
BY WorkflowAssumption DEF Inv, Holder, FreshWorker, LockFree

\* Initially there are no rows, no workers and no effects.
LEMMA InvInit == Init => Inv
<1> SUFFICES ASSUME Init PROVE Inv
  OBVIOUS
<1>1. TypeOK
  BY WorkflowAssumption DEF Init, TypeOK, NoRow, NoResults, Row, Results, Statuses, Stages
<1>2. Holder /\ FreshWorker /\ InLoop
  BY DEF Init, Holder, FreshWorker, InLoop, Executing
<1>3. RowsAndEffects
  BY DEF Init, RowsAndEffects, NoRow, NoResults
<1> QED
  BY <1>1, <1>2, <1>3 DEF Inv

\* The entries take the free lock and change no row.
LEMMA CallStep ==
  ASSUME Inv, NEW p \in Procs, Call(p)
  PROVE  Inv'
<1>i. TypeOK /\ Holder /\ FreshWorker /\ InLoop /\ RowsAndEffects
  BY DEF Inv
<1>l. /\ LockFree /\ pc[p] = "idle" /\ lock' = p
      /\ UNCHANGED <<runs, config, pos, results, effects>>
  BY DEF Call, RunRecoverable, Resume, Reconcile
<1>o. \A q \in Procs : q # p => pc[q] = "idle" /\ run[q] = NoRun
  BY <1>l, OthersIdle
<1>s. /\ pc' \in [Procs -> Stages] /\ pc'[p] \notin Executing \cup {"idle"}
      /\ \A q \in Procs : q # p => pc'[q] = pc[q]
  BY <1>i DEF Call, RunRecoverable, Resume, Reconcile, Goto, TypeOK, Stages, Executing
<1>1. TypeOK'
  <2>1. /\ run' \in [Procs -> Runs \cup {NoRun}] /\ inp' \in [Procs -> Inputs \cup {NoInput}]
        /\ todo' \in [Procs -> SUBSET Runs]
    <3>1. ASSUME NEW r \in Runs, NEW i \in Inputs, RunRecoverable(p, r, i) \/ Resume(p, r, i)
          PROVE  /\ run' \in [Procs -> Runs \cup {NoRun}]
                 /\ inp' \in [Procs -> Inputs \cup {NoInput}] /\ todo' \in [Procs -> SUBSET Runs]
      BY ZenonT(60), <1>i, <3>1 DEF RunRecoverable, Resume, TypeOK
    <3>2. CASE Reconcile(p)
      BY <1>i, <3>2 DEF Reconcile, TypeOK
    <3> QED
      BY <3>1, <3>2 DEF Call
  <2> QED
    BY <1>i, <1>l, <1>s, <2>1 DEF TypeOK
<1>2. Holder'
  BY <1>l, <1>o, <1>s DEF Holder
<1>3. InLoop'
  BY <1>o, <1>s DEF InLoop, Executing
<1>4. RowsAndEffects'
  BY <1>i, <1>l DEF RowsAndEffects
<1>5. FreshWorker'
  BY <1>i, <1>l, <1>o, <1>s DEF FreshWorker, TypeOK, Call, RunRecoverable, Resume, Reconcile,
     Goto, Executing
<1> QED
  BY <1>1, <1>2, <1>3, <1>4, <1>5 DEF Inv

\* A write of the whole row keeps RowsAndEffects if it invents no ok step,
\* forgets no effect and claims COMPLETED only for ok steps.
LEMMA RecordStep ==
  ASSUME TypeOK, RowsAndEffects, UNCHANGED effects,
         NEW p \in Procs, run[p] \in Runs, runs[run[p]].status # "ABSENT",
         NEW status \in Statuses \ {"ABSENT"}, NEW res \in [Steps -> Results],
         Record(p, status, res),
         \A s \in Steps : res[s] = "ok" =>
             \E e \in effects : e.run = run[p] /\ e.step = s,
         \A s \in Steps : runs[run[p]].results[s] # "none" => res[s] # "none",
         status = "COMPLETED" => \A s \in Steps : res[s] = "ok"
  PROVE  /\ runs' \in [Runs -> Row]
         /\ RowsAndEffects'
<1> DEFINE old == runs[run[p]]
           new == [old EXCEPT !.status = status, !.results = res]
<1>1. old \in Row
  BY DEF TypeOK
<1>2. /\ new \in Row /\ new.status = status /\ new.results = res
      /\ new.inputs = old.inputs /\ new.version = old.version
  BY <1>1 DEF Row
<1>3. runs' = [runs EXCEPT ![run[p]] = new]
  BY DEF Record
<1> HIDE DEF new
<1>4. /\ runs' \in [Runs -> Row] /\ runs'[run[p]] = new
      /\ \A r \in Runs : r # run[p] => runs'[r] = runs[r]
  BY <1>2, <1>3 DEF TypeOK
<1>5. \A e \in effects : e.run \in Runs /\ e.step \in Steps
  BY DEF TypeOK, Effect
<1>6. \A e \in effects' :
          /\ runs'[e.run].results[e.step] # "none"
          /\ runs'[e.run].status # "ABSENT"
          /\ runs'[e.run].inputs = e.inputs /\ runs'[e.run].version = e.version
  <2> SUFFICES ASSUME NEW e \in effects
               PROVE  /\ runs'[e.run].results[e.step] # "none"
                      /\ runs'[e.run].status # "ABSENT"
                      /\ runs'[e.run].inputs = e.inputs /\ runs'[e.run].version = e.version
    OBVIOUS
  <2>1. CASE e.run = run[p]
    BY <2>1, <1>2, <1>4, <1>5 DEF RowsAndEffects
  <2>2. CASE e.run # run[p]
    BY <2>2, <1>4, <1>5 DEF RowsAndEffects
  <2> QED
    BY <2>1, <2>2
<1>7. ASSUME NEW r \in Runs
      PROVE  /\ runs'[r].status = "ABSENT" => runs'[r].results = NoResults
             /\ runs'[r].status = "COMPLETED" => \A s \in Steps : runs'[r].results[s] = "ok"
             /\ \A s \in Steps : runs'[r].results[s] = "ok" =>
                    \E e \in effects : e.run = r /\ e.step = s
  <2>1. CASE r = run[p]
    BY <2>1, <1>2, <1>4
  <2>2. CASE r # run[p]
    BY <2>2, <1>4 DEF RowsAndEffects
  <2> QED
    BY <2>1, <2>2
<1> QED
  BY <1>4, <1>6, <1>7 DEF RowsAndEffects

\* After the finally clause nobody is inside an entry.
LEMMA ReleaseStep ==
  ASSUME Inv, NEW p \in Procs, pc[p] # "idle", Release(p),
         UNCHANGED <<config, effects>>, runs' \in [Runs -> Row], RowsAndEffects'
  PROVE  Inv'
<1>i. TypeOK /\ Holder /\ FreshWorker
  BY DEF Inv
<1>o. \A q \in Procs : q # p => pc[q] = "idle" /\ run[q] = NoRun
  BY OthersIdle
<1>1. TypeOK'
  BY <1>i, WorkflowAssumption DEF TypeOK, Release, Reset, Stages, NoResults, Results
<1>2. \A q \in Procs : /\ pc'[q] = "idle" /\ run'[q] = NoRun
                       /\ pos'[q] = 1 /\ results'[q] = NoResults
  BY <1>i, <1>o DEF Release, Reset, TypeOK, FreshWorker, Executing
<1>3. Holder' /\ FreshWorker' /\ InLoop'
  BY <1>2 DEF Holder, FreshWorker, InLoop, Executing
<1> QED
  BY <1>1, <1>3 DEF Inv

\* The steps that raise, refuse or return without a write.
LEMMA NoWriteStep ==
  ASSUME Inv, NEW p \in Procs, ResumeRefused(p) \/ Reconciled(p) \/ Raises(p)
  PROVE  Inv'
<1>1. /\ pc[p] # "idle" /\ Release(p) /\ UNCHANGED <<runs, config, effects>>
  BY DEF ResumeRefused, Reconciled, Raises
<1>2. RowsAndEffects' /\ runs' \in [Runs -> Row]
  BY <1>1 DEF Inv, TypeOK, RowsAndEffects
<1> QED
  BY <1>1, <1>2, ReleaseStep

\* The writes that end the call: refusal, denial, failure, completion.
LEMMA LastWriteStep ==
  ASSUME Inv, NEW p \in Procs, Refuse(p) \/ Deny(p) \/ RecordFailed(p) \/ Complete(p)
  PROVE  Inv'
<1>i. TypeOK /\ FreshWorker /\ InLoop /\ RowsAndEffects
  BY DEF Inv
<1>1. /\ pc[p] \in Executing /\ Release(p) /\ UNCHANGED <<config, effects>>
  BY DEF Refuse, Deny, RecordFailed, Complete, AtStep, Executing
<1>2. /\ run[p] \in Runs /\ runs[run[p]].status = "RUNNING"
      /\ results[p] \in [Steps -> Results] /\ pos[p] \in 1 .. (N + 1)
      /\ runs[run[p]].results \in [Steps -> Results]
  BY <1>i, <1>1 DEF FreshWorker, InLoop, InStep, TypeOK, Row
<1>3. \A s \in Steps : runs[run[p]].results[s] = "ok" =>
          \E e \in effects : e.run = run[p] /\ e.step = s
  BY <1>i, <1>2 DEF RowsAndEffects
<1>4. CASE Refuse(p) \/ Deny(p)
  <2>1. PICK status \in {"INDETERMINATE", "FAILED"}, result \in {"refused", "failed"} :
            Record(p, status, Set(p, result)) /\ pc[p] = "loop" /\ pos[p] \in Steps
    BY <1>4 DEF Refuse, Deny, AtStep
  <2>2. Set(p, result) \in [Steps -> Results]
    BY <1>2, <2>1 DEF Set, Results
  <2>3. \A s \in Steps : Set(p, result)[s] = IF s = pos[p] THEN result ELSE results[p][s]
    BY <1>2 DEF Set
  <2>4. \A s \in Steps : runs[run[p]].results[s] = results[p][s]
    BY <1>i, <1>1, <2>1 DEF InLoop, InStep
  <2>5. runs' \in [Runs -> Row] /\ RowsAndEffects'
    BY <1>i, <1>1, <1>2, <1>3, <2>1, <2>2, <2>3, <2>4, RecordStep DEF Statuses
  <2> QED
    BY <1>1, <2>5, ReleaseStep DEF Executing
<1>5. CASE RecordFailed(p)
  <2>1. Record(p, "FAILED", results[p]) /\ pc[p] = "outcome" /\ results[p][pos[p]] = "failed"
    BY <1>5 DEF RecordFailed
  <2>2. \A s \in Steps : s # pos[p] => runs[run[p]].results[s] = results[p][s]
    BY <1>i, <1>1 DEF InLoop, InStep
  <2>5. runs' \in [Runs -> Row] /\ RowsAndEffects'
    BY <1>i, <1>1, <1>2, <1>3, <2>1, <2>2, RecordStep DEF Statuses
  <2> QED
    BY <1>1, <2>5, ReleaseStep DEF Executing
<1>6. CASE Complete(p)
  <2>1. PICK status \in {"COMPLETED", "FAILED"} :
            Record(p, status, results[p]) /\ pc[p] = "loop" /\ pos[p] = N + 1
    BY <1>6 DEF Complete
  <2>2. \A s \in Steps : runs[run[p]].results[s] = results[p][s] /\ results[p][s] = "ok"
    BY <1>i, <1>1, <2>1, WorkflowAssumption DEF InLoop, InStep, Steps
  <2>5. runs' \in [Runs -> Row] /\ RowsAndEffects'
    BY <1>i, <1>1, <1>2, <1>3, <2>1, <2>2, RecordStep DEF Statuses
  <2> QED
    BY <1>1, <2>5, ReleaseStep DEF Executing
<1> QED
  BY <1>4, <1>5, <1>6

\* A step that stays in the loop need only show p's own part.
LEMMA LoopStep ==
  ASSUME Inv, NEW p \in Procs, pc[p] # "idle", run[p] \in Runs, inp[p] \in Inputs,
         NEW stage \in Executing, pc' = [pc EXCEPT ![p] = stage],
         UNCHANGED <<lock, config, run, inp, todo>>,
         pos' \in [Procs -> 1 .. (N + 1)], results' \in [Procs -> [Steps -> Results]],
         \A q \in Procs : q # p => pos'[q] = pos[q] /\ results'[q] = results[q],
         effects' \subseteq Effect, runs' \in [Runs -> Row], RowsAndEffects', InStep(p)'
  PROVE  Inv'
<1>i. TypeOK /\ Holder /\ FreshWorker
  BY DEF Inv
<1>o. \A q \in Procs : q # p => pc[q] = "idle" /\ run[q] = NoRun
  BY OthersIdle
<1>s. stage \in Stages /\ pc' \in [Procs -> Stages] /\ pc'[p] = stage
      /\ \A q \in Procs : q # p => pc'[q] = pc[q]
  BY <1>i DEF TypeOK, Stages, Executing
<1>1. TypeOK'
  BY <1>i, <1>s DEF TypeOK
<1>2. Holder'
  BY <1>i, <1>s DEF Holder
<1>3. FreshWorker'
  BY <1>i, <1>o, <1>s DEF FreshWorker, Executing
<1>4. InLoop'
  BY <1>o, <1>s DEF InLoop, Executing
<1> QED
  BY <1>1, <1>2, <1>3, <1>4 DEF Inv

\* The first record of a run: no effect and no ok step can be there.
LEMMA StartedStep ==
  ASSUME Inv, NEW p \in Procs, RecordStarted(p)
  PROVE  Inv'
<1>i. TypeOK /\ FreshWorker /\ RowsAndEffects
  BY DEF Inv
<1> DEFINE new == [status |-> "RUNNING", results |-> NoResults,
                   inputs |-> inp[p], version |-> config[p].version]
<1>1. /\ pc[p] = "start" /\ run[p] \in Runs /\ inp[p] \in Inputs
      /\ runs[run[p]].status = "ABSENT" /\ pos[p] = 1 /\ results[p] = NoResults
  BY <1>i DEF RecordStarted, FreshWorker, Executing
<1>2. new \in Row
  BY <1>i, <1>1 DEF TypeOK, Row, Statuses, Results, NoResults, Versions
<1>3. /\ runs' \in [Runs -> Row] /\ runs'[run[p]] = new
      /\ \A r \in Runs : r # run[p] => runs'[r] = runs[r]
  BY <1>i, <1>1, <1>2 DEF RecordStarted, TypeOK
<1>4. \A e \in effects : e.run \in Runs /\ e.run # run[p]
  BY <1>i, <1>1 DEF RowsAndEffects, TypeOK, Effect
<1>5. RowsAndEffects'
  BY <1>i, <1>3, <1>4 DEF RecordStarted, RowsAndEffects, NoResults
<1>6. /\ pc' = [pc EXCEPT ![p] = "loop"]
      /\ UNCHANGED <<lock, config, run, inp, pos, results, todo, effects>>
  BY DEF RecordStarted, Goto
<1>7. InStep(p)'
  <2>1. /\ runs'[run'[p]].status = "RUNNING" /\ runs'[run'[p]].results = results'[p]
        /\ runs'[run'[p]].inputs = inp'[p] /\ runs'[run'[p]].version = config'[p].version
        /\ pc'[p] = "loop" /\ pos'[p] = 1
    BY <1>i, <1>1, <1>3, <1>6 DEF TypeOK
  <2> QED
    BY <2>1 DEF InStep, Steps
<1> QED
  BY <1>i, <1>1, <1>3, <1>5, <1>6, <1>7, LoopStep DEF Executing, TypeOK

\* resume takes over the recorded results.
LEMMA ResumeStep ==
  ASSUME Inv, NEW p \in Procs, ResumeStart(p)
  PROVE  Inv'
<1>i. TypeOK /\ FreshWorker /\ RowsAndEffects
  BY DEF Inv
<1>1. /\ pc[p] = "resume" /\ run[p] \in Runs /\ inp[p] \in Inputs /\ pos[p] = 1
      /\ runs[run[p]].status = "INDETERMINATE"
      /\ runs[run[p]].inputs = inp[p] /\ runs[run[p]].version = config[p].version
      /\ runs[run[p]].results \in [Steps -> Results]
  BY <1>i DEF ResumeStart, ResumeAllowed, FreshWorker, Executing, TypeOK, Row
<1>2. /\ pc' = [pc EXCEPT ![p] = "loop"]
      /\ results' = [results EXCEPT ![p] = runs[run[p]].results]
      /\ Record(p, "RUNNING", runs[run[p]].results)
      /\ UNCHANGED <<lock, config, run, inp, pos, todo, effects>>
  BY DEF ResumeStart, Goto
<1>3. runs' \in [Runs -> Row] /\ RowsAndEffects'
  <2>1. \A s \in Steps : runs[run[p]].results[s] = "ok" =>
            \E e \in effects : e.run = run[p] /\ e.step = s
    BY <1>i, <1>1 DEF RowsAndEffects
  <2> QED
    BY <1>i, <1>1, <1>2, <2>1, RecordStep DEF Statuses
<1>4. /\ runs'[run[p]].status = "RUNNING" /\ runs'[run[p]].results = runs[run[p]].results
      /\ runs'[run[p]].inputs = inp[p] /\ runs'[run[p]].version = config[p].version
  BY <1>i, <1>1, <1>2 DEF Record, TypeOK, Row
<1>5. InStep(p)'
  BY <1>i, <1>1, <1>2, <1>4 DEF InStep, TypeOK, Steps
<1> QED
  BY <1>i, <1>1, <1>2, <1>3, <1>5, LoopStep DEF Executing, TypeOK

\* reconcile changes the status of rows nobody works on.
LEMMA MarkStep ==
  ASSUME Inv, NEW p \in Procs, NEW r \in Runs, MarkIndeterminate(p, r)
  PROVE  Inv'
<1>i. TypeOK /\ Holder /\ FreshWorker /\ RowsAndEffects
  BY DEF Inv
<1>o. \A q \in Procs : q # p => pc[q] = "idle"
  BY OthersIdle DEF MarkIndeterminate
<1> DEFINE new == [runs[r] EXCEPT !.status = "INDETERMINATE"]
<1>1. /\ pc[p] = "reconcile" /\ r \in todo[p] /\ runs[r].status = "RUNNING"
      /\ runs' = [runs EXCEPT ![r] = new]
      /\ todo' = [todo EXCEPT ![p] = @ \ {r}]
      /\ UNCHANGED <<lock, config, pc, run, inp, pos, results, effects>>
  BY <1>i DEF MarkIndeterminate, FreshWorker
<1>2. /\ new \in Row /\ new.status = "INDETERMINATE" /\ new.results = runs[r].results
      /\ new.inputs = runs[r].inputs /\ new.version = runs[r].version
  <2>1. runs[r] \in Row
    BY <1>i DEF TypeOK
  <2> QED
    BY <2>1 DEF Row, Statuses
<1> HIDE DEF new
<1>3. /\ runs' \in [Runs -> Row] /\ runs'[r] = new
      /\ \A u \in Runs : u # r => runs'[u] = runs[u]
  <2>1. runs \in [Runs -> Row]
    BY <1>i DEF TypeOK
  <2> QED
    BY <2>1, <1>1, <1>2, SMTT(30)
<1>4. TypeOK'
  BY <1>i, <1>1, <1>3 DEF TypeOK
<1>5. Holder'
  BY <1>i, <1>1 DEF Holder
<1>t. /\ \A u \in todo'[p] : u \in todo[p] /\ u # r /\ u \in Runs
      /\ \A q \in Procs : pc'[q] \in {"idle", "reconcile"} /\ (pc'[q] = "reconcile" => q = p)
  BY <1>i, <1>o, <1>1 DEF TypeOK
<1>6. FreshWorker' /\ InLoop'
  <2>1. InLoop'
    BY <1>t DEF InLoop, Executing
  <2>2. \A u \in todo'[p] : runs'[u].status = "RUNNING"
    BY <1>i, <1>1, <1>3, <1>t DEF FreshWorker
  <2>3. FreshWorker'
    BY <1>i, <1>1, <1>t, <2>2 DEF FreshWorker, Executing
  <2> QED
    BY <2>1, <2>3
<1>7. RowsAndEffects'
  <2>1. \A e \in effects : e.run \in Runs /\ e.step \in Steps
    BY <1>i DEF TypeOK, Effect
  <2> QED
    BY <1>i, <1>1, <1>2, <1>3, <2>1 DEF RowsAndEffects
<1> QED
  BY <1>4, <1>5, <1>6, <1>7 DEF Inv

\* The steps inside the loop.
LEMMA InsideStep ==
  ASSUME Inv, NEW p \in Procs,
         \/ Skip(p) \/ StartStep(p) \/ RecordOk(p)
         \/ \E result \in {"ok", "failed"} : Operate(p, result)
  PROVE  Inv'
<1>i. TypeOK /\ FreshWorker /\ InLoop /\ RowsAndEffects
  BY DEF Inv
<1>1. /\ pc[p] \in Executing /\ pc[p] # "idle" /\ InStep(p)
      /\ UNCHANGED <<lock, config, run, inp, todo>>
  BY <1>i DEF InLoop, Skip, StartStep, RecordOk, Operate, AtStep, Executing
<1>2. /\ run[p] \in Runs /\ inp[p] \in Inputs /\ runs[run[p]].status = "RUNNING"
      /\ results[p] \in [Steps -> Results] /\ pos[p] \in 1 .. (N + 1)
      /\ runs[run[p]] \in Row
  BY <1>i, <1>1 DEF FreshWorker, InStep, TypeOK
<1>3. \A s \in Steps : runs[run[p]].results[s] = "ok" =>
          \E e \in effects : e.run = run[p] /\ e.step = s
  BY <1>i, <1>2 DEF RowsAndEffects
<1>4. CASE Skip(p)
  <2>1. /\ pc[p] = "loop" /\ pos[p] \in Steps /\ results[p][pos[p]] = "ok"
        /\ pos' = [pos EXCEPT ![p] = @ + 1] /\ UNCHANGED <<runs, pc, results, effects>>
    BY <1>4 DEF Skip, AtStep, StepDone
  <2>2. /\ pos' \in [Procs -> 1 .. (N + 1)] /\ pos'[p] = pos[p] + 1
        /\ \A q \in Procs : q # p => pos'[q] = pos[q]
    BY <1>i, <2>1, WorkflowAssumption DEF TypeOK, Steps
  <2>3. InStep(p)'
    BY <1>1, <1>2, <2>1, <2>2 DEF InStep, Steps
  <2>4. pc' = [pc EXCEPT ![p] = "loop"]
    BY <1>i, <2>1 DEF TypeOK
  <2>5. runs' \in [Runs -> Row] /\ RowsAndEffects'
    BY <1>i, <2>1 DEF TypeOK, RowsAndEffects
  <2> QED
    BY <1>i, <1>1, <1>2, <2>1, <2>2, <2>3, <2>4, <2>5, LoopStep DEF TypeOK, Executing
<1>5. CASE StartStep(p)
  <2>1. /\ pc[p] = "loop" /\ pos[p] \in Steps /\ results[p][pos[p]] # "ok"
        /\ results' = [results EXCEPT ![p] = Set(p, "running")]
        /\ Record(p, "RUNNING", Set(p, "running"))
        /\ pc' = [pc EXCEPT ![p] = "call"] /\ UNCHANGED <<pos, effects>>
    BY <1>5 DEF StartStep, AtStep, StepDone, Goto
  <2>2. /\ Set(p, "running") \in [Steps -> Results]
        /\ \A s \in Steps : Set(p, "running")[s] = IF s = pos[p] THEN "running" ELSE results[p][s]
    BY <1>2, <2>1 DEF Set, Results
  <2>3. \A s \in Steps : runs[run[p]].results[s] = results[p][s]
    BY <1>1, <2>1 DEF InStep
  <2>4. runs' \in [Runs -> Row] /\ RowsAndEffects'
    BY <1>i, <1>2, <1>3, <2>1, <2>2, <2>3, RecordStep DEF Statuses
  <2>5. /\ runs'[run[p]].status = "RUNNING" /\ runs'[run[p]].results = Set(p, "running")
        /\ runs'[run[p]].inputs = runs[run[p]].inputs
        /\ runs'[run[p]].version = runs[run[p]].version
        /\ results' \in [Procs -> [Steps -> Results]] /\ results'[p] = Set(p, "running")
        /\ \A q \in Procs : q # p => results'[q] = results[q]
        /\ pc'[p] = "call"
    BY <1>i, <1>2, <2>1, <2>2 DEF Record, TypeOK, Row
  <2>6. InStep(p)'
    BY <1>1, <1>2, <2>1, <2>2, <2>5 DEF InStep, Steps
  <2> QED
    BY <1>i, <1>1, <1>2, <2>1, <2>4, <2>5, <2>6, LoopStep DEF TypeOK, Executing
<1>6. CASE \E result \in {"ok", "failed"} : Operate(p, result)
  <2> DEFINE effect == [run |-> run[p], step |-> pos[p], inputs |-> inp[p],
                        version |-> config[p].version]
  <2>1. PICK result \in {"ok", "failed"} :
            /\ pc[p] = "call" /\ effects' = effects \cup {effect}
            /\ results' = [results EXCEPT ![p] = Set(p, result)]
            /\ pc' = [pc EXCEPT ![p] = "outcome"] /\ UNCHANGED <<runs, pos>>
    BY <1>6 DEF Operate, Goto
  <2>2. pos[p] \in Steps /\ runs[run[p]].results[pos[p]] = "running"
    BY <1>1, <2>1 DEF InStep
  <2>3. /\ Set(p, result) \in [Steps -> Results]
        /\ \A s \in Steps : Set(p, result)[s] = IF s = pos[p] THEN result ELSE results[p][s]
    BY <1>2, <2>2 DEF Set, Results
  <2>4. /\ effect \in Effect /\ effect.run = run[p] /\ effect.step = pos[p]
        /\ effect.inputs = inp[p] /\ effect.version = config[p].version
    BY <1>i, <1>2, <2>2 DEF Effect, TypeOK, Versions
  <2> HIDE DEF effect
  <2>5. RowsAndEffects'
    BY <1>i, <1>1, <1>2, <2>1, <2>2, <2>4 DEF RowsAndEffects, InStep
  <2>6. /\ results' \in [Procs -> [Steps -> Results]] /\ results'[p] = Set(p, result)
        /\ \A q \in Procs : q # p => results'[q] = results[q]
        /\ pc'[p] = "outcome"
    BY <1>i, <2>1, <2>3 DEF TypeOK
  <2>7. InStep(p)'
    BY <1>1, <1>2, <2>1, <2>2, <2>3, <2>4, <2>6 DEF InStep, Steps
  <2>8. effects' \subseteq Effect
    BY <1>i, <2>1, <2>4 DEF TypeOK
  <2> QED
    BY <1>i, <1>1, <1>2, <2>1, <2>5, <2>6, <2>7, <2>8, LoopStep DEF TypeOK, Executing
<1>7. CASE RecordOk(p)
  <2>1. /\ pc[p] = "outcome" /\ results[p][pos[p]] = "ok"
        /\ Record(p, "RUNNING", results[p]) /\ pos' = [pos EXCEPT ![p] = @ + 1]
        /\ pc' = [pc EXCEPT ![p] = "loop"] /\ UNCHANGED <<results, effects>>
    BY <1>7 DEF RecordOk, Advance, Goto
  <2>2. /\ pos[p] \in Steps /\ \E e \in effects : e.run = run[p] /\ e.step = pos[p]
        /\ \A s \in Steps : s # pos[p] => runs[run[p]].results[s] = results[p][s]
    BY <1>1, <2>1 DEF InStep
  <2>3. runs' \in [Runs -> Row] /\ RowsAndEffects'
    BY <1>i, <1>2, <1>3, <2>1, <2>2, RecordStep DEF Statuses
  <2>4. /\ runs'[run[p]].status = "RUNNING" /\ runs'[run[p]].results = results[p]
        /\ runs'[run[p]].inputs = runs[run[p]].inputs
        /\ runs'[run[p]].version = runs[run[p]].version
        /\ pc'[p] = "loop"
    BY <1>i, <1>2, <2>1 DEF Record, TypeOK, Row
  <2>5. /\ pos' \in [Procs -> 1 .. (N + 1)] /\ pos'[p] = pos[p] + 1
        /\ \A q \in Procs : q # p => pos'[q] = pos[q]
    BY <1>i, <2>1, <2>2, WorkflowAssumption DEF TypeOK, Steps
  <2>6. InStep(p)'
    BY <1>1, <1>2, <2>1, <2>4, <2>5 DEF InStep, Steps
  <2> QED
    BY <1>i, <1>1, <1>2, <2>1, <2>3, <2>4, <2>5, <2>6, LoopStep DEF TypeOK, Executing
<1> QED
  BY <1>4, <1>5, <1>6, <1>7

\* A killed process is idle again; the lock it held is free.
LEMMA KillStep ==
  ASSUME Inv, NEW p \in Procs, NEW c \in Configs, Kill(p, c)
  PROVE  Inv'
<1>i. TypeOK /\ Holder /\ FreshWorker /\ InLoop /\ RowsAndEffects
  BY DEF Inv
<1>1. /\ Reset(p) /\ UNCHANGED <<runs, effects>> /\ config' = [config EXCEPT ![p] = c]
      /\ lock' = IF lock = p THEN NoProc ELSE lock
  BY DEF Kill
<1>2. TypeOK'
  BY <1>i, <1>1, WorkflowAssumption DEF TypeOK, Reset, Stages, NoResults, Results
<1>3. /\ pc'[p] = "idle" /\ run'[p] = NoRun /\ pos'[p] = 1 /\ results'[p] = NoResults
      /\ \A q \in Procs : q # p =>
            /\ pc'[q] = pc[q] /\ run'[q] = run[q] /\ inp'[q] = inp[q] /\ pos'[q] = pos[q]
            /\ results'[q] = results[q] /\ todo'[q] = todo[q] /\ config'[q] = config[q]
  BY <1>i, <1>1 DEF TypeOK, Reset
<1>4. Holder'
  BY <1>i, <1>1, <1>3 DEF Holder
<1>5. FreshWorker'
  BY <1>i, <1>1, <1>3 DEF FreshWorker, Executing
<1>6. InLoop'
  <2> SUFFICES ASSUME NEW q \in Procs, pc'[q] \in Executing PROVE InStep(q)'
    BY DEF InLoop
  <2>1. q # p
    BY <1>3 DEF Executing
  <2>2. InStep(q)
    BY <1>i, <1>3, <2>1 DEF InLoop
  <2> QED
    BY <1>1, <1>3, <2>1, <2>2 DEF InStep
<1>7. RowsAndEffects'
  BY <1>i, <1>1 DEF RowsAndEffects
<1> QED
  BY <1>2, <1>4, <1>5, <1>6, <1>7 DEF Inv

\* Every step keeps the inductive invariant.
LEMMA InvStep == Inv /\ [Next]_vars => Inv'
<1> SUFFICES ASSUME Inv, [Next]_vars PROVE Inv'
  OBVIOUS
<1>1. CASE UNCHANGED vars
  BY <1>1 DEF vars, local, Inv, TypeOK, Holder, FreshWorker, InLoop, InStep, RowsAndEffects
<1>2. ASSUME NEW p \in Procs, Work(p) PROVE Inv'
  BY <1>2, StartedStep, ResumeStep, NoWriteStep, MarkStep, InsideStep, LastWriteStep DEF Work
<1>3. ASSUME NEW p \in Procs, Call(p) \/ Raises(p) PROVE Inv'
  BY <1>3, CallStep, NoWriteStep
<1> QED
  BY <1>1, <1>2, <1>3, KillStep DEF Next

\* The inductive invariant holds in every reachable state.
THEOREM InvInvariant == Safety => []Inv
<1> QED
  BY InvInit, InvStep, PTL DEF Safety

\* The tables and the workers keep their types in every execution of
\* run_recoverable, resume and reconcile, whoever is killed when.
THEOREM TypeOKHolds == Safety => []TypeOK
<1>1. Inv => TypeOK
  BY DEF Inv
<1> QED
  BY <1>1, InvInvariant, PTL

-----------------------------------------------------------------------------
(* The properties.                                                         *)

\* The worker inside _execute_remaining owns its run: the row is RUNNING, bound
\* to its inputs and versions and equal to its copy but for the step in progress,
\* and no other process works on that run.
THEOREM WorkerOwnsRunHolds == Safety => []WorkerOwnsRun
<1>1. Inv => WorkerOwnsRun
  <2> SUFFICES ASSUME Inv, NEW p \in Procs, pc[p] \in Executing
               PROVE  /\ InStep(p)
                      /\ \A q \in Procs \ {p} : run[q] # run[p]
    BY DEF WorkerOwnsRun, InStep
  <2>1. InStep(p) /\ run[p] \in Runs /\ pc[p] # "idle"
    BY DEF Inv, InLoop, FreshWorker, Executing
  <2> QED
    BY <2>1, OthersIdle, WorkflowAssumption
<1> QED
  BY <1>1, InvInvariant, PTL

\* A step whose callback may have run is never recorded as not started, so that
\* resume cannot take it for one that has no effect yet.
THEOREM EffectsVisibleHolds == Safety => []EffectsVisible
<1>1. Inv => EffectsVisible
  BY DEF Inv, RowsAndEffects, EffectsVisible
<1> QED
  BY <1>1, InvInvariant, PTL

\* Every callback of a run, in whichever process and after however many crashes,
\* gets the inputs and the operation versions that its first record bound.
THEOREM SameBindingHolds == Safety => []SameBinding
<1>1. Inv => SameBinding
  BY DEF Inv, RowsAndEffects, SameBinding
<1> QED
  BY <1>1, InvInvariant, PTL

\* COMPLETED is recorded only for a run all of whose callbacks ran and are ok.
THEOREM CompletedSoundHolds == Safety => []CompletedSound
<1>1. Inv => CompletedSound
  BY DEF Inv, RowsAndEffects, CompletedSound
<1> QED
  BY <1>1, InvInvariant, PTL

\* _execute_remaining calls an operation only with its intent durable and all the
\* steps it depends on durably ok.
THEOREM CallOrderHolds == Safety => CallOrder
<1> DEFINE Order == \A p \in Procs : pc[p] = "call" /\ pc'[p] = "outcome" =>
                       /\ runs[run[p]].results[pos[p]] = "running"
                       /\ \A d \in Deps[pos[p]] : runs[run[p]].results[d] = "ok"
<1>1. Inv => Order
  <2> SUFFICES ASSUME Inv, NEW p \in Procs, pc[p] = "call"
               PROVE  /\ runs[run[p]].results[pos[p]] = "running"
                      /\ \A d \in Deps[pos[p]] : runs[run[p]].results[d] = "ok"
    OBVIOUS
  <2>1. InStep(p)
    BY DEF Inv, InLoop, Executing
  <2>2. \A d \in Deps[pos[p]] : d \in Steps /\ d < pos[p]
    BY <2>1, WorkflowAssumption DEF InStep
  <2> QED
    BY <2>1, <2>2 DEF InStep
<1>2. Inv /\ [Next]_vars => [Order]_vars
  BY <1>1
<1> QED
  BY <1>2, InvInvariant, PTL DEF Safety, CallOrder

\* What every write of a row respects: an ended run is left alone and an ok step
\* stays ok.
RowKept(r) ==
    /\ runs[r].status \in {"COMPLETED", "FAILED"} => runs'[r] = runs[r]
    /\ \A s \in Steps : runs[r].results[s] = "ok" => runs'[r].results[s] = "ok"

\* A record written for a run that has not ended, with the ok steps it had.
LEMMA RecordKept ==
  ASSUME TypeOK, NEW p \in Procs, run[p] \in Runs,
         NEW status, NEW res, Record(p, status, res),
         runs[run[p]].status \notin {"COMPLETED", "FAILED"},
         \A s \in Steps : runs[run[p]].results[s] = "ok" => res[s] = "ok",
         NEW r \in Runs
  PROVE  RowKept(r)
<1>1. CASE r = run[p]
  BY <1>1 DEF RowKept, Record, TypeOK, Row
<1>2. CASE r # run[p]
  BY <1>2 DEF RowKept, Record, TypeOK
<1> QED
  BY <1>1, <1>2

\* The writes of a worker keep the ok steps of every row.
LEMMA WorkKept ==
  ASSUME Inv, NEW p \in Procs, Work(p), NEW r \in Runs
  PROVE  RowKept(r)
<1>i. TypeOK /\ FreshWorker /\ InLoop /\ RowsAndEffects
  BY DEF Inv
<1>1. CASE ResumeRefused(p) \/ Reconciled(p) \/ Skip(p)
           \/ \E result \in {"ok", "failed"} : Operate(p, result)
  BY <1>1 DEF ResumeRefused, Reconciled, Skip, Operate, RowKept
<1>2. CASE RecordStarted(p)
  <2>1. run[p] \in Runs /\ runs[run[p]].status = "ABSENT"
    BY <1>i, <1>2 DEF RecordStarted, FreshWorker, Executing
  <2>2. \A s \in Steps : runs[run[p]].results[s] # "ok"
    BY <1>i, <2>1 DEF RowsAndEffects, NoResults
  <2>3. \A u \in Runs : u # run[p] => runs'[u] = runs[u]
    BY <1>i, <1>2 DEF RecordStarted, TypeOK
  <2> QED
    BY <2>1, <2>2, <2>3 DEF RowKept
<1>3. CASE ResumeStart(p)
  <2>1. /\ run[p] \in Runs /\ runs[run[p]].status = "INDETERMINATE"
        /\ Record(p, "RUNNING", runs[run[p]].results)
    BY <1>i, <1>3 DEF ResumeStart, ResumeAllowed, FreshWorker, Executing
  <2> QED
    BY <1>i, <2>1, RecordKept
<1>4. ASSUME NEW u \in Runs, MarkIndeterminate(p, u) PROVE RowKept(r)
  <2>1. /\ runs' = [runs EXCEPT ![u] = [runs[u] EXCEPT !.status = "INDETERMINATE"]]
        /\ runs[u].status = "RUNNING"
    BY <1>i, <1>4 DEF MarkIndeterminate, FreshWorker
  <2>2. CASE r = u
    BY <1>i, <2>1, <2>2 DEF RowKept, TypeOK, Row
  <2>3. CASE r # u
    BY <1>i, <2>1, <2>3 DEF RowKept, TypeOK
  <2> QED
    BY <2>2, <2>3
<1>5. CASE Refuse(p) \/ Deny(p) \/ StartStep(p) \/ RecordOk(p) \/ RecordFailed(p) \/ Complete(p)
  <2>1. /\ pc[p] \in Executing /\ InStep(p) /\ run[p] \in Runs
        /\ results[p] \in [Steps -> Results] /\ runs[run[p]].status = "RUNNING"
    BY <1>i, <1>5 DEF Refuse, Deny, StartStep, RecordOk, RecordFailed, Complete, AtStep,
       Executing, InLoop, InStep, FreshWorker, TypeOK
  <2>2. CASE Refuse(p) \/ Deny(p) \/ StartStep(p)
    <3>1. PICK status, result : Record(p, status, Set(p, result))
      BY <2>2 DEF Refuse, Deny, StartStep
    <3>2. pc[p] = "loop" /\ pos[p] \in Steps /\ results[p][pos[p]] # "ok"
      BY <2>2 DEF Refuse, Deny, StartStep, AtStep, StepDone
    <3>3. \A s \in Steps : runs[run[p]].results[s] = "ok" => Set(p, result)[s] = "ok"
      BY <2>1, <3>2 DEF InStep, Set
    <3> QED
      BY <1>i, <2>1, <3>1, <3>3, RecordKept
  <2>3. CASE RecordOk(p) \/ RecordFailed(p) \/ Complete(p)
    <3>1. PICK status : Record(p, status, results[p])
      BY <2>3 DEF RecordOk, RecordFailed, Complete
    <3>2. \A s \in Steps : runs[run[p]].results[s] = "ok" => results[p][s] = "ok"
      BY <2>1 DEF InStep
    <3> QED
      BY <1>i, <2>1, <3>1, <3>2, RecordKept
  <2> QED
    BY <1>5, <2>2, <2>3
<1> QED
  BY <1>1, <1>2, <1>3, <1>4, <1>5 DEF Work

\* A COMPLETED or FAILED run is never written again and no write of any process,
\* a late or a resumed one included, takes an ok step back.
THEOREM EndedForeverHolds == Safety => EndedForever
<1> DEFINE Kept == \A r \in Runs :
           /\ runs[r].status \in {"COMPLETED", "FAILED"} => runs'[r] = runs[r]
           /\ \A s \in Steps : runs[r].results[s] = "ok" => runs'[r].results[s] = "ok"
<1>1. Inv /\ [Next]_vars => Kept
  <2> SUFFICES ASSUME Inv, [Next]_vars, NEW r \in Runs PROVE RowKept(r)
    BY DEF RowKept
  <2>1. CASE UNCHANGED runs
    BY <2>1 DEF RowKept
  <2>2. ASSUME NEW p \in Procs, Work(p) PROVE RowKept(r)
    BY <2>2, WorkKept
  <2> QED
    BY <2>1, <2>2 DEF Next, Call, RunRecoverable, Resume, Reconcile, Raises, Kill, vars
<1>2. Inv /\ [Next]_vars => [Kept]_vars
  BY <1>1
<1> QED
  BY <1>2, InvInvariant, PTL DEF Safety, EndedForever

-----------------------------------------------------------------------------
(* The executor implements DurableRun.                                     *)

\* What a reader of the row knows of its run.
DoneSteps(r) == {s \in Steps : runs[r].results[s] = "ok"}
Binding(r) == <<runs[r].inputs, runs[r].version>>

\* A write of row r is nothing, the beginning, a finished step or an end.
Unseen(r) ==
    Outcome(r)' = Outcome(r) /\ DoneSteps(r)' = DoneSteps(r) /\ Binding(r)' = Binding(r)
Begins(r) ==
    /\ Outcome(r) = "none" /\ Outcome(r)' = "open"
    /\ DoneSteps(r)' = DoneSteps(r) /\ Binding(r)' \in Inputs \X Versions
Finishes(r, s) ==
    /\ Outcome(r) = "open" /\ Outcome(r)' = "open" /\ Binding(r)' = Binding(r)
    /\ s \notin DoneSteps(r) /\ Deps[s] \subseteq DoneSteps(r)
    /\ DoneSteps(r)' = DoneSteps(r) \cup {s}
Ends(r) ==
    /\ Outcome(r) = "open" /\ Outcome(r)' \in {"COMPLETED", "FAILED"}
    /\ Outcome(r)' = "COMPLETED" => DoneSteps(r) = Steps
    /\ DoneSteps(r)' = DoneSteps(r) /\ Binding(r)' = Binding(r)

\* What happens to one row is a step of DurableRun.
LEMMA RowStep ==
  ASSUME NEW r \in Runs, \A u \in Runs : u # r => runs'[u] = runs[u],
         Unseen(r) \/ Begins(r) \/ (\E s \in Steps : Finishes(r, s)) \/ Ends(r)
  PROVE  [Durable!Next]_Durable!vars
<1> DEFINE outcome == [u \in Runs |-> Outcome(u)]
           done    == [u \in Runs |-> DoneSteps(u)]
           bound   == [u \in Runs |-> Binding(u)]
<1>1. /\ outcome' = [outcome EXCEPT ![r] = Outcome(r)']
      /\ done' = [done EXCEPT ![r] = DoneSteps(r)']
      /\ bound' = [bound EXCEPT ![r] = Binding(r)']
  <2>1. \A u \in Runs : u # r => /\ Outcome(u)' = Outcome(u)
                                /\ DoneSteps(u)' = DoneSteps(u)
                                /\ Binding(u)' = Binding(u)
    BY DEF Outcome, DoneSteps, Binding
  <2> QED
    BY <2>1
<1>2. /\ outcome[r] = Outcome(r) /\ done[r] = DoneSteps(r) /\ bound[r] = Binding(r)
  OBVIOUS
<1>3. Durable!vars = <<outcome, done, bound>>
  BY DEF Durable!vars, DoneSteps, Binding
<1>4. Durable!vars' = <<outcome', done', bound'>>
  BY DEF Durable!vars, DoneSteps, Binding
<1>5. CASE Unseen(r)
  <2>1. outcome' = outcome /\ done' = done /\ bound' = bound
    BY <1>1, <1>2, <1>5 DEF Unseen
  <2> QED
    BY <1>3, <1>4, <2>1
<1>6. CASE Begins(r)
  <2>1. PICK b \in Inputs \X Versions : b = Binding(r)'
    BY <1>6 DEF Begins
  <2>2. Durable!Begin(r, b)
    BY <1>1, <1>2, <1>6, <2>1 DEF Begins, Durable!Begin, DoneSteps, Binding
  <2> QED
    BY <2>2 DEF Durable!Next
<1>7. ASSUME NEW s \in Steps, Finishes(r, s) PROVE Durable!Next
  <2>1. /\ outcome[r] = "open" /\ s \notin done[r] /\ Deps[s] \subseteq done[r]
        /\ outcome' = outcome /\ bound' = bound
        /\ done' = [done EXCEPT ![r] = done[r] \cup {s}]
    BY ZenonT(60), <1>1, <1>2, <1>7 DEF Finishes
  <2>2. Durable!Finish(r, s)
    BY <2>1, Zenon DEF Durable!Finish, DoneSteps, Binding
  <2> QED
    BY <2>2 DEF Durable!Next
<1>8. CASE Ends(r)
  <2>1. PICK result \in {"COMPLETED", "FAILED"} : result = Outcome(r)'
    BY <1>8 DEF Ends
  <2>2. Durable!End(r, result)
    BY <1>1, <1>2, <1>8, <2>1 DEF Ends, Durable!End, DoneSteps, Binding
  <2> QED
    BY <2>2 DEF Durable!Next
<1> QED
  BY <1>5, <1>6, <1>7, <1>8

\* A write by the worker that changes no ok step: nothing, or an end.
LEMMA RecordImplements ==
  ASSUME TypeOK, NEW p \in Procs, run[p] \in Runs,
         NEW status \in Statuses \ {"ABSENT"}, NEW res, Record(p, status, res),
         runs[run[p]].status \in {"RUNNING", "INDETERMINATE"},
         \A s \in Steps : runs[run[p]].results[s] = "ok" <=> res[s] = "ok",
         status = "COMPLETED" => \A s \in Steps : res[s] = "ok"
  PROVE  [Durable!Next]_Durable!vars
<1>1. /\ runs'[run[p]].status = status /\ runs'[run[p]].results = res
      /\ runs'[run[p]].inputs = runs[run[p]].inputs
      /\ runs'[run[p]].version = runs[run[p]].version
      /\ \A v \in Runs : v # run[p] => runs'[v] = runs[v]
  BY DEF Record, TypeOK, Row
<1> PICK r \in Runs : r = run[p]
  OBVIOUS
<1>2. /\ DoneSteps(r)' = DoneSteps(r) /\ Binding(r)' = Binding(r)
      /\ Outcome(r) = "open"
      /\ status = "COMPLETED" => DoneSteps(r) = Steps
  BY <1>1 DEF DoneSteps, Binding, Outcome
<1>3. CASE status \in {"RUNNING", "INDETERMINATE"}
  <2>1. Unseen(r)
    BY <1>1, <1>2, <1>3 DEF Unseen, Outcome
  <2> QED
    BY <1>1, <2>1, RowStep
<1>4. CASE status \in {"COMPLETED", "FAILED"}
  <2>1. Ends(r)
    BY <1>1, <1>2, <1>4 DEF Ends, Outcome
  <2> QED
    BY <1>1, <2>1, RowStep
<1> QED
  BY <1>3, <1>4 DEF Statuses

\* Every write of a worker is one of the four.
LEMMA WorkImplements ==
  ASSUME Inv, NEW p \in Procs, Work(p)
  PROVE  [Durable!Next]_Durable!vars
<1>i. TypeOK /\ FreshWorker /\ InLoop /\ RowsAndEffects
  BY DEF Inv
<1>1. CASE UNCHANGED runs
  BY <1>1 DEF Durable!vars, Outcome
<1>2. CASE RecordStarted(p)
  <2>1. /\ run[p] \in Runs /\ inp[p] \in Inputs /\ runs[run[p]].status = "ABSENT"
        /\ runs[run[p]].results = NoResults
        /\ config[p].version \in Versions
    BY <1>i, <1>2 DEF RecordStarted, FreshWorker, Executing, RowsAndEffects, TypeOK, Versions
  <2>2. /\ runs'[run[p]] = [status |-> "RUNNING", results |-> NoResults,
                            inputs |-> inp[p], version |-> config[p].version]
        /\ \A u \in Runs : u # run[p] => runs'[u] = runs[u]
    BY <1>i, <1>2, <2>1 DEF RecordStarted, TypeOK
  <2> PICK r \in Runs : r = run[p]
    BY <2>1
  <2>3. Begins(r)
    BY <2>1, <2>2 DEF Begins, Outcome, DoneSteps, Binding
  <2> QED
    BY <2>2, <2>3, RowStep
<1>3. CASE ResumeStart(p)
  <2>1. /\ run[p] \in Runs /\ runs[run[p]].status = "INDETERMINATE"
        /\ Record(p, "RUNNING", runs[run[p]].results)
    BY <1>i, <1>3 DEF ResumeStart, ResumeAllowed, FreshWorker, Executing
  <2> QED
    BY <1>i, <2>1, RecordImplements DEF Statuses
<1>4. ASSUME NEW u \in Runs, MarkIndeterminate(p, u) PROVE [Durable!Next]_Durable!vars
  <2>1. /\ runs' = [runs EXCEPT ![u] = [runs[u] EXCEPT !.status = "INDETERMINATE"]]
        /\ runs[u].status = "RUNNING" /\ runs[u] \in Row
    BY <1>i, <1>4 DEF MarkIndeterminate, FreshWorker, TypeOK
  <2>2. /\ runs'[u].status = "INDETERMINATE" /\ runs'[u].results = runs[u].results
        /\ runs'[u].inputs = runs[u].inputs /\ runs'[u].version = runs[u].version
        /\ \A v \in Runs : v # u => runs'[v] = runs[v]
    BY <1>i, <2>1 DEF TypeOK, Row
  <2>3. Unseen(u)
    BY <2>1, <2>2 DEF Unseen, Outcome, DoneSteps, Binding
  <2> QED
    BY <2>2, <2>3, RowStep
<1>5. CASE Refuse(p) \/ Deny(p) \/ StartStep(p) \/ RecordOk(p) \/ RecordFailed(p) \/ Complete(p)
  <2>1. /\ pc[p] \in Executing /\ InStep(p) /\ run[p] \in Runs
        /\ results[p] \in [Steps -> Results] /\ runs[run[p]].status = "RUNNING"
        /\ pos[p] \in 1 .. (N + 1)
    BY <1>i, <1>5 DEF Refuse, Deny, StartStep, RecordOk, RecordFailed, Complete, AtStep,
       Executing, InLoop, InStep, FreshWorker, TypeOK
  <2>2. CASE Refuse(p) \/ Deny(p) \/ StartStep(p)
    <3>1. PICK status \in {"INDETERMINATE", "FAILED", "RUNNING"},
               result \in {"refused", "failed", "running"} : Record(p, status, Set(p, result))
      BY <2>2 DEF Refuse, Deny, StartStep
    <3>2. pc[p] = "loop" /\ pos[p] \in Steps /\ results[p][pos[p]] # "ok"
      BY <2>2 DEF Refuse, Deny, StartStep, AtStep, StepDone
    <3>3. \A s \in Steps : runs[run[p]].results[s] = "ok" <=> Set(p, result)[s] = "ok"
      BY <2>1, <3>2 DEF InStep, Set
    <3> QED
      BY <1>i, <2>1, <3>1, <3>3, RecordImplements DEF Statuses
  <2>3. CASE RecordOk(p)
    <3>1. Record(p, "RUNNING", results[p]) /\ pc[p] = "outcome" /\ results[p][pos[p]] = "ok"
      BY <2>3 DEF RecordOk
    <3>2. /\ pos[p] \in Steps /\ runs[run[p]].results[pos[p]] = "running"
          /\ \A s \in Steps : s # pos[p] => runs[run[p]].results[s] = results[p][s]
          /\ \A s \in Steps : s < pos[p] => results[p][s] = "ok"
      BY <2>1, <3>1 DEF InStep
    <3>3. Deps[pos[p]] \subseteq DoneSteps(run[p])
      BY <3>2, WorkflowAssumption DEF DoneSteps, Steps
    <3>4. /\ runs'[run[p]].status = "RUNNING" /\ runs'[run[p]].results = results[p]
          /\ runs'[run[p]].inputs = runs[run[p]].inputs
          /\ runs'[run[p]].version = runs[run[p]].version
          /\ \A v \in Runs : v # run[p] => runs'[v] = runs[v]
      BY <1>i, <2>1, <3>1 DEF Record, TypeOK, Row
    <3> PICK r \in Runs, s \in Steps : r = run[p] /\ s = pos[p]
      BY <2>1, <3>2
    <3>5. Finishes(r, s)
      <4>1. DoneSteps(r)' = DoneSteps(r) \cup {s} /\ s \notin DoneSteps(r)
        BY <3>1, <3>2, <3>4 DEF DoneSteps
      <4> QED
        BY <2>1, <3>3, <3>4, <4>1 DEF Finishes, Outcome, Binding
    <3> QED
      BY <3>4, <3>5, RowStep
  <2>4. CASE RecordFailed(p)
    <3>1. Record(p, "FAILED", results[p]) /\ pc[p] = "outcome" /\ results[p][pos[p]] = "failed"
      BY <2>4 DEF RecordFailed
    <3>2. \A s \in Steps : runs[run[p]].results[s] = "ok" <=> results[p][s] = "ok"
      BY <2>1, <3>1 DEF InStep
    <3> QED
      BY <1>i, <2>1, <3>1, <3>2, RecordImplements DEF Statuses
  <2>5. CASE Complete(p)
    <3>1. PICK status \in {"COMPLETED", "FAILED"} :
              Record(p, status, results[p]) /\ pc[p] = "loop" /\ pos[p] = N + 1
      BY <2>5 DEF Complete
    <3>2. \A s \in Steps : runs[run[p]].results[s] = "ok" /\ results[p][s] = "ok"
      BY <2>1, <3>1, WorkflowAssumption DEF InStep, Steps
    <3> QED
      BY <1>i, <2>1, <3>1, <3>2, RecordImplements DEF Statuses
  <2> QED
    BY <1>5, <2>2, <2>3, <2>4, <2>5
<1> QED
  BY <1>1, <1>2, <1>3, <1>4, <1>5 DEF Work, ResumeRefused, Reconciled, Skip, Operate

\* Whoever reads the rows sees a DurableRun: processes, locks, kills, reconciliation and
\* resumption show as nothing but the beginning of a run, a finished step whose
\* dependencies are done, and one end.
THEOREM ImplementsDurableRunHolds == Safety => ImplementsDurableRun
<1>1. Init => Durable!Init
  BY DEF Init, Durable!Init, Outcome, NoRow, NoResults
<1>2. Inv /\ [Next]_vars => [Durable!Next]_Durable!vars
  <2> SUFFICES ASSUME Inv, [Next]_vars PROVE [Durable!Next]_Durable!vars
    OBVIOUS
  <2>1. CASE UNCHANGED runs
    BY <2>1 DEF Durable!vars, Outcome
  <2>2. ASSUME NEW p \in Procs, Work(p) PROVE [Durable!Next]_Durable!vars
    BY <2>2, WorkImplements
  <2> QED
    BY <2>1, <2>2 DEF Next, Call, RunRecoverable, Resume, Reconcile, Raises, Kill, vars
<1> QED
  BY <1>1, <1>2, InvInvariant, PTL DEF Safety, ImplementsDurableRun, Durable!Spec
=============================================================================
