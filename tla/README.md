# The Agency: a verification development

This directory holds TLA+ models of The Agency's durable, concurrent core, the
TLC configurations that check them on small instances, and proofs that TLAPS
checks for every instance. Paths are relative to the repository's root; the
Python package is `src/src/agency` (below only `agency/...`).

## 1. The system and its inventory

The Agency is a Python asyncio system: a Butler answers owners and Telegram users
with the help of agents, tools and language models, and a *lattice* stores what
the agents know and decide. The parts that can go wrong in ways a test hardly
reaches are the ones that spend money, publish results, or must come back after a
crash. Their durable state is in several SQLite files, each committed on its own;
their volatile state is in the objects of one process; the event loop switches at
every `await`, and SQLite work runs on worker threads that a cancellation does not
stop.

| component | state | operations | talks to | what is hard |
|---|---|---|---|---|
| quota ledger (`telegram/budget_store.py`) | tables `requests`, `model_attempts`, `quota_clock`; `_owners`, `_closed` | reserve_request, mark_running, reserve_model_call, finish_request, close, pruning | gateway, owner adapter | several processes on one file, close during a worker, sliding windows, the clock |
| owner turn (`admission/*`, `llm/metered.py`, `kernel/audit.py`, owner path of tools, Butler, orchestrator) | pilot row, transcript, quota row, audit intents and outcomes; leases, fences, the execution task | submit, cancel, start, stop, perform, stage, publish, dispose, recover | three SQLite files, model and tool providers | cancellation, deadline, stop and crash at every await; no transaction spans two files |
| workflow executor (`workflows/*`) | table `recoverable_runs`, OS lock; results and position in memory | run_recoverable, resume, reconcile | operation callbacks | kills between intent, effect and outcome; two processes; redeployment |
| lattice ownership (`lattice/factory.py`) | process-wide manager, generation, lease tokens, pin | acquire, get, release, reset | SQLite backend, all services | several tasks and event loops; failing or cancelled initialize and close |
| governance (`lattice/governance.py`, `reputation.py`) | proposals, votes, reputations, expiry | submit, cast_vote, check_quorum, record | backend mirror | awaits between reading a weight and counting the ballot; expiry; out-of-order mirror |
| lattice store (`lattice/backends/sqlite.py`) and orchestrator's proposals | tables of nodes, edges, proposals, votes, reputations, events | add, update, delete, vote, check, close | orchestrator spawns agents | one connection for all tasks; interrupted statements in an open transaction; kill |
| Telegram gateway (`telegram_bot.py`, `telegram/handler.py`, `adapter.py`, `profile_store.py`) | offset in memory and on disk, `_seen`, profile names | poll, handle, advance, restart | Telegram, quota ledger, Butler | redelivery after a crash anywhere between effect, reply, ledger and offset |
| Butler threads (`butler/threads.py`, `service.py`) | threads, messages, summaries, active thread | create, append, switch, summarise | gateway, orchestrator | ownership, summary boundary against concurrent appends |
| agent loop, planner, executor, verifier (`agents/*`) | plan, step results, retries | plan, execute, verify, replan | tools, models | retries, dependency order, partial failure |
| orchestrator plans (`orchestrator.py`) | agents, plans, spawned proposals | execute, spawn, start, stop | everything | failure of one step of several |
| kernel (`kernel/tasks.py`, `policies.py`, `registry.py`, `identity.py`) | tasks and their states, policies, capabilities | create, transition, decide, register | API | illegal transitions after long histories |
| tool loops (`tools/driver.py`, `registry.py`, beta part of `kernel/audit.py`) | intents and outcomes in the audit file, the suspension latch, each loop's answer and budget | run, execute, claim_intent, append_beta, close | model, tools, several processes | lost acknowledgements, cancellation between claim and outcome, rows left on a connection |
| agent factory, skills, prompts (`factory/*`, `skills/registry.py`) | blueprints, skill and prompt versions, their events; identities in two registries in memory | create, approve, activate, revoke, transition, seed | kernel and runtime registries | rollback of a half-done activation, revocation across processes, two factories reading before either writes |
| forge (`forge/*`) | worktrees, branches, the report of a job | pipeline, review, coding and external agents, evidence, holdout, merge decision | git, subprocesses, editors | each gate opens the files anew while somebody writes them |
| evidence and risk (`evidence/*`, `risk/scoring.py`) | findings, the trail, scores and accuracy counters | add_finding, update_finding, add_evidence, score_finding, record_outcome | API, orchestrator | reads outside the lock, writers interrupted inside it |
| memory (`memory/sms/*`) | rows, full-text index, tiers | store, delete, search, promote, demote, auto_age, periodic task | orchestrator, tools | one transaction shared by all operations |
| bridges (`bridges/*`) | circuit breaker, child processes | register, route_task, route_stream | external agents | late results, cancelled probes, programs that outlive their call |
| owner server (`prototype/*`) | data directory, token file, open stores, the owner service | start, serve, request, cleanup | OwnerPilot, Butler | two launchers, a crash inside the token's creation, cancelled cleanup |
| laboratory (`lab/comet_smoke.py`) | four child processes, observations, the report | start, commit, stop, watch, restore, clean up | CometBFT (external) | it only polls; an engine may be unsound; children die |
| skills' executor, sandbox, peer envelope, dark and ghost factory, self improvement | none that is shared | see PROJECT.json | API, agents | - |
| adapters: REST, CLI, HTTP providers, built-in tools | none of their own | translate and forward | services above | pure I/O |

`PROJECT.json` lists all the components with their files, and 40 hazards, each at the line
where it bites.

What makes the modelled parts correct, in one line each:

* ledger: one execution right per update, no replay within the retention period, no
  window over its limit, whatever processes, clock and crashes do;
* owner turn: only clean turns are published; the three stores never contradict each
  other; every call is accounted for; nothing ends silently; stop always completes;
* workflow: one owner per run; no crash hides a callback that may have run; a run keeps
  its inputs and versions; the lock comes back;
* lattice ownership: who holds a lease has an open connection, of which there is one;
* governance: the verdict follows from the ballots, once and for all, and the backend
  is told the truth;
* lattice store: events replay to the tables, verdicts follow from ballots, an agent is
  spawned only by an approved proposal and once per process;
* gateway: no update is lost, none repeats its effect, none is stuck;
* butler: the context of a turn tells of no message twice, and leaves out only the oldest
  ones, where the cap of the summary cut them off; nothing is executed or stored unaudited;
  owners stay apart;
* tasks: queue, status and records agree with what is executed; a cancellation lasts; an
  execution ends;
* policy: authority rests on a live permission and grows only by what is given;
* agent factory: an identity lives only while the table names it, approved by somebody else
  and with published pins; the event tables tell every change once;
* tool loops: nothing is dispatched on top of a call whose effect is unknown; no answer hides
  a failed or unrecorded call;
* plain workflows: exactly the acyclic definitions are accepted; what a run records is what
  it did; a registered version never changes;
* graph: both backends answer queries alike, and a path found while others write consists of
  edges that were there; a completed task keeps its deliverable;
* evidence and risk: what was acknowledged is on disk once, the ladder agrees with the trail,
  the committed counters agree with the committed rows;
* memory: index and rows agree, what was acknowledged survives;
* bridges: a half-open breaker never refuses for ever; a program outlives its attempt only
  where a cancellation or a failing write leaves it;
* forge: a PASS whose gates ran is about the files that are there; no protected path passes
  unapproved but those with a leading dot; a job writes only its own worktree;
* owner server: the service never runs on a closed store, everything is closed in the end,
  one token per data directory, no route around the guards;
* laboratory: PASS is true of the engine that ran.

## 2. Modules

Every module has one action for each step between two points where the code can be
interleaved (an `await`, a commit, the start or end of a worker thread), and its
`map` in `PROJECT.json` leads from each definition to the source lines. Definitions
whose name begins with `Mut` are deliberately wrong variants of the definition below
them, used to show that a property can fail.

### QuotaLedger

`req`, `att`, `clock` are the three tables (a row per key, "ABSENT" if there is
none); `closed` and `owners` the fields of each process' store object; `pc`, `arg`
the coroutine of each task. Each operation is split into the part before its worker
(`ReserveRequest`), the transaction (`ReserveRequestTxn`) and the part after it
(`ReserveRequestReturn`), since `close()` can run between any two. `TxnFails` is a
locked or failing database. The clock is an input of every transaction, and only
`AdvanceClock` makes it monotone. `Restart` kills a process and opens the file anew.

### OwnerPilot

One admitted turn at a time, from `submit` to its terminal row, composed of
admission service and store, owner budget adapter, quota ledger (as the state of the
turn's request), metered model, tool registry and audit log. `pc` names the await
the execution stands at and `io` how far its worker is: a worker goes on when the
coroutine that awaits it is cancelled. `XWorker` is the transaction, `XResume` the
coroutine after it. `Interrupt`, `TimeoutFires`, `Crash`, `WorkerFails` and `Expire`
can come anywhere. `Inspect`, `RefundWorker`, `Disposition` are the except clause.
`calls` and `interrupted` are history.

### RecoverableWorkflow

`runs` is the table, `lock` the OS lock, and each process has its configuration
(operation versions and replay-safe steps), position and copy of the results. `Kill`
takes a process away at any step and releases the lock, as the OS does; failing
writes and raising callbacks have actions of their own. `Deps` is any acyclic relation.

### LatticeLease

Managers, generations and leases as identities; `Enter`/`Leave` are `_guard`; every
`await` of `initialize` and `close` may succeed, fail or be cancelled. Tasks live on
the loops `LoopOf` gives them.

### Governance

`ConsensusEngine` with `ReputationEngine`: `call` is what a coroutine remembers over
its awaits (the weight, the snapshot sent to the backend). Scores and thresholds are
the code's formulas in integers, in units of `1/Full` of a full weight; a tally (`Total`) counts
the units of its ballots.

### LatticeStore

`disk` is the committed database and `work` what the one connection sees. An
operation is a script of statements; an interrupt drops the rest of a script and
releases the lock, without a rollback, as the code does. `Kill` loses `work`. The
orchestrator's `resolve_agent_proposal` is the operation that spawns.

### TelegramGateway

`sent` and `confirmed` are Telegram's side: it keeps updates from the last offset it
was asked for. `row` is the quota ledger as the handler sees it (QuotaLedger models
it in full), `names` the profile writes. One action per await of `_poll_batch`,
`_handle_polled_update` and `_handle_update`; `Stop`/`Start` lose the memory, and
outside beta mode there is no durable offset. Kinds of updates stand for the
handler's branches: what matters to the poller is whether there is an effect, a
reply, and which status comes back.

### ButlerTurns

`thread`, `msgs`, `summary`, `spaces` and `active` are the tables of the thread store;
its methods do not await, so each is atomic but for the two transactions of a turn
(`StoreFails`). A call of `handle_message`, `handle_public_message` or the isolated path
walks from one audit entry to the next, `pc` naming the entry it waits for, `call.acks`
those it got. `Stop` closes the stores under the calls in flight; a context engine made
before it holds the closed one (`epoch`). A summary's text is the set of messages it
tells of, a context the sets its two parts tell of. `_summarize_lines` cuts every line to 300
characters and the text to its last 2000, so `Clipped` keeps all the messages or, depending on
how long they are, any number of the latest ones that is not below `Lines`; a message of which
the cut leaves half a line counts as gone.

### TaskExecution and PolicyEngine

`status` and `pending` are the task manager, of the orchestrator or of the REST API
(`client`): the two own one each and use different operations. No manager method awaits
under its lock, so it cannot be contended and a method is a step; in particular the
handler of `execute_task` cannot be interrupted. `pc` is the await at which an execution
stands, `state`, `running` and `cancelled` are the executor's books, keyed by task. A
cancellation interrupts the coroutine, or a model absorbs it and goes on.

PolicyEngine keeps `perms` in the order of the dictionary, because the first permission
that covers a target decides. `Allowed` is `evaluate`; a glob is the set of targets it
covers. Lists of capabilities with the same name twice are left out.

### WorkflowRuns and DurableRun

WorkflowRuns is the other half of `workflows/`: `Valid` is `_validate_dag` with its depth-first
search (`HasCycle`), `Order` the order of execution, `Lookup`/`Insert` a registration by two
processes, `Run` to `Finish` the plain `run()`, in which a kill or a failing write leaves a
RUNNING row behind. Every graph over three steps (with a step that does not exist among the
dependencies) is an initial state.

DurableRun is the abstract specification of a recoverable run: begun and bound once, steps
finished one by one after their dependencies, one end. RecoverableWorkflow implements it under
the mapping `Durable`: outcome from the row's status (RUNNING and INDETERMINATE are "open"),
`done` from its ok steps, `bound` from its inputs and versions.

### LatticeGraph

The facade's graph over either backend. `Traverse`/`TraverseSql`, `FindPath` and the
statement-by-statement search (`StartPath`, `Select`, `Return`) are written out, with ghost
sets of the edges that existed at some time and all the time of a search. `complete_task` is
`CreateDeliverable`, `LinkDeliverable`, `FinishTask`. The in-memory backend's votes decide at
once.

### ToolCalls

A loop is one `ToolDriver.run` in one of two processes, beta or not; `intents` and `outcomes`
are the committed audit rows, `staged` what a failed append left on a process's connection and
a later commit may still write, `suspended` the registry's latch. A claim is one immediate
transaction on a connection of its own; the acknowledgement of each write can be lost.

### AgentFactory

Factories of one or two processes (`registry`) over shared tables. A call walks through its
callbacks with `call.pc`; only activate and revoke hold the write lock (`lock`). `kernel` and
`runtime` are the identities in the two registries of each process, lost at a `Restart`. Skill
and prompt versions climb `Lifecycle`, read in one step and moved in another.

### Evidence

Both stores as `disk`, `conn` and `lock`: a writer takes the lock, changes `conn` statement by
statement and commits, `Interrupt` leaves it in the middle, and the reads that come first are
steps outside the lock. The ladder (`CanTransition`, `ValidateChain`, `SuggestNext`) is
evaluated on every trail that the calls build.

### Memory

`mem` and `fts` are what the one connection sees, `disk` what is committed. Every commit
commits for all. An aging pass (`Scan`, `AgeItem`, `ScanEnds`) works from the rows it read.
It may run at any time and need never run: `TieredMemoryEngine` is made at
`orchestrator.py:184`, and its periodic task has no caller.

### Bridges

One bridge over one of four transports. `breaker` is the runtime of the circuit breaker with
the number of the half-open round, so that the property can tell its own probes from late
calls. `procs` are the child processes of a caller, and every way of leaving an attempt is an
action: a request that is written (`Written`) or cannot be, because it cannot be encoded or the
pipe is broken (`Unsent`), an answer and the wait for the exit that follows it where the code
has a `finally` (`Answered`, `Guarded`), a reader who leaves a stream whose generator the event
loop closes later (`Leave`, `Closed`), a cancellation, which runs through that `finally`
(`Cancel`, `Unwound`) unless it hits it a second time or hits where there is none. `closing`
and `dropped` are history: the programs of abandoned streams, and those nobody looks after any
more.

### Forge

A job reads its files one by one (`Read`), gate after gate (`Order`), beside an editor
(`Write`), commits and whatever an external agent leaves running. A file is what the gates can
tell apart. `Passes`, `ReviewPasses`/`Score` and `MergeAllowed` are the decisions of pipeline,
reviewer and merge queue. `GateRaises` is an inspection or scan that raises, of which a pipeline
dies, an agent's gate fails, and a review goes on without that gate (`skipped`). `AgentExits`
makes the list of an external agent's changes, in which git leaves out what it ignores, and
everything that a failing git command would have listed (`Missed`). `Touched` is the check for
protected paths; of those in `Dotted` it strips the leading dot and then finds no entry. `fresh`
and `lost` are history.

### OwnerServer

`Start` is the sequence of checks and openings of `serve()`, each of which may fail or be
cancelled; `Close` pops the exit stack; `CreatesToken` is the exclusive creation of
`owner.token` with a crash between creating and writing. A request passes the middleware, the
handler's guards and has an effect, all in one step, since none of it awaits.

### CometLab

The harness executes `Plan`, one instruction per step, and looks at the engine only when an
instruction does. The engine (external) decides blocks with a quorum of its processes, or
without one if it is not `sound`.

### Compositions

Components that share no state are checked side by side by an MC module with a variable
`focus`: the initial state chooses which one moves and the others stand still, so that state
spaces add up and do not multiply. MCServices does so for TaskExecution, TelegramGateway and
Memory; MCAgents for AgentFactory, PolicyEngine, ToolCalls, Evidence, Bridges and Forge; MCButlerTurns
for ButlerTurns, OwnerServer and CometLab; MCGovernance and MCRecoverableWorkflow add LatticeGraph
and WorkflowRuns to their main module. Components that do share state are composed
in one module: OwnerPilot is admission, budget adapter, ledger, metered model, tools and audit log; LatticeStore is store
and orchestrator; AgentFactory is factory, skills, prompts and registries; Forge is all gates
and the merge queue.

## 3. Runs

| run | bounds | distinct states | properties |
|---|---|---|---|
| ledger | 2 processes with a task each, 2 updates, 1 user, 4 clock readings, windows 1 and 2, limits 1, 1, 1, 2, 2 | 1.2 M | ExclusiveExecution, ReplayRetention, Quotas, LiveRowsSurvive |
| pilot_safety | 2 turns (symmetric), 1 model and 1 tool call each | 1.9 M | CompletedIsClean, LedgerAgreement, NoSilentOrphan, CallsAccounted, AdmissionClean, Fences (DispatchGate, PublicationFence) |
| pilot_liveness | 1 turn | 12 k | TurnEnds, StopCompletes |
| pilot_interrupted | 1 turn, expected violation | | InterruptedIsUncertain |
| workflow | 2 processes, 1 run id, 2 inputs, 3 steps with a join, 3 configurations; or all graphs of 3 steps, 1 run, 1 fault | 84 k | WorkerOwnsRun, EffectsVisible, SameBinding, CompletedSound, CallOrder, LockReleased, ImplementsDurableRun, WorkflowsSound (GraphSound, RunSound, VersionsImmutable) |
| lease | 3 tasks on 2 loops, 2 managers, generations, leases and configurations | 84 k | OwnersServed, OneConnection, ClosedWhenUnused, CallsReturn |
| governance | 2 concurrent calls, 1 agent beside user and system, 1 proposal, 1 reputation update, 2 moments; or 2 clients with 2 operations on 3 tasks with any 2 edges, depth 2; or 4 in-memory votes on a proposal of any of 3 quorums | 2.0 M | GovernanceSound (VerdictSound, MirrorAgrees, BallotsFrozen), GraphSound (QueriesAgree, PathSound, TasksLinked, FirstVoteDecides) |
| store | 2 tasks, 3 calls, 2 nodes, 1 edge, 1 proposal, 1 interrupt, 1 kill, 1 close | 0.97 M | EventSourcedUnlessInterrupted, GovernedBySqlite (VerdictSound, VerdictFinal, SpawnGoverned) |
| store_events | 2 tasks, 2 calls, 2 nodes, 1 edge, 1 interrupt, no votes and no kill, expected violation | | EventSourced |
| butler | 2 calls, 2 owners, 2 threads, window 1, 2 whole lines in a cut summary, up to 1 earlier turn, 1 stop or crash; or 2 launchers, 1 edit, 1 fault; or 8 blocks (4 of them empty), 1 death | 1.0 M | TurnsSound (ContextExact, OwnersIsolated, Audited), ServerSound (StopsFirst, Released, OneToken, RequestsGuarded), LabSound (PassIsTrue, RejoinIsReal) |
| services | 2 tasks, 2 executions, up to 2 subtasks, 1 retry, 1 stop; or 2 updates of any kind, both modes, 2 faults, `_MAX_SEEN_IDS` 1; or 2 items, 2 concurrent operations, 3 days, 1 fault | 205 k | ExecutionSound (TasksConsistent, CancellationLasts), GatewaySound (NoneLost, NameOnce), MemorySound (IndexMirrors, AcknowledgedLasts), ServicesProgress (ExecutionEnds, AllPassed) |
| agents | 2 factories, 1 blueprint, 3 pins, 3 changes, 3 calls; 1 agent, 2 capabilities, 2 scopes, 3 changes, 2 moments; 2 loops in 2 processes, budget 1, 1 restart; 2 callers, 3 requests, 1 interrupt, 1 restart; 2 callers, 5 routed calls, thresholds 2, 1, 2, 2 cancellations or failing writes; 1 job on 2 protected files of 6 kinds, one with a leading dot, 1 write | 1.5 M | AuthoritySound (IdentityGoverned, RevokedInProcess, Provenance, AuthorityBounded, AuthorityGiven), ToolCallsSound (OneUncertainty, AnswersAccounted, LoopBounded), EvidenceSound (TrailDurable, TrailGrows, LadderSound, ScoresSound), BridgesSound (NeverWedged, ProgramsReaped), ForgeSound (VerdictSound, MergeSound, Isolation) |

A property of a composition is the conjunction of its components' properties, in brackets.
`PROJECT.json` names one mutant for each; the modules contain further ones (every definition
whose name begins with `Mut`), one for each conjunct that matters, and each of them violates
its property when it takes the place of the definition it stands before.

Why the bounds are enough. Every race in the ledger is between two rights to one key,
so two tasks and two keys (one for the quota of another) suffice; the window lengths
1 and 2 with 4 readings contain a reading inside, on and outside each boundary. A pilot
turn meets another one only through what the first left behind, so the second turn is
there to be admitted beside the first's debris. Workflow and lease are proved for all
sizes, the runs find mistakes early. Two governance calls already have every order of
read, lock, count and mirror; the one agent's ballot can decide a proposal together
with the user's. In the store one interrupt followed by another writer is the case
that matters. In the gateway two faults allow a failure and another during its retry,
and a batch of two lets one update fail in front of another. In the butler a window of
one message and up to four stored ones put the boundary of the summary everywhere it can
be, and as a summary then has up to three messages, two whole lines are the largest number with
which the cap still cuts one (the code's is 6: a line has 310 characters at most, with its mark,
of 2000); an owner has one workspace there, so the rule that a branch stays in its parent's
workspace is modelled and not exercised. Executions of different tasks meet only in the
stop, those of one task at its status; a first subtask, a last one and one retry have every
place where a cancellation can fall. Three changes register an agent, give it two
permissions and leave the clock to expire one of them. Two factories are the race, three pins
a skill, a pack and its safety prompt; three calls approve twice, or approve and activate with
a restart. Two tool loops are the one that leaves an uncertain call and the one that must not go on;
two concurrent writers and a third request are the one interrupted, the one that commits for
it and the retry. Five routed calls of two callers open a circuit, probe it and let a late
result arrive; two cancellations or failing writes are enough to hit a `finally` twice, and to leave a
program beside a retry that is left as well. One forge job has every order of its reads and one write; with two jobs nothing
new can happen, since jobs meet only in the files. Two launchers are the race for the token,
and one fault is a crash inside its creation or a cancelled cleanup. Two clients of a graph
are a search and a writer. A scenario of the laboratory that passes takes seven blocks, an
eighth is the one that an unsound engine commits while the harness watches.

`CHECK_DEADLOCK FALSE` stands in the configurations whose systems may stop: in
`lease` all leases have been issued and released, in `store`, `store_events`,
`butler`, `services` and `agents` the calls are used up.

### Fairness

* OwnerPilot: weak fairness of the execution (worker threads finish, the event loop
  resumes coroutines, provider calls have timeouts in the code) and of the continuations
  of submit, cancel and stop; strong fairness of `StopSignal`, since it waits for an
  `asyncio.Lock`, which is FIFO. No fairness of crashes, cancellations and deadlines.
* RecoverableWorkflow: weak fairness of each process' own steps; callbacks return or
  raise. None of kills.
* LatticeLease: strong fairness of the steps that take the FIFO lock, weak fairness of
  the awaited operation.
* TelegramGateway: weak fairness of the polling loop, and of its restart by a supervisor.
  Faults are finitely many: while an update fails for ever, retrying it for ever is what
  the code means to do.
* TaskExecution: weak fairness of each execution: model calls have timeouts, stores answer
  or raise. None of cancellations and stops.
* Memory and the other modules: safety only. In particular the orchestrator makes the tier
  engine and stops its periodic task, but nothing in the program calls `start_periodic`
  (`lifecycle.py:127`), so no pass of the aging may be counted on.

### What the expected violations show

* `pilot_interrupted`: a cancellation delivered inside the ownership checks of a metered
  call is turned into `MeteredDenied`; dispatched work then ends as FAILED where the
  code's own rule makes interrupted work UNCERTAIN.
* `store_events`: a statement cancelled between a write and its event leaves the write in
  the open transaction; the next writer commits it, and the events no longer replay to the
  tables. `EventSourcedUnlessInterrupted` shows that this is the only way,
  and section 4 proves it for any calls, kills and closings.

Further observations, which no run states as a violation: two bots that share a ledger
file prune by each other's clock (`budget_store.py:230`, hence one bot in the run; section 4 says
what follows); a vote that comes after the expiry of a decided
proposal marks it expired again (`governance.py:119`, `BallotsFrozen` speaks of ballots);
`_spawned_proposals` is lost at a restart (`orchestrator.py:409`, `SpawnGoverned` speaks of one
process). Outside beta mode the gateway's offset is not durable, and a restart replays what
Telegram still keeps: an old `/name` comes back until the later one is replayed too.
`execute_task` names the check of the agent's authorization as its second step
(`orchestrator.py:571`) and writes `authorization="policy_engine"` into the audit log, but
asks no policy. `_human_gate_met` (`policies.py:407`) counts an approval that has expired,
if another, unapproved permission is the live one that is matched first; withdrawing a
permission can widen what an agent may do, since it may have hidden another
(`AuthorityGiven` allows for it). A caller cancelled in the pause before a retry leaves the
executor's status at RUNNING, and a later `cancel` of that id returns true
(`executor.py:255`). Workers that a plan made BUSY are never released (`planner.py:258`).

Of the modules of the second round, each visible in a model as an exception that a property
has to make:

* graph: the in-memory backend accepts edges whose ends do not exist; its first vote that is
  not an abstention decides, whatever the quorum; a `complete_task` cancelled midway leaves a
  deliverable without its link (`api.py:1284`); SQLite's `find_path` may answer a path that
  existed at no single moment (`sqlite.py:644`);
* evidence: `update_finding` reads outside the lock and writes the whole finding, so one of two
  concurrent updates is lost (`store.py:247`); a retried `add_evidence` is acknowledged from
  an IntegrityError against a row that may not be committed yet; `add_evidence` never asks
  the ladder of `levels.py`;
* agent factory: `revoke` reaches identities only in its own process (`service.py:681`);
* tool loops: an outcome that was not acknowledged may still be committed by a later append
  on the same connection (`audit.py:439`);
* Butler's context: the docstrings of `assemble` and `summarize_prefix` (`context.py:123`, `166`)
  promise that no message between summary and window is dropped, and that holds of the boundary;
  the text of the summary is cut to its last characters (`context.py:203`), so that the oldest
  messages leave the context of a long thread without a trace;
* memory: an aging pass that read the rows before a promotion undoes it, although the
  docstring says it never does (`lifecycle.py:109`); nothing starts the periodic task
  (`lifecycle.py:127`), so what nobody uses stays in its tier; concurrent stores of one id may leave two index
  rows (callers use fresh ids, and so does the model);
* bridges: a cancelled probe is never recorded, since `route_task` catches Exception only
  (`coordinator.py:236`), and with `half_open_max_calls` of them the circuit refuses for ever;
  the late failure of an older call re-opens it; an abandoned stream counts as a success;
* programs of bridges: the hermes bridge writes its request outside of its `try`
  (`hermes/bridge.py:161`), so that a broken pipe is retried beside the program still running;
  the claude bridge kills on a timeout only (`claude/bridge.py:197`), so that a prompt that cannot be
  encoded does the same; a cancelled `execute` of the claude bridge, and a second cancellation in the
  `finally` of the others (`hermes/bridge.py:192`), leave their program as well;
* owner server: a crash between creating and writing `owner.token` leaves an empty file that
  refuses every later start (`pilot_launcher.py:249`);
* plain workflows: a killed `run()` stays RUNNING for ever;
* forge: `_is_protected` strips leading dots (`merge_queue.py:53`), so a change to `.github/x` or
  `.env` needs no approval although the path is listed as protected; `_changed_paths` asks git
  with `--exclude-standard` (`external_agent.py:148`), so new files that are ignored, by a rule the
  agent may write itself, are in no report; a review goes on without an inspection or a scan that
  raised (`reviewer.py:206`, `226`);
* forge, further: with `use_llm` only the model's own findings count; agents whose tests raise go on as
  if none had been asked for; `create_worktree` checks out an existing branch as it is;
  `scan_changes` passes over files it cannot read.

## 4. Proofs

| module | theorems | inductive invariant |
|---|---|---|
| QuotaLedger_proofs | ExclusiveExecutionHolds, LiveRowsSurviveHolds | `RightsInv`: the task that executes a key is the one whose transaction inserted its live row |
| | ReplayRetentionHolds, QuotasHold (one bot); ReplayRetentionOneClock, QuotasOneClock (any bots, one clock) | `LedgerInv`: a grant or attempt that is recent by every clock in play still has its row, every row was granted, and no row is ahead of its bot's clock |
| OwnerPilot_proofs | CompletedIsCleanHolds, LedgerAgreementHolds, NoSilentOrphanHolds, CallsAccountedHolds, AdmissionCleanHolds, FencesHold | `PilotInv`: what the durable stores hold of a turn (`DurableInv`), what the process knows of it (`ProcessInv`), which leases it has (`LeaseInv`), and where the execution (`TurnInv`) and its call (`CallInv`) stand |
| RecoverableWorkflow_proofs | TypeOKHolds, WorkerOwnsRunHolds, EffectsVisibleHolds, SameBindingHolds, CompletedSoundHolds, CallOrderHolds, EndedForeverHolds, ImplementsDurableRunHolds | `Inv`: who is not idle holds the lock; the worker's copy agrees with the row but for the step in progress; the loop's position separates finished from untouched steps; every started callback is visible in its row |
| Lattice_proofs | TypeOKHolds, OwnersServedHolds, OneConnectionHolds, LoopOwnershipHolds, ClosedWhenUnusedHolds | `Inv`: tasks are counted by the manager they are in; the one past the lock holds it; a generation belongs to the installed manager; while nobody is past the lock it is ready or unowned |
| | GovernedBySqliteHolds | `StoreInv`: what is left of the holder's script fits the database it will be executed on (`ScriptOk`), committed or not a status is backed by its ballots, what is decided on disk is so for the connection too, a proposal is submitted once, and every node of a proposal, written or about to be, was asked for once after it passed |
| | EventSourcedUnlessInterruptedHolds | `StoryInv`: as long as nothing was interrupted, the events on disk tell of the database on disk, and the rest of the holder's script, rows and event, makes them agree again (`Story`) |
| Governance_proofs | GovernanceSoundHolds | `GovInv`: a call that will tell the backend of a resolution knows that it was made, and the copy it tells is still the tally; pending copies and backend rows never contradict it; a proposal is submitted by one call; nobody votes on a proposal that does not exist |
| MCAgents_proofs | ToolCallsSoundHolds | `ToolsInv`: how many calls a loop has made in each of its states, and which of them the log has (the call in progress is the only open one of all loops) |
| | BridgesSoundHolds | `BridgeInv`: the half-open counter is at most the probes of its round that run or were lost, no admitted call names a later round, and a closed circuit has fewer failures than the threshold; the programs of a caller are that of its attempt, those of its closing streams and those that were left |
| | ForgeSoundHolds | `ForgeInv`: where a job of each kind can be and whose branch is checked out; of a root that nobody but the job wrote, what each gate has read holds no finding of its kind as long as the gate has not failed, raised or skipped, and an external agent's list covers what differs from its branch and was not missed |
| | EvidenceSoundHolds | `FindbookInv`: a call past the lock of a store holds it; nothing on disk is missing on the connection; unless a call was interrupted the two differ only while somebody is about to commit, and every row of an agent is counted but the one whose count is the next statement; the cause of a damped score is in the same rows |
| MCServices_proofs | ExecutionSoundHolds | `ExecutionInv`: the queue holds the PENDING tasks, each once; one execution works on a RUNNING task, and the executor knows no task that was not started; what both stores have of a subtask is what the execution counts as done |
| | GatewaySoundHolds | `GatewayInv`: the batch is a run of consecutive updates; everything behind the offset, the confirmed updates and the batch is answered, refused or on record as dropped; in beta mode a written name has its row and only passed updates before it |
| | MemorySoundHolds | `MemoryInv`: a row that a store or delete is writing has one owner and is not acknowledged; between statements everything is committed |
| MCButlerTurns_proofs | ServerSoundHolds | `ServerInv`: the exit stack is a prefix of the resources and all it holds is open; the service is on only while all of it is; one launcher at a time writes the token |
| | TurnsSoundHolds | `TurnsInv`: the summary of a thread is what the cap leaves of all its messages up to a boundary, and if it tells of any there are later ones; replies follow their requests; what a call knows and has in the audit log at each of its awaits |
| | LabSoundHolds | `LabInv`: what the harness can know of chain and nodes at each of its 33 instructions |

The theorems hold for any sets of processes, tasks, keys, runs, steps, loops, leases, agents,
calls, items, updates, jobs, files, launchers, owners, threads, callers, proposals and nodes, any limits, and any number of the modelled failures. They
assume only what the named `ASSUME`s say: constants have their types, `None` values are no
members, the windows nest, `Deps` points to earlier steps, a bridge's threshold is at least 1
(`coordinator.py:46`, `ge=1`), a tool loop's budget is at least 1 (every caller's default is;
with 0 the driver would still make one call), the tiers that callers give are tiers of the
scale, a task's priority is in 0..10 (`kernel/tasks.py:76`), the original checkout is no job's
worktree, a file is one of the six kinds the gates tell apart, the context window has at least one
message and a cut summary one whole line, there is a level of evidence, no agent is called
"unknown" (the bucket of those without a name), owners are no threads, a value of a node is no proposal, `Null` is no record of a reputation, and the empty block is none of the
laboratory's transactions. Two theorems have a condition in their statement, see below.

### Why the invariants are what they are

None of the properties is inductive as it stands. That two tasks never execute a key
says nothing of *who* may end the row, so `Reserver` ties the row to its inserter.
That a COMPLETED run has all steps ok needs that the worker's memory, from which the
whole row is rewritten, is never behind the row, which in turn needs the lock. That
owners are served needs that a manager with users is not dropped, that closing happens
past the lock only, and that a generation not ready has no owners unless someone is
past the lock. Each proof has one lemma per kind of step; the temporal step is last.

*Quotas and retention.* Both speak of a history that the code throws away: rows are pruned.
`LedgerInv` says that a grant or attempt is missing from the tables only if it is older than
the longest rule that could count it, by the clock that pruned it. That is true as long as the
clock that prunes is not ahead of the clock that counts. `_advance_clock_txn`
(`budget_store.py:218`) makes the clock of *one* bot monotone, but `_prune_txn`
(`budget_store.py:230`) deletes the rows of *all* bots: with two bots on one file whose clocks
differ, the later one deletes a row that the earlier one still has to count, and an update is
granted again within its own retention period. TLC shows it with two bots and one update. The
comment at `budget_store.py:27` states the 48 h retention, and AC-11
(`docs/SPEC_BOUNDED_AUTONOMY_V1.md:168`) that a clock rollback expands no limit; neither speaks of
several bots, and the deployment has one. Hence the pair of theorems: `ReplayRetentionHolds` and
`QuotasHold` for one bot, `ReplayRetentionOneClock` and `QuotasOneClock` (of `SpecOneClock`) for
any number of bots whose readings are not behind each other.

*Owner turn.* `CompletedIsClean` relates three files that no transaction spans, so
`DurableInv` first says which combinations of pilot row, quota row and audit entries can be on
disk at all, whatever the process was doing when it died; `TurnInv` and `CallInv` say for each
await of the execution which of them it can meet, with the worker before, inside or after its
transaction. The fences follow from `LeaseInv`: only the execution has a lease, it runs only
over a row that has left ADMITTED, and `stop()` takes the lease from a turn that may still make
calls. The proof corrected the model in one place: the check after `mark_running` is made only if
its last `_current` held (`budget.py:217`), so it can fail only for the owner that holds the lease,
which `CheckFails` now says.

*Governance.* The weight of a ballot is read before an await and counted after it. `GovInv` says
of each call what it has to know at its await: one that is about to tell the backend of a
resolution knows that the resolution was made, and the copy it carries is the tally it was made
by. A tally is a count of units
(`Total`): each rating is a number of units, which makes a sum over ballots the cardinality of a
set, and additive without induction.

*Tool loops and bridges.* That no call is dispatched on top of an uncertain one needs that at
most one call is open among all loops of all processes: the claim is one immediate transaction.
The bound on a loop's calls is `3 * tools + fails` plus what its present state has begun. In a bridge
the counter of the half-open round must not exceed the probes of that round that run or were lost,
although probes of older rounds still run and report. `ProgramsReaped` is an equation and therefore
inductive once the numbers are natural: a step that ends an attempt must take its program from
`procs`, or hand it to `closing` or `dropped`, and a retry may add one only after that.

*Gateway.* `NoneLost` speaks of three offsets (Telegram's, the durable one, the one in memory), which
disagree after a crash; the invariant that survives is about the batch: it starts where all
before is excused, and its elements are consecutive, so moving past one of them is safe. That a name is
not written twice rests on the reservation row, which outlives the offset.

*Memory.* One connection: anybody's commit commits everybody's statements. So a row on disk
proves nothing of its operation, and `OwnInv` says instead that the id of a store or delete in
progress belongs to nobody else.

*Tasks and executions.* The property relates the manager's queue, the executor's books and two
stores. Most of it follows from one fact that no function of the code states: a RUNNING task of the
orchestrator has exactly one execution, from the moment `start` takes it off the queue to the
`complete`, `fail` or `cancel` at its end, and a task that is still PENDING has left no trace
anywhere. That `start` removes the task it started needs that the queue has it once. That a
queue with a PENDING task has a foremost one, of the highest priority and the first of those, is an
induction over data; it is proved by the least element of a set (`LeastNumber`, from
WellFoundedInduction), which needs no operator parameter.

*Forge.* A verdict is written long after its gates read, and every gate reads the files anew. The
property speaks of the end; `Gates` speaks of every moment between: what the scan has read so far
holds no danger unless the scan failed or skipped, what the inspection has read is readable and
parses unless it failed, and a batch that is empty or too large has failed already in the gate that
refuses it. Nothing of this survives a write by somebody else, so it is claimed only while `fresh`
holds, and most of the proof shows who is disturbed: an agent's own edits end before its first
gate, an editor, another agent or a removal disturbs whoever works on that root (`Framed`), and no
commit reaches the branch of a worktree but its own agent's, because git checks a branch out once.
A review keeps one flag (`high`) for all its gates and forgets it in the next round, with every
file still to read. A gate that raises leaves the mark `skipped`, and from there on nothing is
claimed of that round; an agent's gate that raises has failed, which is all that its report needs.

*Governance on SQLite.* Nobody rolls back, so the database that a statement meets may hold the
remains of an interrupted script that the next commit makes durable. The invariant therefore holds
of both states, disk and work, after every single statement, and says of each script that it fits
what it will be executed on: a status changes in its first statement only, from nothing to open or
from open to what the ballots then say; ballots change only while their proposal is open, and the
new ballot of a voter follows the deletion of the old one (`ScriptOk`, kept by `ScriptRest`). Then no
prefix of a script can do harm, and `Frozen` between disk and work gives finality at the next
commit. That agents are spawned for passed proposals only is not true of work and disk separately
after an interrupt (the connection may have seen a verdict that a close discards), hence the
condition of `SpawnGoverned`; without interrupts disk and work agree between scripts
(`GovernedInv`). The tally is a count of units, as in Governance.

*Event sourcing.* Every operation writes one or two rows, then one event that says what it wrote, then
commits; `EventSourcedUnlessInterrupted` compares the tables with what the whole log tells. `Replay`
is a recursive function on the numbers of the events. That there is one for every log, that two of
them agree, and that a log with one more event tells what the log told with that event done to it
(`ReplayNext`) are inductions over data, by a least counterexample (`LeastNumber`). The invariant
`Story` says of what is left of a script that it makes database and log agree again, whichever of
its statements were executed: a kill or `close` in between throws all of it away, which is where the
interrupt differs. Rows and log agree up to the reputations, of which the event tells the score
and the row keeps the history (`Agree`): no later event may depend on that history.

*Butler's conversations.* `ContextExact` is about the moment at which `assemble` reads three things
(the window, the summary's boundary, the summary), with other turns appending between them. It rests
on a statement about the store alone: messages are only appended, a thread's row never changes once
it is there, and its summary is what the cap leaves of all its messages up to its boundary (`Clipped`:
the latest ones without a gap, and if any is missing, at least `Lines` of them, `ClippedFacts`). Which
messages fall out of the window is an induction over data, done by least and greatest numbers
(`LeastNumber`, `GreatestNumber`). `Audited` says of each state of a call which entries it
has; `OwnersIsolated` needs that an owner's active thread and the parents of his threads are his.

*Laboratory.* `LabInv` says for each index of `Plan` what the harness has seen: its mark is the block
of the last transaction it saw committed, at the baseline both transactions are below what the watched
pair has executed, the third is above it if it is anywhere, and a node that moved during the window
shows it at the end, since heights do not fall. Nothing about the engine is needed but that
it puts a transaction that was sent into one block at most: with an engine that commits without a
quorum the report is still true, since it says FAIL.

*Evidence and scores.* A commit on the one connection of a store commits whatever interrupted calls
have left there, so `BookInv` and `SheetInv` speak of disk and connection and of the only call that
may stand between two statements, the holder of the lock. That an entry acknowledged from an
IntegrityError is on disk needs that the row it met was committed, which is where the interrupt is
excepted. `LadderSound` is about the history of a finding, which a recursive function picks out of the trail, and
is proved of every history there could be: that the function exists (`HistoryExists`) and that a valid
history climbs by one from 0 or 1 (`ChainAscends`, `AscentIs`) are inductions over data, again by a
least counterexample. Damping rests on counters that only grow: a score is computed from them
before the await and committed with later ones.

*Server.* A cancellation can come at any resource, so `ServerInv` speaks of the stack and not of the
place in `serve()`.

The refinement rests on the invariant of RecoverableWorkflow: a write of a row is nothing, the
beginning, a finished step or an end for whoever reads it (`RowStep`), and each write of a worker
is one of the four, because its copy of the results differs from the row only in the step in
progress and the steps before that one are ok (`WorkImplements`).

### What stays with TLC

* Liveness and everything with ENABLED: TurnEnds, StopCompletes, LockReleased, CallsReturn,
  ServicesProgress.
* What a recursive operator or a fold computes: GraphSound (the traversals) and WorkflowsSound (the
  search of `_validate_dag`) are in modules that declare RECURSIVE operators.
* Not proved: AuthoritySound.

## 5. Not modelled

Text (prompts, formatting, secret patterns), HTTP formats, HTML and command lines are I/O or
stateless and left out. A provider, a tool or a program is an answer, a failure or a timeout.
Numbers that only rank (similarity, reputation decay beyond the weights, retrieval scores,
prompt budgets) are left out. SQLite's own atomicity and durability, the OS lock and
`asyncio.Lock`'s order are taken as documented. Power loss that violates SQLite's durability
is not modelled.

Components without a module, and why: language model adapters and built-in tools (I/O and pure
functions), the peer envelope (pure; its replay check is a callback that nobody implements),
dark and ghost factory and self improvement (text generation in one call), the red, blue and
purple classes and the sandbox (sequential calls of one process). Parts of modelled
components that are left out are named in `PROJECT.json`: above all the vectors of the
lattice, the forge's backlog, scheduler and cost tables, the webhook server and the rate
limiter of the gateway.

## 6. Plan

The modelling is done as far as it pays. One property that could be proved has no theorem yet:
AuthoritySound (MCAgents), identities against a rollback of an activation, and the growth of an
agent's authority.
