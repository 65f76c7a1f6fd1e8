------------------------------ MODULE CometLab ------------------------------
(***************************************************************************)
(* The consensus laboratory (src/agency/lab/comet_smoke.py): a harness that  *)
(* starts four CometBFT processes, commits transactions, stops and restarts  *)
(* processes, watches two of four make no progress and writes a report.  The *)
(* engine is external; it is modelled by what the harness can observe of it, *)
(* both as it should be and as one that commits without a quorum, which the  *)
(* harness exists to notice.                                                 *)
(***************************************************************************)
EXTENDS Naturals, Sequences, FiniteSets, FiniteSetsExt

CONSTANTS
    MaxHeight,   \* bound: blocks
    MaxEmpty,    \* bound: blocks without a transaction
    MaxDeaths,   \* bound: processes that die by themselves
    Nothing

\* Nothing is no transaction and no verdict.
ASSUME LabAssumption == Nothing \notin {"v4", "v5", "v6", "restored", "PASS", "FAIL"}

VARIABLES
    sound,     \* does the engine need a quorum to commit
    chain,     \* chain[h]: the transaction of block h, or Nothing
    height,    \* height[n]: blocks executed by node n
    pool,      \* transactions accepted and not yet in a block
    child,     \* child[n]: the process of node n: "none", "up" or "dead"
    deaths,
    at,        \* the index of the instruction the harness executes
    mark,      \* height of the last transaction it saw committed
    first,     \* first[n]: heights read when the quorum is lost
    seen,      \* was the transaction found while the quorum was lost
    failed,    \* LabRunner.failures is not empty
    stuck,     \* children that stop_all could not confirm stopped
    status,    \* status of the report
    moved      \* a watched node executed a block in the observation window

lab == <<sound, chain, height, pool, child, deaths, at, mark, first, seen, failed, stuck,
         status, moved>>
engine  == <<sound, chain, height, pool, deaths, moved>>
harness == <<at, mark, first, seen, failed, stuck, status>>

Validators == 0 .. 3

\* More than two thirds of VALIDATOR_COUNT.
Needed == 3

Up == {n \in Validators : child[n] = "up"}

-----------------------------------------------------------------------------
(* The scenario: what each phase does, in PHASE_SEQUENCE.                  *)

Do(what, nodes, tx) == [do |-> what, nodes |-> nodes, tx |-> tx]

PhaseVersion == << Do("command", {}, Nothing) >>

PhaseTestnet == << Do("command", {}, Nothing) >>

PhaseStart4 ==
    << Do("start", {0}, Nothing), Do("start", {1}, Nothing), Do("start", {2}, Nothing),
       Do("start", {3}, Nothing), Do("heights", Validators, Nothing) >>

PhaseTx4 ==
    << Do("send", {0}, "v4"), Do("commit", {0}, "v4"), Do("value", Validators, "v4"),
       Do("heights", Validators, Nothing) >>

PhaseStop1Commit3 ==
    << Do("stop", {3}, Nothing), Do("send", {0}, "v5"), Do("commit", {0}, "v5"),
       Do("value", {0, 1, 2}, "v5"), Do("heights", {0, 1, 2}, Nothing) >>

PhaseRestartCatchup ==
    << Do("start", {3}, Nothing), Do("heights", Validators, Nothing), Do("check", {3}, "v5") >>

PhaseQuorumLoss ==
    << Do("stop", {2}, Nothing), Do("stop", {3}, Nothing), Do("baseline", {0, 1}, Nothing),
       Do("send", {0}, "v6"), Do("observe", {0, 1}, "v6"), Do("final", {0}, Nothing),
       Do("final", {1}, Nothing) >>

PhaseRestore ==
    << Do("start", {2}, Nothing), Do("start", {3}, Nothing), Do("send", {0}, "restored"),
       Do("commit", {0}, "restored"), Do("heights", Validators, Nothing),
       Do("value", Validators, "restored"), Do("late", {0}, "v6") >>

Plan == PhaseVersion \o PhaseTestnet \o PhaseStart4 \o PhaseTx4 \o PhaseStop1Commit3
        \o PhaseRestartCatchup \o PhaseQuorumLoss \o PhaseRestore

Running == ~failed /\ at <= Len(Plan)

\* The harness executes instruction i now.
Executes(what) == Running /\ Plan[at].do = what

Watching == Running /\ Plan[at].tx = "v6" /\ Plan[at].do \in {"send", "observe"}

LabInit ==
    /\ sound \in BOOLEAN
    /\ chain = <<>>
    /\ height = [n \in Validators |-> 0]
    /\ pool = {}
    /\ child = [n \in Validators |-> "none"]
    /\ deaths = 0
    /\ at = 1 /\ mark = 0
    /\ first = Nothing
    /\ seen = FALSE /\ failed = FALSE
    /\ stuck = {}
    /\ status = Nothing
    /\ moved = FALSE

-----------------------------------------------------------------------------
(* The engine (external).                                                  *)

\* A block is decided by a quorum of processes that executed all blocks before it.  What
\* the engine does after the scenario is of no interest.
Decide(tx) ==
    /\ Running
    /\ Len(chain) < MaxHeight
    /\ LET ready == {n \in Up : height[n] = Len(chain)}
       IN  Cardinality(ready) >= IF sound THEN Needed ELSE 2
    /\ tx \in pool \cup {Nothing}
    /\ tx = Nothing => Cardinality({h \in 1 .. Len(chain) : chain[h] = Nothing}) < MaxEmpty
    /\ chain' = Append(chain, tx)
    /\ pool' = pool \ {tx}
    /\ UNCHANGED <<sound, height, child, deaths, moved, harness>>

\* A process executes the next block, or fetches it after a restart.
ExecuteBlock(n) ==
    /\ Running
    /\ n \in Up
    /\ height[n] < Len(chain)
    /\ height' = [height EXCEPT ![n] = @ + 1]
    /\ moved' = (moved \/ (Watching /\ n \in {0, 1}))
    /\ UNCHANGED <<sound, chain, pool, child, deaths, harness>>

\* A process dies by itself; what only it had in its mempool is gone.
Die(n) ==
    /\ Running
    /\ n \in Up
    /\ deaths < MaxDeaths
    /\ deaths' = deaths + 1
    /\ child' = [child EXCEPT ![n] = "dead"]
    /\ pool' \in {pool, {}}
    /\ UNCHANGED <<sound, chain, height, moved, harness>>

-----------------------------------------------------------------------------
(* Reading the nodes.                                                      *)

\* latest_height: no answer from a process that is not running.
Reaches(n, h) == n \in Up /\ height[n] >= h

\* tx(): the transactions node n knows to be committed.
Committed(n) == {chain[h] : h \in 1 .. height[n]} \ {Nothing}

\* The value of the probe key at node n: the last one written.
Probe(n) ==
    LET writes == {h \in 1 .. height[n] : chain[h] \in {"v4", "v5", "v6"}}
    IN  IF writes = {} THEN Nothing ELSE chain[Max(writes)]

\* query_value of the key that tx writes.
Reads(n, tx) == n \in Up /\ IF tx = "restored" THEN tx \in Committed(n) ELSE Probe(n) = tx

HeightOf(tx) == CHOOSE h \in 1 .. Len(chain) : chain[h] = tx

-----------------------------------------------------------------------------
(* The harness.                                                            *)

Advance == at' = at + 1

\* One-shot commands: the pinned version, the test network, the configuration files.
Command ==
    /\ Executes("command")
    /\ Advance
    /\ UNCHANGED <<engine, child, mark, first, seen, failed, stuck, status>>

\* start_node: the new process replaces the old one in LabRunner.processes.
StartNode ==
    /\ Executes("start")
    /\ Advance
    /\ child' = [n \in Validators |-> IF n \in Plan[at].nodes THEN "up" ELSE child[n]]
    /\ UNCHANGED <<engine, mark, first, seen, failed, stuck, status>>

\* stop_node: terminate, wait, kill, wait.
StopNode ==
    /\ Executes("stop")
    /\ Advance
    /\ child' = [n \in Validators |-> IF n \in Plan[at].nodes THEN "dead" ELSE child[n]]
    /\ UNCHANGED <<engine, mark, first, seen, failed, stuck, status>>

\* wait_heights, and compare_app_hash after it: every node is past the marked height.
WaitHeights ==
    /\ Executes("heights")
    /\ \A n \in Plan[at].nodes : Reaches(n, mark + 1)
    /\ Advance
    /\ UNCHANGED <<engine, child, mark, first, seen, failed, stuck, status>>

\* probe_tx_hash: node 0 accepts the transaction.
Send ==
    /\ Executes("send")
    /\ \A n \in Plan[at].nodes : n \in Up
    /\ pool' = pool \cup {Plan[at].tx}
    /\ Advance
    /\ UNCHANGED <<sound, chain, height, deaths, moved, child, mark, first, seen, failed, stuck,
                   status>>

\* tx() finds the transaction.
Found(n, tx) == tx \in Committed(n)

\* find_committed_height, and the phases' requirement that it is a later block.
AwaitCommit ==
    /\ Executes("commit")
    /\ \A n \in Plan[at].nodes : n \in Up /\ Found(n, Plan[at].tx)
    /\ LET h == HeightOf(Plan[at].tx)
       IN  h > mark /\ mark' = h
    /\ Advance
    /\ UNCHANGED <<engine, child, first, seen, failed, stuck, status>>

\* require_value polls; the restarted peer is asked once.
RequireValue ==
    /\ Executes("value") \/ Executes("check")
    /\ \A n \in Plan[at].nodes : Reads(n, Plan[at].tx)
    /\ Advance
    /\ UNCHANGED <<engine, child, mark, first, seen, failed, stuck, status>>

\* stable_heights: the heights did not change for a while.
Baseline ==
    /\ Executes("baseline")
    /\ Plan[at].nodes \subseteq Up
    /\ first' = [n \in Plan[at].nodes |-> height[n]]
    /\ Advance
    /\ UNCHANGED <<engine, child, mark, seen, failed, stuck, status>>

\* Mutant: only lower heights are noticed.
MutUnchanged(n) == n \in Up /\ height[n] >= first[n]

\* A watched node answers with the height of the baseline.
Unchanged(n) == n \in Up /\ height[n] = first[n]

\* One round of the observation window.
Observe ==
    /\ Executes("observe")
    /\ \A n \in Plan[at].nodes : Unchanged(n)
    /\ seen' = (seen \/ Found(0, Plan[at].tx))
    /\ at' \in {at, at + 1}
    /\ UNCHANGED <<engine, child, mark, first, failed, stuck, status>>

\* The heights at the end of the window, one node after the other; floor of the restore
\* phase.
FinalRead ==
    /\ Executes("final")
    /\ ~seen
    /\ \A n \in Plan[at].nodes : Unchanged(n)
    /\ mark' = Max({first[n] : n \in {0, 1}})
    /\ Advance
    /\ UNCHANGED <<engine, child, first, seen, failed, stuck, status>>

\* late_commit_seen: either answer will do.
LateCommit ==
    /\ Executes("late")
    /\ Plan[at].nodes \subseteq Up
    /\ Advance
    /\ UNCHANGED <<engine, child, mark, first, seen, failed, stuck, status>>

\* Any instruction can fail: a poll times out, the whole run does, a command, a start or a
\* stop fails, a node does not answer, a height moved, an app hash differs, the user
\* interrupts.  The phases after it are skipped.  The report of a failed run claims nothing
\* about the engine, so the model forgets what was observed of it.
Fail ==
    /\ Running
    /\ failed' = TRUE
    /\ chain' = <<>> /\ height' = [n \in Validators |-> 0] /\ pool' = {}
    /\ at' = 1 /\ mark' = 0 /\ first' = Nothing /\ seen' = FALSE /\ moved' = FALSE
    /\ UNCHANGED <<sound, deaths, child, stuck, status>>

Scenario == ~Running /\ status = Nothing

\* stop_all, one child after the other: it is stopped, or that cannot be confirmed.
CleanUp(n, ok) ==
    /\ Scenario
    /\ n \in Up \ stuck
    /\ \A m \in Up \ stuck : n <= m
    /\ IF ok THEN child' = [child EXCEPT ![n] = "dead"] /\ UNCHANGED stuck
             ELSE stuck' = stuck \cup {n} /\ UNCHANGED child
    /\ UNCHANGED <<engine, at, mark, first, seen, failed, status>>

\* Mutant: cleanup errors are not failures.
MutReportStatus == IF failed THEN "FAIL" ELSE "PASS"

\* Mutant: a failed phase is reported and does not count.
MutCleanupOnly == IF stuck # {} THEN "FAIL" ELSE "PASS"

\* build_report and validate_report.
ReportStatus == IF failed \/ stuck # {} THEN "FAIL" ELSE "PASS"

\* run_lab ends with a report.
Report ==
    /\ Scenario
    /\ Up \subseteq stuck
    /\ status' = ReportStatus
    /\ UNCHANGED <<engine, child, at, mark, first, seen, failed, stuck>>

HarnessStep ==
    \/ Command \/ StartNode \/ StopNode \/ WaitHeights \/ Send \/ AwaitCommit \/ RequireValue
    \/ Baseline \/ Observe \/ FinalRead \/ LateCommit \/ Fail
    \/ (\E n \in Validators, ok \in BOOLEAN : CleanUp(n, ok)) \/ Report

LabNext ==
    \/ \E tx \in {"v4", "v5", "v6", "restored", Nothing} : Decide(tx)
    \/ \E n \in Validators : ExecuteBlock(n) \/ Die(n)
    \/ HarnessStep

-----------------------------------------------------------------------------
(* Properties.                                                             *)

\* A report that says PASS is true of the engine that ran: both transactions were
\* committed in order, the watched pair executed nothing in the whole window although the
\* harness only looks now and then, the transaction sent to it came later if at all, the
\* network committed again above that, and no process of the laboratory is left.
PassIsTrue ==
    status = "PASS" =>
        /\ {"v4", "v5", "restored"} \subseteq {chain[h] : h \in 1 .. Len(chain)}
        /\ HeightOf("v4") < HeightOf("v5")
        /\ HeightOf("v5") <= Max({first[n] : n \in {0, 1}})
        /\ HeightOf("restored") > Max({first[n] : n \in {0, 1}})
        /\ ~moved
        /\ \A h \in 1 .. Len(chain) : chain[h] = "v6" => h > Max({first[n] : n \in {0, 1}})
        /\ Up = {}

\* The transaction of three nodes and the restart are real: when the harness stops the two
\* nodes that take the quorum away, every node has executed the transaction that was
\* committed while one of them was down, and nobody restarted it by accident.
RejoinIsReal ==
    Running /\ Plan[at].do = "stop" /\ Plan[at].nodes = {2}
        => \A n \in Validators : HeightOf("v5") \in 1 .. height[n]
=============================================================================
