------------------------------- MODULE Forge -------------------------------
(***************************************************************************)
(* The Forge (agency/forge): coding agents that work in git worktrees, the  *)
(* gates that read what they changed (inspection, security scan, tests,     *)
(* review), evidence and holdout runs on copies, and the merge queue that   *)
(* puts the gates together.                                                 *)
(*                                                                         *)
(* Every function of the Forge is synchronous, but jobs run in processes of *)
(* their own, next to editors and to processes an agent leaves behind.  A    *)
(* gate opens one file after the other and each gate opens them anew, so a   *)
(* step is the reading of one file.  A file is what the gates can tell       *)
(* apart: clean, lint (one medium finding), danger (a high finding), broken  *)
(* (syntax), opaque (not UTF-8), absent (missing, a link, not regular, too   *)
(* large).                                                                  *)
(***************************************************************************)
EXTENDS Naturals, FiniteSets, Sequences, SequencesExt

CONSTANTS
    Jobs, Branches, Paths,
    Protected,          \* the paths that a protected entry covers
    Dotted,             \* the paths that begin with a dot
    Kinds,              \* of files, a subset of the six
    MaxEdits,           \* edits of a coding agent
    MaxRounds,          \* rounds of a review
    MaxRunning,         \* bound: jobs that run at once
    MaxWrites,          \* bound: writes of editors and external agents, and I/O errors
    Base,               \* the original checkout
    None

VARIABLES
    tree,       \* the files of each root, None without a worktree
    head,       \* the files of the commit HEAD
    tips,       \* the files of each branch's last commit, None before it exists
    job,        \* a job's locals while it runs, its report when it is done
    writes      \* writes, commits and I/O errors so far

forge == <<tree, head, tips, job, writes>>

CodeAgents == {"coding", "external"}
Order ==
    [pipeline |-> <<"inspect", "scan", "test">>,
     coding   |-> <<"inspect", "scan", "test">>,
     external |-> <<"inspect", "scan", "test">>,
     review   |-> <<"scan", "inspect", "lint", "test">>,
     evidence |-> <<"hash", "command">>,
     holdout  |-> <<"scenario", "scenario">>]

\* fresh is history: nobody but the job itself wrote its root since it began.
Idle ==
    [kind |-> "pipeline", root |-> Base, branch |-> None, pc |-> "idle", stage |-> 0,
     paths |-> {}, form |-> "ok", left |-> {}, edits |-> 0, failed |-> FALSE,
     inspection |-> "PASS", security |-> "PASS", high |-> FALSE, medium |-> 0,
     tests |-> None, skipped |-> FALSE, wants |-> FALSE, threshold |-> 4, llm |-> FALSE,
     heuristic |-> FALSE, round |-> 1,
     seen |-> {}, lost |-> {}, gate |-> None, fresh |-> TRUE]

Init ==
    /\ head \in [Paths -> {"clean", "absent"}]
    /\ tree = [r \in {Base} \cup Jobs |-> IF r = Base THEN head ELSE None]
    /\ tips = [b \in Branches |-> None]
    /\ job = [j \in Jobs |-> Idle]
    /\ writes = 0

File(r, p) == IF tree[r] = None THEN "absent" ELSE tree[r][p]

\* Who else works on root r sees it change.
Disturbed(r, j) ==
    [k \in Jobs |-> IF k # j /\ job[k].root = r /\ job[k].pc # "idle"
                    THEN [job[k] EXCEPT !.fresh = FALSE] ELSE job[k]]

-----------------------------------------------------------------------------
(* The stages of a job.                                                    *)

\* A batch that is empty or exceeds MAX_FILES fails as a whole, unread; names that
\* are refused and duplicates fail the inspection, the scan only skips them.
Batch(rec) ==
    LET stage == Order[rec.kind][rec.stage]
        whole == rec.paths = {} \/ rec.form = "over"
        badly == whole \/ rec.form = "bad"
    IN  [rec EXCEPT !.pc = stage,
                    !.left = IF stage \in {"test", "command", "scenario"}
                                \/ (whole /\ stage # "lint") THEN {} ELSE rec.paths,
                    !.inspection = IF stage = "inspect" /\ badly THEN "FAIL" ELSE @,
                    !.high = @ \/ (stage = "inspect" /\ badly),
                    !.security = IF stage = "scan" /\ whole THEN "FAIL" ELSE @]

Started(rec) == Batch([rec EXCEPT !.stage = 1])

\* The stage after this one, "verdict" after the last; tests only where they are wanted.
Advanced(rec) ==
    LET next == rec.stage + 1 IN
    IF next > Len(Order[rec.kind]) \/ (Order[rec.kind][next] = "test" /\ ~rec.wants)
    THEN [rec EXCEPT !.pc = "verdict", !.left = {}]
    ELSE Batch([rec EXCEPT !.stage = next])

\* A path that can be opened: a regular file of bounded size inside the root, no link on
\* the way.
Openable(k) == k # "absent"

\* _scan_python finds a dangerous call or something that looks like a secret.
Dangerous(k) == k = "danger"

MutSkipsUnparsable(rec, k) ==
    IF k \in {"absent", "opaque"} THEN [rec EXCEPT !.inspection = "FAIL", !.high = TRUE] ELSE rec

\* _inspect_one.
Inspected(rec, k) ==
    IF ~Openable(k) \/ k \in {"opaque", "broken"}
    THEN [rec EXCEPT !.inspection = "FAIL", !.high = TRUE] ELSE rec

\* One file of scan_changes: what cannot be read is skipped.
Scanned(rec, k) ==
    CASE Dangerous(k) -> [rec EXCEPT !.security = "FAIL", !.high = TRUE]
      [] k = "opaque" -> [rec EXCEPT !.medium = @ + 1]
      [] ~Openable(k) -> [rec EXCEPT !.skipped = TRUE]
      [] OTHER -> rec

Linted(rec, k) == IF k = "lint" THEN [rec EXCEPT !.medium = @ + 1] ELSE rec

\* capture_evidence hashes the declared files; what cannot be read has no hash.
Hashed(rec, p, k) ==
    IF ~Openable(k) THEN rec ELSE [rec EXCEPT !.seen = @ \cup {<<p, k>>}]

\* A stage opens the next file and reads it at once.
ReadAs(j, p, k) ==
    LET rec == [job[j] EXCEPT !.left = @ \ {p}] IN
    /\ p \in job[j].left
    /\ job' = [job EXCEPT ![j] =
          CASE rec.pc = "inspect" -> Inspected(rec, k)
            [] rec.pc = "scan"    -> Scanned(rec, k)
            [] rec.pc = "lint"    -> Linted(rec, k)
            [] rec.pc = "hash"    -> Hashed(rec, p, k)]
    /\ UNCHANGED <<tree, head, tips>>

Read(j, p) == ReadAs(j, p, File(job[j].root, p)) /\ UNCHANGED writes

Written == writes < MaxWrites /\ writes' = writes + 1

\* It cannot: an I/O error, or the file was swapped under the reader.
ReadFails(j, p) == ReadAs(j, p, "absent") /\ Written

\* A round is done anew.
Afresh(rec) ==
    [rec EXCEPT !.inspection = "PASS", !.security = "PASS", !.high = FALSE, !.medium = 0,
                !.tests = None, !.skipped = FALSE]

Heuristics(rec) == Started([Afresh(rec) EXCEPT !.heuristic = TRUE])

\* The round is the model's.
Modelled(rec) == rec.llm /\ ~rec.heuristic

\* The inspection or the scan raises: over a file that the parser cannot stand, or because
\* the root is gone.  A pipeline dies of that; an agent's gate fails, as if nothing had been
\* changed; the model's round falls back on the heuristics; a heuristic round goes on
\* without what this gate has found.
GateRaises(j) ==
    LET rec == job[j]
        dropped == [rec EXCEPT
            !.left = {}, !.skipped = TRUE,
            !.high = rec.pc = "inspect" /\ rec.security = "FAIL" /\ rec.paths # {} /\ rec.form # "over",
            !.medium = IF rec.pc = "scan" THEN 0 ELSE @]
        failed == [rec EXCEPT
            !.left = {},
            !.inspection = IF rec.pc = "inspect" THEN "FAIL" ELSE @,
            !.security = IF rec.pc = "scan" THEN "FAIL" ELSE @]
    IN
    /\ rec.pc \in {"inspect", "scan"} /\ (rec.left # {} \/ tree[rec.root] = None)
    /\ \/ rec.kind = "pipeline" /\ job' = [job EXCEPT ![j] = Idle]
       \/ rec.kind \in CodeAgents /\ job' = [job EXCEPT ![j] = Advanced(failed)]
       \/ rec.kind = "review" /\ Modelled(rec) /\ job' = [job EXCEPT ![j] = Heuristics(rec)]
       \/ rec.kind = "review" /\ ~Modelled(rec) /\ job' = [job EXCEPT ![j] = Advanced(dropped)]
    /\ UNCHANGED <<tree, head, tips, writes>>

StageEnds(j) ==
    /\ job[j].pc \in {"inspect", "scan", "lint", "hash"} /\ job[j].left = {}
    /\ job' = [job EXCEPT ![j] = Advanced(@)]
    /\ UNCHANGED <<tree, head, tips, writes>>

\* run_tests works on a copy.  It passes, or does not (failed, timed out, could not be
\* copied), or raises: a pipeline dies of that, a review counts it as a failed test and
\* the agents go on as if no tests had been asked for.
Tests(j, outcome) ==
    LET rec == job[j] IN
    /\ rec.pc = "test"
    /\ job' = [job EXCEPT ![j] =
          IF outcome = "raises" /\ rec.kind = "pipeline" THEN Idle
          ELSE Advanced([rec EXCEPT
                   !.tests = IF outcome = "raises" /\ rec.kind \in CodeAgents THEN None
                             ELSE IF outcome = "PASS" THEN "PASS" ELSE "FAIL",
                   !.high = @ \/ outcome # "PASS"])]
    /\ UNCHANGED <<tree, head, tips, writes>>

\* The optional command of the evidence works on a copy; one that cannot be run or times
\* out fails the report, one that returns an error does not.
Command(j, outcome) ==
    /\ job[j].pc = "command"
    /\ job' = [job EXCEPT ![j] = Advanced([@ EXCEPT !.failed = outcome = "cannot"])]
    /\ UNCHANGED <<tree, head, tips, writes>>

\* A scenario of the holdout, on a copy of its own.
Scenario(j, outcome) ==
    LET rec == job[j]
        now == tree[rec.root]
    IN
    /\ rec.pc = "scenario"
    /\ job' = [job EXCEPT ![j] = Advanced([rec EXCEPT
          !.failed = rec.failed \/ outcome # "ok",
          !.seen = rec.seen \cup (IF now = None THEN {} ELSE {now})])]
    /\ UNCHANGED <<tree, head, tips, writes>>

-----------------------------------------------------------------------------
(* Verdicts.                                                               *)

\* The score of a review round.
Score(rec) ==
    LET marks == 5 - (IF rec.high THEN 2 ELSE 0)
                   - (IF rec.medium = 0 THEN 0 ELSE IF rec.medium <= 3 THEN 1 ELSE 2)
    IN  IF rec.tests = "FAIL" /\ marks > 2 THEN 2 ELSE marks

ReviewPasses(rec) == ~rec.high /\ Score(rec) >= rec.threshold

\* The gate of pipeline and agents; of evidence and holdout.
Passes(rec) ==
    /\ rec.inspection = "PASS" /\ rec.security = "PASS"
    /\ rec.tests \in {None, "PASS"}
    /\ ~rec.failed

\* What is left of a job when its report is written; nobody uses more of a failed check.
Reported(rec, gate) ==
    IF gate = "FAIL" /\ rec.kind \in {"review", "evidence", "holdout"}
    THEN [Idle EXCEPT !.kind = rec.kind, !.pc = "done", !.gate = gate]
    ELSE [rec EXCEPT !.pc = "done", !.gate = gate, !.stage = 0, !.edits = 0, !.medium = 0,
                     !.high = FALSE, !.round = 1, !.left = {}, !.form = "ok",
                     !.threshold = 4, !.wants = FALSE]

\* The agents may be told to remove their worktree; that may fail.
Verdict(j) ==
    LET rec == job[j] IN
    /\ rec.pc = "verdict" /\ rec.kind # "review"
    /\ job' = [job EXCEPT ![j] = Reported(rec, IF Passes(rec) THEN "PASS" ELSE "FAIL")]
    /\ tree' \in {tree} \cup {[tree EXCEPT ![j] = None] : a \in {rec.kind} \cap CodeAgents}
    /\ UNCHANGED <<head, tips, writes>>

\* The round did not pass and there is another one.
NextRound(rec) ==
    Started([Afresh(rec) EXCEPT !.round = @ + 1, !.heuristic = FALSE])

Decided(rec, ok) ==
    IF ok THEN Reported(rec, "PASS")
    ELSE IF rec.round < MaxRounds THEN NextRound(rec) ELSE Reported(rec, "FAIL")

HeuristicRound(j) ==
    /\ job[j].pc = "verdict" /\ job[j].kind = "review" /\ ~Modelled(job[j])
    /\ job' = [job EXCEPT ![j] = Decided(@, ReviewPasses(@))]
    /\ UNCHANGED <<tree, head, tips, writes>>

\* The model's own score and findings decide; without a usable answer the round is done
\* again by the heuristics.
ModelRound(j, answer) ==
    /\ job[j].pc = "verdict" /\ job[j].kind = "review" /\ Modelled(job[j])
    /\ job' = [job EXCEPT ![j] =
          IF answer = "none" THEN Heuristics(@) ELSE Decided(@, answer = "pass")]
    /\ UNCHANGED <<tree, head, tips, writes>>

-----------------------------------------------------------------------------
(* Jobs begin, and agents change their worktrees.                          *)

Free(j) ==
    /\ job[j].pc = "idle"
    /\ Cardinality({k \in Jobs : job[k].pc \notin {"idle", "done"}}) < MaxRunning

\* run_pipeline, run_review, capture_evidence or run_holdout on an existing root.
Check(j, kind, r, paths, form, wants, threshold, llm) ==
    /\ Free(j) /\ tree[r] # None
    /\ job' = [job EXCEPT ![j] = Started([Idle EXCEPT
          !.kind = kind, !.root = r, !.paths = paths, !.form = form, !.wants = wants,
          !.threshold = threshold, !.llm = llm])]
    /\ UNCHANGED <<tree, head, tips, writes>>

\* The lists of paths that callers hand over.
Requests == {<<paths, "ok">> : paths \in SUBSET Paths} \cup {<<Paths, "bad">>, <<Paths, "over">>}

\* git lets a branch be checked out once.
CheckedOut(b) == \E k \in Jobs : tree[k] # None /\ job[k].branch = b

\* create_worktree: a new branch starts at base_ref, HEAD by default; one that exists
\* is checked out as it is.
Worktree(b) == IF tips[b] = None THEN head ELSE tips[b]

\* run_coding_agent with its edits, or run_external_agent.  A worktree that cannot be
\* made raises, and nothing has happened.
Launch(j, kind, b, edits, wants) ==
    /\ Free(j) /\ ~CheckedOut(b)
    /\ tree' = [tree EXCEPT ![j] = Worktree(b)]
    /\ tips' = [tips EXCEPT ![b] = Worktree(b)]
    /\ job' = [job EXCEPT ![j] = [Idle EXCEPT
          !.kind = kind, !.root = j, !.branch = b, !.wants = wants, !.edits = edits,
          !.pc = IF kind = "coding" THEN "edit" ELSE "agent",
          !.failed = kind = "coding" /\ (edits = 0 \/ edits > MaxEdits)]]
    /\ UNCHANGED <<head, writes>>

MutEditsCheckout(j, p, k) ==
    /\ job[j].pc = "edit" /\ ~job[j].failed /\ job[j].edits > 0
    /\ tree' = [tree EXCEPT ![Base][p] = k]
    /\ job' = [Disturbed(Base, j) EXCEPT ![j].edits = @ - 1, ![j].paths = @ \cup {p}]
    /\ UNCHANGED <<head, tips, writes>>

\* An exact replacement in one readable file.
ApplyEdit(j, p, k) ==
    /\ job[j].pc = "edit" /\ ~job[j].failed /\ job[j].edits > 0
    /\ File(j, p) \notin {"absent", "opaque"} /\ k \notin {"absent", "opaque"}
    /\ tree' = [tree EXCEPT ![j][p] = k]
    /\ job' = [Disturbed(j, j) EXCEPT ![j].edits = @ - 1, ![j].paths = @ \cup {p}]
    /\ UNCHANGED <<head, tips, writes>>

\* Malformed, a refused or unreadable path, not exactly one occurrence, or not written.
EditFails(j) ==
    /\ job[j].pc = "edit" /\ ~job[j].failed /\ job[j].edits > 0
    /\ job' = [job EXCEPT ![j].failed = TRUE]
    /\ UNCHANGED <<tree, head, tips, writes>>

EditsEnd(j) ==
    /\ job[j].pc = "edit" /\ (job[j].failed \/ job[j].edits = 0)
    /\ job' = [job EXCEPT ![j] = Started(@)]
    /\ UNCHANGED <<tree, head, tips, writes>>

AgentWrites(j, p, k) ==
    /\ job[j].pc = "agent" /\ Written
    /\ tree' = [tree EXCEPT ![j][p] = k]
    /\ job' = Disturbed(j, j)
    /\ UNCHANGED <<head, tips>>

AgentCommits(j) ==
    /\ job[j].pc = "agent"
    /\ tips' = [tips EXCEPT ![job[j].branch] = tree[j]]
    /\ UNCHANGED <<tree, head, job, writes>>

\* What _changed_paths misses: all that a git command which fails would list, and new files
\* that git ignores; the agent may say what it ignores.
Missed(j, failed, ignored) ==
    LET status(p) == IF tips[job[j].branch][p] = "absent" THEN "new" ELSE "tracked"
    IN  {p \in Paths : status(p) \in failed \/ (status(p) = "new" /\ p \in ignored)}

\* _changed_paths: tracked files that differ from the worktree's HEAD, and new files.
Changed(j, missed) == {p \in Paths \ missed : File(j, p) # tips[job[j].branch][p]}

\* The agent ends, well or not (an error, a timeout, it could not be started).
AgentExits(j, code, failed, ignored) ==
    LET missed == Missed(j, failed, ignored)
        paths  == Changed(j, missed)
    IN
    /\ job[j].pc = "agent"
    /\ job' = [job EXCEPT ![j] =
          Started([@ EXCEPT !.paths = paths, !.lost = missed,
                            !.failed = code # 0 \/ paths = {}])]
    /\ UNCHANGED <<tree, head, tips, writes>>

\* An editor, or a process that an agent left running.
Write(r, p, k) ==
    /\ tree[r] # None /\ Written /\ (r # Base => job[r].pc # "agent")
    /\ tree' = [tree EXCEPT ![r][p] = k]
    /\ job' = Disturbed(r, None)
    /\ UNCHANGED <<head, tips>>

Commit ==
    /\ Written /\ head' = tree[Base]
    /\ UNCHANGED <<tree, tips, job>>

-----------------------------------------------------------------------------
(* The merge queue.                                                        *)

\* _is_protected: it strips the dots a path begins with, and then finds no entry for it.
Touched(paths) == (paths \cap Protected) \ Dotted

\* evaluate_merge, of the reports its caller hands over: what was not run counts as not
\* passed.  The answer is for a human; nothing is merged.
MergeAllowed(change, reviewGate, approved) ==
    /\ change.inspection = "PASS" /\ change.security = "PASS" /\ change.tests = "PASS"
    /\ reviewGate = "PASS"
    /\ Touched(change.paths) # {} => approved

\* The report is filed away, a worktree that is left is removed by hand.
Discard(j) ==
    /\ job[j].pc = "done"
    /\ job' = [Disturbed(j, j) EXCEPT ![j] = Idle]
    /\ tree' = [tree EXCEPT ![j] = None]
    /\ UNCHANGED <<head, tips, writes>>

Next ==
    \/ \E j \in Jobs :
          \/ \E r \in {Base} \cup Jobs, asked \in Requests, wants \in BOOLEAN :
                \/ Check(j, "pipeline", r, asked[1], asked[2], wants, 4, FALSE)
                \/ \E how \in {<<4, FALSE>>, <<5, FALSE>>, <<4, TRUE>>} :
                      Check(j, "review", r, asked[1], asked[2], wants, how[1], how[2])
          \/ \E kind \in {"evidence", "holdout"}, r \in {Base} \cup Jobs :
                Check(j, kind, r, Paths, "ok", FALSE, 4, FALSE)
          \/ \E b \in Branches, wants \in BOOLEAN :
                \/ \E n \in 0 .. MaxEdits + 1 : Launch(j, "coding", b, n, wants)
                \/ Launch(j, "external", b, 0, wants)
          \/ \E p \in Paths, k \in Kinds : ApplyEdit(j, p, k) \/ AgentWrites(j, p, k)
          \/ EditFails(j) \/ EditsEnd(j) \/ AgentCommits(j)
          \/ \E code \in {0, 1}, failed \in SUBSET {"tracked", "new"}, ignored \in SUBSET Paths :
                AgentExits(j, code, failed, ignored)
          \/ \E p \in Paths : Read(j, p) \/ ReadFails(j, p)
          \/ StageEnds(j) \/ GateRaises(j)
          \/ \E o \in {"PASS", "FAIL", "raises"} : Tests(j, o)
          \/ \E o \in {"ok", "cannot"} : Command(j, o) \/ Scenario(j, o)
          \/ Discard(j) \/ Verdict(j) \/ HeuristicRound(j)
          \/ \E a \in {"pass", "fail", "none"} : ModelRound(j, a)
    \/ \E r \in {Base} \cup Jobs, p \in Paths, k \in Kinds : Write(r, p, k)
    \/ Commit

-----------------------------------------------------------------------------
(* Properties.                                                             *)

Good == {"clean", "lint"}
Change(j) == job[j].pc = "done" /\ job[j].kind \in {"pipeline", "coding", "external"}
Report(j) == job[j].pc = "done" /\ job[j].gate = "PASS" /\ job[j].fresh /\ tree[job[j].root] # None

\* A PASS is about the files that are there: as long as nobody else has written the
\* root since the job began, every file the report covers is readable, parses and has
\* no high finding, whatever the gates read at different times; an external agent's
\* report covers everything that differs from the commit of its worktree, but new files
\* that git ignores and what a git command that failed would have listed; evidence and
\* holdout runs saw the files that are there.  Excepted are a scan that had to skip a
\* file, which it reports without failing, a review whose inspection or scan raised, which
\* goes on without it, and a review that a model decided, where the model's own findings
\* are all that counts.
VerdictSound ==
    \A j \in Jobs : Report(j) /\ ~job[j].skipped /\ ~Modelled(job[j]) =>
        LET rec == job[j]
            now == tree[rec.root]
        IN  /\ rec.kind \in {"pipeline", "review", "coding", "external"} =>
                  rec.paths # {} /\ \A p \in rec.paths : now[p] \in Good
            /\ rec.kind = "external" => Changed(j, rec.lost) \subseteq rec.paths
            /\ rec.kind = "evidence" => \A s \in rec.seen : now[s[1]] = s[2]
            /\ rec.kind = "holdout" => rec.seen \subseteq {now}

\* What the merge queue lets through to a human was tested, and while nobody has written
\* the root since the change was checked, and the scan skipped nothing, it holds nothing
\* a gate would have refused, whatever the review says; a protected path that is in it
\* without anybody's approval begins with a dot, which hides it from the queue.
MergeSound ==
    \A j \in Jobs, approved \in BOOLEAN :
        Change(j) /\ MergeAllowed(job[j], "PASS", approved) =>
            LET now == tree[job[j].root] IN
            /\ job[j].fresh /\ ~job[j].skipped /\ now # None =>
                  job[j].paths # {} /\ \A p \in job[j].paths : now[p] \in Good
            /\ ~approved => job[j].paths \cap Protected \subseteq Dotted

\* A job writes nothing but its own worktree, and that only before its gates read it:
\* the checkout and the worktrees of others change only under editors and commits.
Isolation ==
    \A r \in {Base} \cup Jobs :
       tree'[r] # tree[r] /\ tree[r] # None /\ tree'[r] # None /\ writes' = writes =>
           r \in Jobs /\ job[r].pc = "edit"
=============================================================================
