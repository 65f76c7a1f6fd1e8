------------------------------ MODULE Evidence ------------------------------
(***************************************************************************)
(* The evidence store (findings and their append-only trail) and the risk   *)
(* scorer above it (scored findings and the accuracy of the agents that     *)
(* reported them).  Each keeps one SQLite connection and one asyncio lock:  *)
(* a writer takes the lock, runs its statements and commits, but the reads  *)
(* that come first happen outside the lock, and a writer cancelled or       *)
(* failing between its statements leaves the transaction open for the next. *)
(* A table is modelled twice: `disk' is committed, `conn' what the          *)
(* connection sees.                                                         *)
(***************************************************************************)
EXTENDS Integers, Sequences, SequencesExt, FiniteSetsExt

CONSTANTS
    Callers,      \* concurrent coroutines of the process
    Findings, Fields,
    Entries,      \* evidence ids
    Top,          \* rank of the highest evidence level
    Agents,       \* reporting agents
    MaxCalls,     \* bound on the calls
    MaxFaults,    \* bound on interrupted calls
    MaxStops,     \* bound on restarts of the process
    None

VARIABLES
    evidence,     \* [disk, conn, lock] of the evidence store
    scores,       \* [disk, conn, lock] of the risk scorer
    call,         \* what each caller is doing
    calls, faults, stops,
    acked         \* entries whose add_evidence returned

store == <<evidence, scores, call, calls, faults, stops, acked>>

Levels   == 0 .. Top
Outcomes == {"true_positive", "false_positive", "negative"}   \* true or false negative
Idle     == [op |-> "idle"]

\* EvidenceStore and RiskScorer after initialize() on an empty database.
NoEvidence == [finding |-> [f \in Findings |-> None], trail |-> <<>>]

NoScores ==
    [row |-> <<>>,
     scored |-> [a \in Agents \cup {"unknown"} |-> 0],
     outcome |-> [a \in Agents \cup {"unknown"} |-> [o \in Outcomes |-> 0]]]

Init ==
    /\ evidence = [disk |-> NoEvidence, conn |-> NoEvidence, lock |-> None]
    /\ scores = [disk |-> NoScores, conn |-> NoScores, lock |-> None]
    /\ call = [c \in Callers |-> Idle]
    /\ calls = 0 /\ faults = 0 /\ stops = 0
    /\ acked = {}

(***************************************************************************)
(* The ladder of evidence levels                                            *)
(***************************************************************************)
MutCanTransition(from, to) ==
    to > (IF from = None THEN 0 ELSE from)

\* can_transition: exactly one step up; no level counts as the hypothesis.
CanTransition(from, to) ==
    to - (IF from = None THEN 0 ELSE from) = 1

\* suggest_next
SuggestNext(from) ==
    LET next == (IF from = None THEN 0 ELSE from) + 1
    IN  IF next > Top THEN None ELSE next

\* validate_chain: the hypothesis opens the history at most, then one rung at a time.
ValidateChain(levels) ==
    \A i \in DOMAIN levels :
        IF levels[i] = 0 THEN i = 1
        ELSE CanTransition(IF i = 1 THEN None ELSE levels[i - 1], levels[i])

\* strongest_level of a history, and latest_evidence_level of a stored trail: the names
\* of the levels sort by rank, so MAX(level) is the highest one.
StrongestLevel(levels) == IF levels = <<>> THEN 0 ELSE Max(Range(levels))

LatestEvidenceLevel(levels) == IF levels = <<>> THEN None ELSE Max(Range(levels))

\* The levels of a finding's entries, in the order of the trail.
LevelsOf(f, trail) ==
    LET upto[n \in 0 .. Len(trail)] ==
            IF n = 0 THEN <<>>
            ELSE IF trail[n].finding = f THEN Append(upto[n - 1], trail[n].level)
            ELSE upto[n - 1]
    IN  upto[Len(trail)]

(***************************************************************************)
(* Calls: requests of the REST API and of the components that score          *)
(***************************************************************************)
Begin(c, request) ==
    /\ call[c] = Idle
    /\ calls < MaxCalls
    /\ calls' = calls + 1
    /\ call' = [call EXCEPT ![c] = request]
    /\ UNCHANGED <<evidence, scores, faults, stops, acked>>

Goes(c, pc) == call' = [call EXCEPT ![c].pc = pc]

Returns(c) == call' = [call EXCEPT ![c] = Idle]

MutNoLock(db) == TRUE

\* `async with self._lock'.
LockFree(db) == db.lock = None

Lock(c, next) ==
    /\ call[c].op # "idle" /\ call[c].pc = "lock"
    /\ Goes(c, next)
    /\ \/ /\ call[c].op \in {"finding", "update", "evidence"}
          /\ LockFree(evidence)
          /\ evidence' = [evidence EXCEPT !.lock = c]
          /\ UNCHANGED scores
       \/ /\ call[c].op \in {"score", "outcome"}
          /\ LockFree(scores)
          /\ scores' = [scores EXCEPT !.lock = c]
          /\ UNCHANGED evidence
    /\ UNCHANGED <<calls, faults, stops, acked>>

\* add_finding: the insert; an existing id is refused and the lock is left.
InsertFinding(c) ==
    LET f == call[c].finding IN
    /\ call[c].op = "finding" /\ call[c].pc = "write"
    /\ IF evidence.conn.finding[f] = None
       THEN /\ evidence' = [evidence EXCEPT !.conn.finding[f] = [k \in Fields |-> None]]
            /\ Goes(c, "commit")
       ELSE /\ evidence' = [evidence EXCEPT !.lock = None]
            /\ Returns(c)
    /\ UNCHANGED <<scores, calls, faults, stops, acked>>

\* update_finding and add_evidence first look for the finding, outside the lock.
GetFinding(c) ==
    LET f == call[c].finding IN
    /\ call[c].op \in {"update", "evidence"} /\ call[c].pc = "read"
    /\ call' = [call EXCEPT ![c] =
           IF evidence.conn.finding[f] = None THEN Idle
           ELSE [@ EXCEPT !.pc = "lock", !.seen = evidence.conn.finding[f]]]
    /\ UNCHANGED <<evidence, scores, calls, faults, stops, acked>>

\* _replace_finding writes the whole document: what the call read, with its own field set.
Merged(c) == [call[c].seen EXCEPT ![call[c].field] = c]

ReplaceFinding(c) ==
    /\ call[c].op = "update" /\ call[c].pc = "write"
    /\ evidence' = [evidence EXCEPT !.conn.finding[call[c].finding] = Merged(c)]
    /\ Goes(c, "commit")
    /\ UNCHANGED <<scores, calls, faults, stops, acked>>

Entry(c) == [id |-> call[c].id, finding |-> call[c].finding, level |-> call[c].level]

Recorded(trail, id) == \E i \in DOMAIN trail : trail[i].id = id

MutReplaces(c) ==
    /\ call[c].op = "evidence" /\ call[c].pc = "write"
    /\ evidence' = [evidence EXCEPT !.conn.trail =
           Append(SelectSeq(@, LAMBDA t : t.id # call[c].id), Entry(c))]
    /\ Goes(c, "commit")
    /\ UNCHANGED <<scores, calls, faults, stops, acked>>

\* The insert of an entry; a known id raises IntegrityError, which returns the entry as
\* it is, without a commit.
InsertEvidence(c) ==
    /\ call[c].op = "evidence" /\ call[c].pc = "write"
    /\ IF Recorded(evidence.conn.trail, call[c].id)
       THEN /\ evidence' = [evidence EXCEPT !.lock = None]
            /\ acked' = acked \cup {call[c].id}
            /\ Returns(c)
       ELSE /\ evidence' = [evidence EXCEPT !.conn.trail = Append(@, Entry(c))]
            /\ Goes(c, "commit")
            /\ UNCHANGED acked
    /\ UNCHANGED <<scores, calls, faults, stops>>

CommitEvidence(c) ==
    /\ call[c].op \in {"finding", "update", "evidence"} /\ call[c].pc = "commit"
    /\ evidence' = [evidence EXCEPT !.disk = evidence.conn, !.lock = None]
    /\ acked' = IF call[c].op = "evidence" THEN acked \cup {call[c].id} ELSE acked
    /\ Returns(c)
    /\ UNCHANGED <<scores, calls, faults, stops>>

(***************************************************************************)
(* The scorer                                                               *)
(***************************************************************************)
Bucket(a) == IF a = None THEN "unknown" ELSE a

MutDamped(o) == 6 * o["true_positive"] <= 5 * (o["true_positive"] + o["false_positive"])

\* AgentAccuracy.calibration: 0.5 + 0.6 * precision is below 1.0 for precisions under 5/6.
Damped(o) ==
    /\ o["true_positive"] + o["false_positive"] > 0
    /\ 6 * o["true_positive"] < 5 * (o["true_positive"] + o["false_positive"])

\* score_finding: the evidence is read, the prior of the agent applied (_apply_agent_prior);
\* the numbers of the risk are abstracted to whether the prior damped them.
ApplyPrior(c) ==
    LET a == call[c].agent IN
    /\ call[c].op = "score" /\ call[c].pc = "read"
    /\ call' = [call EXCEPT ![c].pc = "lock",
           ![c].damped = a # None /\ Damped(scores.conn.outcome[a])]
    /\ UNCHANGED <<evidence, scores, calls, faults, stops, acked>>

\* _record_score: the row, then the count of the agent, then the commit.
InsertScore(c) ==
    /\ call[c].op = "score" /\ call[c].pc = "write"
    /\ scores' = [scores EXCEPT !.conn.row =
           Append(@, [finding |-> call[c].finding, agent |-> call[c].agent,
                      damped |-> call[c].damped])]
    /\ Goes(c, "count")
    /\ UNCHANGED <<evidence, calls, faults, stops, acked>>

Counted(c) == [scores EXCEPT !.conn.scored[Bucket(call[c].agent)] = @ + 1]

CountScore(c) ==
    /\ call[c].op = "score" /\ call[c].pc = "count"
    /\ scores' = Counted(c)
    /\ Goes(c, "commit")
    /\ UNCHANGED <<evidence, calls, faults, stops, acked>>

\* record_outcome: the agent of the latest score of the finding unless one is given.
OwningAgent(f) ==
    LET rows == scores.conn.row
        own  == {i \in DOMAIN rows : rows[i].finding = f}
    IN  IF own = {} THEN None ELSE rows[Max(own)].agent

GetOwner(c) ==
    /\ call[c].op = "outcome" /\ call[c].pc = "read"
    /\ call' = [call EXCEPT ![c].pc = "lock",
           ![c].agent = Bucket(IF @ = None THEN OwningAgent(call[c].finding) ELSE @)]
    /\ UNCHANGED <<evidence, scores, calls, faults, stops, acked>>

CountOutcome(c) ==
    /\ call[c].op = "outcome" /\ call[c].pc = "write"
    /\ scores' = [scores EXCEPT !.conn.outcome[call[c].agent][call[c].outcome] = @ + 1]
    /\ Goes(c, "commit")
    /\ UNCHANGED <<evidence, calls, faults, stops, acked>>

CommitScores(c) ==
    /\ call[c].op \in {"score", "outcome"} /\ call[c].pc = "commit"
    /\ scores' = [scores EXCEPT !.disk = scores.conn, !.lock = None]
    /\ Returns(c)
    /\ UNCHANGED <<evidence, calls, faults, stops, acked>>

(***************************************************************************)
(* Faults                                                                   *)
(***************************************************************************)
\* A call is cancelled at an await, or its statement fails: the lock is left, what it
\* already wrote stays in the open transaction.
Interrupt(c) ==
    /\ call[c].op # "idle"
    /\ faults < MaxFaults
    /\ faults' = faults + 1
    /\ evidence' = IF evidence.lock = c THEN [evidence EXCEPT !.lock = None] ELSE evidence
    /\ scores' = IF scores.lock = c THEN [scores EXCEPT !.lock = None] ELSE scores
    /\ Returns(c)
    /\ UNCHANGED <<calls, stops, acked>>

\* close() or a kill, and initialize() again: open transactions are rolled back.
Restart ==
    /\ stops < MaxStops
    /\ stops' = stops + 1
    /\ evidence' = [evidence EXCEPT !.conn = evidence.disk, !.lock = None]
    /\ scores' = [scores EXCEPT !.conn = scores.disk, !.lock = None]
    /\ call' = [c \in Callers |-> Idle]
    /\ UNCHANGED <<calls, faults, acked>>

Requests ==
    [op : {"finding"}, pc : {"lock"}, finding : Findings]
    \cup [op : {"update"}, pc : {"read"}, finding : Findings, field : Fields, seen : {None}]
    \cup [op : {"evidence"}, pc : {"read"}, finding : Findings, id : Entries,
          level : Levels, seen : {None}]
    \cup [op : {"score"}, pc : {"read"}, finding : Findings, agent : Agents \cup {None},
          damped : {FALSE}]
    \cup [op : {"outcome"}, pc : {"read"}, finding : Findings, agent : Agents \cup {None},
          outcome : Outcomes]

Next ==
    \/ \E c \in Callers :
        \/ \E request \in Requests : Begin(c, request)
        \/ Lock(c, "write")
        \/ InsertFinding(c) \/ GetFinding(c) \/ ReplaceFinding(c)
        \/ InsertEvidence(c) \/ CommitEvidence(c)
        \/ ApplyPrior(c) \/ InsertScore(c) \/ CountScore(c)
        \/ GetOwner(c) \/ CountOutcome(c) \/ CommitScores(c)
        \/ Interrupt(c)
    \/ Restart

Spec == Init /\ [][Next]_store

(***************************************************************************)
(* Properties                                                               *)
(***************************************************************************)
\* Unless a call was interrupted, an entry is on disk once its add_evidence returned, for
\* the call that wrote it and for every replay, across restarts; the trail has no id twice.
TrailDurable ==
    /\ faults = 0 => \A e \in acked : Recorded(evidence.disk.trail, e)
    /\ \A i, j \in DOMAIN evidence.conn.trail :
           evidence.conn.trail[i].id = evidence.conn.trail[j].id => i = j

\* The level a finding has reached (MAX over its trail) and its history agree: the valid
\* histories are the contiguous ascents from the hypothesis or the rung above it, and
\* they keep climbing with exactly the levels can_transition admits after the reached
\* one, suggest_next among them.
LadderSound ==
    \A f \in Findings :
        LET levels  == LevelsOf(f, evidence.conn.trail)
            reached == LatestEvidenceLevel(levels)
        IN  /\ reached # None => reached = StrongestLevel(levels)
            /\ ValidateChain(levels) <=>
                \E first \in {0, 1} :
                    levels = [i \in DOMAIN levels |-> first + i - 1]
            /\ ValidateChain(levels) =>
                /\ \A l \in Levels \ {0} :
                    ValidateChain(Append(levels, l)) <=> CanTransition(reached, l)
                /\ reached # Top => ValidateChain(Append(levels, SuggestNext(reached)))

\* Unless a call was interrupted, what is committed counts every scored row once, for the
\* agent it names; and interrupted or not, a committed score is damped only where a false
\* positive of its agent is committed too.
ScoresSound ==
    /\ faults = 0 =>
        \A a \in Agents \cup {None} :
            scores.disk.scored[Bucket(a)]
                = Cardinality({i \in DOMAIN scores.disk.row : scores.disk.row[i].agent = a})
    /\ \A i \in DOMAIN scores.disk.row :
        LET r == scores.disk.row[i] IN
        r.damped => r.agent # None /\ scores.disk.outcome[r.agent]["false_positive"] > 0

\* Evidence is append-only: what is committed only grows at its end, no finding goes.
TrailGrows ==
    /\ IsPrefix(evidence.disk.trail, evidence'.disk.trail)
    /\ \A f \in Findings :
         evidence.disk.finding[f] # None => evidence'.disk.finding[f] # None
=============================================================================
