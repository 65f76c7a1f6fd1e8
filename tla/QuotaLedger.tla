---------------------------- MODULE QuotaLedger ----------------------------
(***************************************************************************)
(* The durable beta quota ledger, src/agency/telegram/budget_store.py.      *)
(*                                                                         *)
(* Several gateway processes may open one SQLite file.  The tables          *)
(* (requests, model_attempts, quota_clock) are durable and shared; the      *)
(* execution capabilities (_owners) and the _closed flag live in one        *)
(* process.  Every public operation is a coroutine: a check on the event    *)
(* loop, one BEGIN IMMEDIATE transaction on a worker thread, and sometimes  *)
(* a check after it; each part is an action, so that close(), a kill and    *)
(* other callers can come between them.                                     *)
(*                                                                         *)
(* A "task" is a coroutine of some process that handles one update.  The    *)
(* wall clock is an input: every transaction reads any moment in Time, and  *)
(* only quota_clock makes the ledger's time monotone.                       *)
(***************************************************************************)
EXTENDS Integers, FiniteSets, FiniteSetsExt

CONSTANTS
    Bots, Updates, Users,  \* routing identifiers of the primary keys
    Procs, Tasks, ProcOf,  \* processes, their coroutines, ProcOf[t] \in Procs
    NoOne,                 \* "no user", "no task", "no capability"
    MaxTime,               \* bound: clock readings lie in 0..MaxTime
    Hour, Day, Retention,  \* _HOUR_SECONDS, _DAY_SECONDS, _RETENTION_SECONDS
    RequestsPerHour, RequestsPerDay,
    ModelCallsPerHour, ModelCallsPerDay, ModelCallsPerRequest

\* The windows nest and every limit is positive, as BudgetLimits enforces.
ASSUME LedgerAssumption ==
    /\ ProcOf \in [Tasks -> Procs]
    /\ NoOne \notin Users /\ NoOne \notin Tasks
    /\ MaxTime \in Nat
    /\ Hour \in Nat /\ Day \in Nat /\ Retention \in Nat
    /\ 0 < Hour /\ Hour <= Day /\ Day <= Retention
    /\ RequestsPerHour \in Nat \ {0} /\ RequestsPerDay \in Nat \ {0}
    /\ ModelCallsPerHour \in Nat \ {0} /\ ModelCallsPerDay \in Nat \ {0}
    /\ ModelCallsPerRequest \in Nat \ {0}

VARIABLES
    req,      \* requests: a row for every key, state "ABSENT" if there is none
    att,      \* model_attempts: a set of rows
    clock,    \* quota_clock: last_seen of each bot (0 before its first row)
    closed,   \* _closed of each process' store object
    owners,   \* _owners of each process: the task whose capability is valid
    pc,       \* where each task stands in the operation it awaits
    arg,      \* the key and user the task works for
    grants,   \* history: every reservation ever committed
    spent     \* history: every model attempt ever committed

durable == <<req, att, clock>>
local   == <<closed, owners, pc, arg>>
history == <<grants, spent>>
vars    == <<durable, local, history>>

Time     == 0 .. MaxTime
Keys     == Bots \X Updates
Live     == {"RESERVED", "RUNNING"}
Terminal == {"COMPLETED", "FAILED"}
States   == Live \cup Terminal

Row     == [state : {"ABSENT"} \cup States, user : Users \cup {NoOne},
            at : Time, by : Tasks \cup {NoOne}]
NoRow   == [state |-> "ABSENT", user |-> NoOne, at |-> 0, by |-> NoOne]
Attempt == [bot : Bots, update : Updates, user : Users, index : Nat, at : Time]
Grant   == [bot : Bots, update : Updates, user : Users, at : Time]
Arg     == [key : Keys, user : Users]

Stages == {"idle",                \* awaits nothing and holds no capability
           "reserve", "granted",  \* reserve_request: before, after its commit
           "held",                \* holds a capability, no call in flight
           "mark",                \* mark_running: before its commit
           "model", "counted",    \* reserve_model_call: before, after its commit
           "dispatch",            \* the provider call it authorised is running
           "finish", "finished"}  \* finish_request: before, after its commit

-----------------------------------------------------------------------------
(* Helpers of the transactions.                                            *)

AttemptsOf(rows, k) == {a \in rows : a.bot = k[1] /\ a.update = k[2]}

\* _owns: the store is open and the presented capability is the current one.
Owns(t) ==
    /\ ~closed[ProcOf[t]]
    /\ owners[ProcOf[t]][<<arg[t].key, arg[t].user>>] = t

\* _owners[(bot_id, update_id, user_id)] of t's process becomes x.
SetOwner(t, x) ==
    [owners EXCEPT ![ProcOf[t]] = [@ EXCEPT ![<<arg[t].key, arg[t].user>>] = x]]

\* _advance_clock_txn: a reading before last_seen makes the ledger unavailable.
AdvanceClock(k, now) ==
    /\ now >= clock[k[1]]
    /\ clock' = [clock EXCEPT ![k[1]] = now]

\* _prune_txn, first DELETE: old attempts whose request is missing or terminal.
KeptAttempts(now) ==
    {a \in att : a.at >= now - Retention
                 \/ req[<<a.bot, a.update>>].state \in Live}

MutPrunesLive(k, now) ==
    req[k].at < now - Retention /\ AttemptsOf(KeptAttempts(now), k) = {}
MutPrunesEarly(k, now) ==
    /\ req[k].state \in Terminal
    /\ req[k].at <= now - Retention
    /\ AttemptsOf(KeptAttempts(now), k) = {}

Pruned(k, now) ==
    /\ req[k].state \in Terminal
    /\ req[k].at < now - Retention
    /\ AttemptsOf(KeptAttempts(now), k) = {}

KeptRequests(now) ==
    [k \in Keys |-> IF Pruned(k, now) THEN NoRow ELSE req[k]]

\* The COUNT(*) queries: rows of one user after now - window.
RequestsSince(rows, b, u, moment) ==
    {k \in Keys : /\ k[1] = b /\ rows[k].state # "ABSENT"
                  /\ rows[k].user = u /\ rows[k].at > moment}
AttemptsSince(rows, b, u, moment) ==
    {a \in rows : a.bot = b /\ a.user = u /\ a.at > moment}

-----------------------------------------------------------------------------
Init ==
    /\ req = [k \in Keys |-> NoRow]
    /\ att = {}
    /\ clock = [b \in Bots |-> 0]
    /\ closed = [p \in Procs |-> FALSE]
    /\ owners = [p \in Procs |-> [ku \in Keys \X Users |-> NoOne]]
    /\ pc = [t \in Tasks |-> "idle"]
    /\ arg \in [Tasks -> Arg]
    /\ grants = {}
    /\ spent = {}

Goto(t, stage) == pc' = [pc EXCEPT ![t] = stage]

\* reserve_request up to its await: a closed store raises at once.
ReserveRequest(t, k, u) ==
    /\ pc[t] = "idle" /\ ~closed[ProcOf[t]]
    /\ Goto(t, "reserve")
    /\ arg' = [arg EXCEPT ![t] = [key |-> k, user |-> u]]
    /\ UNCHANGED <<durable, closed, owners, history>>

OverRequestLimit(rows, k, u, now) ==
    \/ Cardinality(RequestsSince(rows, k[1], u, now - Hour)) >= RequestsPerHour
    \/ Cardinality(RequestsSince(rows, k[1], u, now - Day)) >= RequestsPerDay

MutRetriesRunning(rows, k) == rows[k].state \in {"ABSENT", "RUNNING"}

\* The SELECT of _reserve_request_sync: any stored row makes it a replay.
IsNew(rows, k) == rows[k].state = "ABSENT"

\* _reserve_request_sync: replays and users over their limit get no grant.
ReserveRequestTxn(t, now) ==
    LET k    == arg[t].key
        u    == arg[t].user
        kept == KeptRequests(now)
        new  == IsNew(kept, k) /\ ~OverRequestLimit(kept, k, u, now)
    IN  /\ pc[t] = "reserve"
        /\ AdvanceClock(k, now)
        /\ att' = KeptAttempts(now)
        /\ req' = IF new
                  THEN [kept EXCEPT ![k] = [state |-> "RESERVED", user |-> u,
                                            at |-> now, by |-> t]]
                  ELSE kept
        /\ grants' = IF new
                     THEN grants \cup {[bot |-> k[1], update |-> k[2],
                                        user |-> u, at |-> now]}
                     ELSE grants
        /\ Goto(t, IF new THEN "granted" ELSE "idle")
        /\ UNCHANGED <<closed, owners, arg, spent>>

\* reserve_request after its await: no capability once the store is closed.
ReserveRequestReturn(t) ==
    /\ pc[t] = "granted"
    /\ IF closed[ProcOf[t]]
       THEN Goto(t, "idle") /\ UNCHANGED owners
       ELSE /\ Goto(t, "held")
            /\ owners' = SetOwner(t, t)
    /\ UNCHANGED <<durable, closed, arg, history>>

\* mark_running up to its await.
MarkRunning(t) ==
    /\ pc[t] = "held" /\ Owns(t)
    /\ Goto(t, "mark")
    /\ UNCHANGED <<durable, closed, owners, arg, history>>

\* _mark_running_sync; another state than RESERVED raises and changes nothing.
MarkRunningTxn(t, now) ==
    LET k == arg[t].key
    IN  /\ pc[t] = "mark"
        /\ req[k].state = "RESERVED" /\ req[k].user = arg[t].user
        /\ AdvanceClock(k, now)
        /\ req' = [req EXCEPT ![k] = [@ EXCEPT !.state = "RUNNING"]]
        /\ Goto(t, "held")
        /\ UNCHANGED <<att, closed, owners, arg, history>>

\* reserve_model_call up to its await.
ReserveModelCall(t) ==
    /\ pc[t] = "held" /\ Owns(t)
    /\ Goto(t, "model")
    /\ UNCHANGED <<durable, closed, owners, arg, history>>

MutNoHourLimit(rows, k, u, now) ==
    \/ Cardinality(AttemptsOf(rows, k)) >= ModelCallsPerRequest
    \/ Cardinality(AttemptsSince(rows, k[1], u, now - Day)) >= ModelCallsPerDay

\* Per request, per hour and per day.
OverModelLimit(rows, k, u, now) ==
    \/ Cardinality(AttemptsOf(rows, k)) >= ModelCallsPerRequest
    \/ Cardinality(AttemptsSince(rows, k[1], u, now - Hour)) >= ModelCallsPerHour
    \/ Cardinality(AttemptsSince(rows, k[1], u, now - Day)) >= ModelCallsPerDay

NextIndex(rows, k) == Max({-1} \cup {a.index : a \in AttemptsOf(rows, k)}) + 1

\* Only the RUNNING request of the same user may spend model calls.
IsRunning(t, now) ==
    /\ KeptRequests(now)[arg[t].key].state = "RUNNING"
    /\ req[arg[t].key].user = arg[t].user

\* _reserve_model_call_sync: it counts the attempt, or refuses it.
ReserveModelCallTxn(t, now) ==
    LET k    == arg[t].key
        u    == arg[t].user
        kept == KeptAttempts(now)
        ok   == IsRunning(t, now) /\ ~OverModelLimit(kept, k, u, now)
        row  == [bot |-> k[1], update |-> k[2], user |-> u,
                 index |-> NextIndex(kept, k), at |-> now]
    IN  /\ pc[t] = "model"
        /\ AdvanceClock(k, now)
        /\ req' = KeptRequests(now)
        /\ att' = IF ok THEN kept \cup {row} ELSE kept
        /\ spent' = IF ok THEN spent \cup {row} ELSE spent
        /\ Goto(t, IF ok THEN "counted" ELSE "held")
        /\ UNCHANGED <<closed, owners, arg, grants>>

\* reserve_model_call after its await: the attempt stays counted, but it
\* authorises a provider call only while the capability is still valid.
ReserveModelCallReturn(t) ==
    /\ pc[t] = "counted"
    /\ Goto(t, IF Owns(t) THEN "dispatch" ELSE "held")
    /\ UNCHANGED <<durable, closed, owners, arg, history>>

\* The caller's provider call ends, with or without an answer.
DispatchEnd(t) ==
    /\ pc[t] = "dispatch"
    /\ Goto(t, "held")
    /\ UNCHANGED <<durable, closed, owners, arg, history>>

\* finish_request up to its await.
FinishRequest(t) ==
    /\ pc[t] = "held" /\ Owns(t)
    /\ Goto(t, "finish")
    /\ UNCHANGED <<durable, closed, owners, arg, history>>

\* _finish_request_sync; another state than RUNNING raises.
FinishRequestTxn(t, now, success) ==
    LET k == arg[t].key
    IN  /\ pc[t] = "finish"
        /\ req[k].state = "RUNNING" /\ req[k].user = arg[t].user
        /\ AdvanceClock(k, now)
        /\ req' = [req EXCEPT ![k] = [@ EXCEPT !.state =
                       IF success THEN "COMPLETED" ELSE "FAILED"]]
        /\ Goto(t, "finished")
        /\ UNCHANGED <<att, closed, owners, arg, history>>

\* finish_request after its await: _owners.pop, whoever the key belongs to now.
FinishRequestReturn(t) ==
    /\ pc[t] = "finished"
    /\ owners' = SetOwner(t, NoOne)
    /\ Goto(t, "idle")
    /\ UNCHANGED <<durable, closed, arg, history>>

\* Any transaction may fail (locked or unwritable database, a clock behind
\* last_seen, a state it does not expect): it rolls back and raises.
TxnFails(t) ==
    /\ pc[t] \in {"reserve", "mark", "model", "finish"}
    /\ Goto(t, IF pc[t] = "reserve" THEN "idle" ELSE "held")
    /\ UNCHANGED <<durable, closed, owners, arg, history>>

\* The caller gives up a capability without finishing the request.
Abandon(t) ==
    /\ pc[t] = "held"
    /\ Goto(t, "idle")
    /\ UNCHANGED <<durable, closed, owners, arg, history>>

\* close(): every capability of the process dies; transactions in flight go on.
Close(p) ==
    /\ ~closed[p]
    /\ closed' = [closed EXCEPT ![p] = TRUE]
    /\ owners' = [owners EXCEPT ![p] = [ku \in Keys \X Users |-> NoOne]]
    /\ UNCHANGED <<durable, pc, arg, history>>

\* The process is killed, or exits, and a new one opens the same file: __init__
\* and _init_sync keep the tables and start without capabilities.
Restart(p) ==
    /\ closed' = [closed EXCEPT ![p] = FALSE]
    /\ owners' = [owners EXCEPT ![p] = [ku \in Keys \X Users |-> NoOne]]
    /\ pc' = [t \in Tasks |-> IF ProcOf[t] = p THEN "idle" ELSE pc[t]]
    /\ UNCHANGED <<durable, arg, history>>

Transaction(t, now) ==
    \/ ReserveRequestTxn(t, now)
    \/ MarkRunningTxn(t, now)
    \/ ReserveModelCallTxn(t, now)
    \/ \E success \in BOOLEAN : FinishRequestTxn(t, now, success)

Coroutine(t) ==
    \/ \E k \in Keys, u \in Users : ReserveRequest(t, k, u)
    \/ ReserveRequestReturn(t)
    \/ MarkRunning(t)
    \/ ReserveModelCall(t)
    \/ ReserveModelCallReturn(t)
    \/ DispatchEnd(t)
    \/ FinishRequest(t)
    \/ FinishRequestReturn(t)
    \/ TxnFails(t)
    \/ Abandon(t)

Next ==
    \/ \E t \in Tasks : Coroutine(t)
    \/ \E t \in Tasks, now \in Time : Transaction(t, now)
    \/ \E p \in Procs : Close(p)
    \/ \E p \in Procs : Restart(p)

Spec == Init /\ [][Next]_vars

\* The same ledger when a reading never lies before the last_seen of any bot in
\* the file.  _advance_clock_txn ensures this for the calling bot only, while
\* _prune_txn deletes the rows of all bots: with one bot it is no restriction.
NextOneClock ==
    \/ \E t \in Tasks : Coroutine(t)
    \/ \E t \in Tasks, now \in Time :
           (\A b \in Bots : now >= clock[b]) /\ Transaction(t, now)
    \/ \E p \in Procs : Close(p)
    \/ \E p \in Procs : Restart(p)

SpecOneClock == Init /\ [][NextOneClock]_vars

-----------------------------------------------------------------------------
(* Properties.                                                             *)

\* The columns and the in-memory maps keep their types; an attempt_index is a
\* natural number, so that the first attempt of a request gets index 0.
TypeOK ==
    /\ req \in [Keys -> Row]
    /\ att \subseteq Attempt /\ IsFiniteSet(att)
    /\ clock \in [Bots -> Time]
    /\ closed \in [Procs -> BOOLEAN]
    /\ owners \in [Procs -> [Keys \X Users -> Tasks \cup {NoOne}]]
    /\ pc \in [Tasks -> Stages]
    /\ arg \in [Tasks -> Arg]
    /\ grants \subseteq Grant
    /\ spent \subseteq Attempt

\* The two tables agree although no foreign key ties them: every attempt
\* belongs to a stored request of the same user that has left RESERVED.  A key
\* that is reserved again after pruning thus starts without old attempts.
AttemptsHaveRequest ==
    \A a \in att :
        /\ req[<<a.bot, a.update>>].state \in States \ {"RESERVED"}
        /\ req[<<a.bot, a.update>>].user = a.user

\* The stages of a task that was granted its key and has not given it back.
Executing == {"granted", "held", "mark", "model", "counted", "dispatch", "finish"}

\* Across all processes at most one task at a time executes an update (and so
\* makes provider calls for it), and its row is live: neither a replay, pruning,
\* close(), a restart nor a second process gives the key to a second task.
ExclusiveExecution ==
    \A t \in Tasks : pc[t] \in Executing =>
        /\ req[arg[t].key].state \in Live
        /\ \A s \in Tasks \ {t} : pc[s] \in Executing => arg[s].key # arg[t].key

\* Telegram may deliver an update again: its key is granted a second time only
\* after the retention period (counted in ledger time).
ReplayRetention ==
    \A g, h \in grants :
        g # h /\ g.bot = h.bot /\ g.update = h.update
        => g.at - h.at > Retention \/ h.at - g.at > Retention

InWindow(rows, b, u, from, to) ==
    {r \in rows : r.bot = b /\ r.user = u /\ r.at > from /\ r.at <= to}

\* In every window of ledger time a user is granted at most the hourly and the
\* daily number of requests, whatever was pruned, restarted or rolled back.
RequestQuota ==
    \A b \in Bots, u \in Users, to \in Time :
        /\ Cardinality(InWindow(grants, b, u, to - Hour, to)) <= RequestsPerHour
        /\ Cardinality(InWindow(grants, b, u, to - Day, to)) <= RequestsPerDay

\* The same for the billable model attempts, counted ones included.
ModelCallQuota ==
    \A b \in Bots, u \in Users, to \in Time :
        /\ Cardinality(InWindow(spent, b, u, to - Hour, to)) <= ModelCallsPerHour
        /\ Cardinality(InWindow(spent, b, u, to - Day, to)) <= ModelCallsPerDay

\* One stored request never has more attempts than its own limit, and no two
\* attempts share an index (the primary key the insert relies on).
PerRequestQuota ==
    \A k \in Keys :
        /\ Cardinality(AttemptsOf(att, k)) <= ModelCallsPerRequest
        /\ \A a, b \in AttemptsOf(att, k) : a.index = b.index => a = b

\* All limits hold at once, also when two updates are executed side by side.
Quotas == RequestQuota /\ ModelCallQuota /\ PerRequestQuota

\* An unfinished request is never forgotten or handed to somebody else: its row
\* keeps its reserver and its age until finish_request ends it.
LiveRowsSurvive ==
    [][\A k \in Keys : req[k].state \in Live =>
           /\ req'[k].state \in States
           /\ req'[k].by = req[k].by
           /\ req'[k].at = req[k].at]_vars
=============================================================================
