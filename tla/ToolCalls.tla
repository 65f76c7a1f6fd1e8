----------------------------- MODULE ToolCalls -----------------------------
(***************************************************************************)
(* Tool-calling loops (src/agency/tools/driver.py) over tool registries      *)
(* (tools/registry.py), metered models (llm/metered.py) and the durable beta *)
(* audit log they share (kernel/audit.py).  Every process has one registry   *)
(* and one audit connection; all processes share one database file.  A loop  *)
(* alternates model calls and tool calls.  In a beta loop each of them is    *)
(* preceded by a durable intent, which is refused while any intent of any    *)
(* process has no outcome, and is followed by a durable outcome.  The owner  *)
(* path through the same code is modelled by OwnerPilot.                     *)
(***************************************************************************)
EXTENDS Naturals

CONSTANTS
    Loops,        \* ToolDriver.run calls
    Procs,        \* processes: one ToolRegistry and one BetaAuditLog each
    Budget,       \* max_tool_iterations
    MaxRestarts,  \* bound: crashes
    None

MostCalls == 3 * Budget + 2
CallIds   == Loops \X (1 .. MostCalls)

VARIABLES
    strict,     \* the processes whose registry was built with a beta policy
    loop,       \* loop[l]: the state of one ToolDriver.run
    suspended,  \* suspended[p]: ToolRegistry._beta_suspended
    conn,       \* conn[p]: is AuditLog._conn open
    intents,    \* intent rows committed in audit_entries
    outcomes,   \* outcome rows committed in audit_entries
    staged,     \* staged[p]: rows inserted on p's connection and not committed
    restarts

toolcalls == <<strict, loop, suspended, conn, intents, outcomes, staged, restarts>>

Ended == {"completed", "max_iterations", "parse_error", "tool_error", "audit_error",
          "llm_error", "raised", "lost"}

Idle == [pc |-> "new", proc |-> None, beta |-> FALSE, calls |-> 0, tools |-> 0,
         fails |-> 0, failed |-> FALSE, ok |-> FALSE]

Pending == intents \ outcomes

TypeOK ==
    /\ \A l \in Loops :
        /\ loop[l].pc \in Ended \cup {"new", "ask", "generating", "recording", "call",
                                      "claim", "running", "persist"}
        /\ loop[l].tools \in 0 .. Budget + 1
    /\ outcomes \subseteq intents
    /\ \A p \in Procs : staged[p] \subseteq CallIds \cup {None}

Init ==
    /\ strict \in {Procs, {}}
    /\ loop = [l \in Loops |-> Idle]
    /\ suspended = [p \in Procs |-> FALSE]
    /\ conn = [p \in Procs |-> TRUE]
    /\ intents = {} /\ outcomes = {}
    /\ staged = [p \in Procs |-> {}]
    /\ restarts = 0

-----------------------------------------------------------------------------
(* The audit log.                                                          *)

\* The id of the call that loop l is making.
Call(l) == <<l, loop[l].calls>>

\* A claim opens a connection of its own: any open write transaction locks it out.
ClaimLocked == \E p \in Procs : staged[p] # {}

\* An append uses the process's connection: another process's transaction locks it out.
AppendLocked(p) == \E q \in Procs \ {p} : staged[q] # {}

\* Mutant: the claim only looks at the intents of its own loop.
MutClaims(p, c) ==
    /\ conn[p] /\ ~ClaimLocked
    /\ {d \in Pending : d[1] = c[1]} = {}
    /\ intents' = intents \cup {c}

\* claim_intent of call c by process p returned True: no intent of anybody was pending in
\* the immediate transaction, and the row was committed and read back.
Claimed(p, c) ==
    /\ conn[p] /\ ~ClaimLocked
    /\ Pending = {}
    /\ intents' = intents \cup {c}

\* claim_intent returned False: some call has no outcome yet.
Refused(p) ==
    /\ conn[p] /\ ~ClaimLocked
    /\ Pending # {}
    /\ UNCHANGED intents

\* claim_intent raised or was cancelled: before the commit, or after it.
Unclaimed(p, c) == UNCHANGED intents \/ Claimed(p, c)

\* The rows of process p's connection are committed with row r.
Commit(p, r) ==
    /\ outcomes' = outcomes \cup ((staged[p] \cup {r}) \ {None})
    /\ staged' = [staged EXCEPT ![p] = {}]

\* append_beta acknowledged row r.
Appended(p, r) == conn[p] /\ ~AppendLocked(p) /\ Commit(p, r)

\* append_beta raised or was cancelled: nothing was written; the row was inserted and its
\* commit was not sent; or the row was committed and not acknowledged.
Unacknowledged(p, r) ==
    \/ UNCHANGED <<outcomes, staged>>
    \/ /\ conn[p] /\ ~AppendLocked(p)
       /\ staged' = [staged EXCEPT ![p] = @ \cup {r}]
       /\ UNCHANGED outcomes
    \/ Appended(p, r)

\* initialize(): a failing one leaves no connection.
Initialize(p) ==
    /\ ~conn[p]
    /\ conn' = [conn EXCEPT ![p] = TRUE]
    /\ UNCHANGED <<strict, loop, suspended, intents, outcomes, staged, restarts>>

\* close(): commits what is open; a close that fails then keeps the connection.
Close(p) ==
    /\ conn[p]
    /\ Commit(p, None)
    /\ \E closed \in BOOLEAN : conn' = [conn EXCEPT ![p] = ~closed]
    /\ UNCHANGED <<strict, loop, suspended, intents, restarts>>

-----------------------------------------------------------------------------
(* The driver.                                                             *)

End(l, status) == loop' = [loop EXCEPT ![l].pc = status]

Latch(p) == suspended' = [suspended EXCEPT ![p] = TRUE]

\* Entry checks of run(): a beta loop needs a strict registry, a principal and a metered
\* model bound to that principal and to the same audit log.
Start(l, p, principal, bound) ==
    /\ loop[l].pc = "new"
    /\ loop' = [loop EXCEPT ![l].proc = p, ![l].beta = p \in strict,
                            ![l].pc = IF (p \in strict) # principal \/ (principal /\ ~bound)
                                      THEN "tool_error" ELSE "ask"]
    /\ UNCHANGED <<strict, suspended, conn, intents, outcomes, staged, restarts>>

\* The next model call is the last one: all tool calls are used up.
Forced(l) == loop[l].tools > 0 /\ loop[l].tools >= Budget

\* Mutant: parse failures are not counted.
MutNeverGivesUp(l) == FALSE

\* Too many answers in a row were not understood.
GivesUp(l) == loop[l].fails + 1 >= 2

\* What the first JSON object of a model's text is: {"final": ...}, {"action": ...} or
\* neither.
Answers == {"final", "call", "garbage"}

\* What run() makes of the model's text: a final answer, a tool call, or neither.
Meaning(l, answer) ==
    IF answer = "final" THEN "completed"
    ELSE IF Forced(l) THEN "max_iterations"
    ELSE IF answer = "call" THEN "call"
    ELSE IF GivesUp(l) THEN "parse_error" ELSE "ask"

Interpret(l, answer) ==
    loop' = [loop EXCEPT ![l].pc = Meaning(l, answer),
                         ![l].fails = IF answer = "garbage" THEN @ + 1 ELSE 0]

\* A legacy loop's model call: no metering.
Ask(l) ==
    /\ loop[l].pc = "ask" /\ ~loop[l].beta
    /\ \/ \E answer \in Answers : Interpret(l, answer)
       \/ End(l, "llm_error")
       \/ End(l, "raised")
    /\ UNCHANGED <<strict, suspended, conn, intents, outcomes, staged, restarts>>

\* MeteredModel.generate of a beta loop up to the dispatch: validation, the quota and the
\* intent; any refusal or failure is raised through the driver.
ClaimModel(l) ==
    /\ loop[l].pc = "ask" /\ loop[l].beta
    /\ LET p == loop[l].proc
           c == <<l, loop[l].calls + 1>>
       IN  \/ /\ Claimed(p, c)
              /\ loop' = [loop EXCEPT ![l].pc = "generating", ![l].calls = @ + 1]
           \/ (Refused(p) \/ Unclaimed(p, c)) /\ End(l, "raised")
    /\ UNCHANGED <<strict, suspended, conn, outcomes, staged, restarts>>

\* The provider answered, or did not: a timeout records nothing, any other failure an
\* "uncertainty" entry; either way the intent stays pending.
Generate(l) ==
    /\ loop[l].pc = "generating"
    /\ \/ /\ loop' = [loop EXCEPT ![l].pc = "recording"]
          /\ UNCHANGED <<outcomes, staged>>
       \/ /\ End(l, "raised")
          /\ Appended(loop[l].proc, None) \/ Unacknowledged(loop[l].proc, None)
    /\ UNCHANGED <<strict, suspended, conn, intents, restarts>>

\* The outcome of a model call is recorded before its text is used.
RecordModel(l) ==
    /\ loop[l].pc = "recording"
    /\ \/ Appended(loop[l].proc, Call(l))
          /\ \E answer \in Answers : Interpret(l, answer)
       \/ Unacknowledged(loop[l].proc, Call(l)) /\ End(l, "raised")
    /\ UNCHANGED <<strict, suspended, conn, intents, restarts>>

-----------------------------------------------------------------------------
(* ToolRegistry.call and what the driver makes of its result.              *)

\* A result the driver goes on with: it is a step of the loop, and an observation for
\* the next model call.
Stepped(l, ok) ==
    loop' = [loop EXCEPT ![l].pc = "ask", ![l].tools = @ + 1,
                         ![l].failed = @ \/ ~ok, ![l].ok = FALSE]

\* Mutant: the loop goes on after a failed beta call as it does in legacy mode.
MutFailedResult(l, status) == Stepped(l, FALSE)

\* A failed result: a beta loop ends, a legacy loop tells the model.
FailedResult(l, status) == IF loop[l].beta THEN End(l, status) ELSE Stepped(l, FALSE)

\* What can be wrong with a request before the policy sees it.
Malformed == {"unknown tool", "invalid args"}

\* What the beta policy says, or that it raises.
PolicyVerdicts == {"allowed", "denied", "error"}

\* A malformed request, or one that the policy of a registry in service does not allow: a
\* denial entry is written if possible, and the tool is not run.
Deny(l) ==
    /\ loop[l].pc = "call"
    /\ \/ \E reason \in Malformed : TRUE
       \/ /\ loop[l].beta /\ ~suspended[loop[l].proc]
          /\ \E verdict \in PolicyVerdicts : verdict # "allowed"
    /\ IF loop[l].beta
       THEN \/ /\ Appended(loop[l].proc, None) \/ Unacknowledged(loop[l].proc, None)
               /\ End(l, "tool_error")
               /\ UNCHANGED suspended
            \/ /\ Unacknowledged(loop[l].proc, None)
               /\ End(l, "raised")
               /\ Latch(loop[l].proc)
       ELSE Stepped(l, FALSE) /\ UNCHANGED <<suspended, outcomes, staged>>
    /\ UNCHANGED <<strict, conn, intents, restarts>>

\* A suspended registry refuses a call; otherwise the policy allows it.  The latch is
\* read here, and the claim is awaited after it.
Admit(l) ==
    /\ loop[l].pc = "call"
    /\ loop' = [loop EXCEPT ![l].pc = IF ~loop[l].beta THEN "running"
                                      ELSE IF suspended[loop[l].proc] THEN "audit_error"
                                      ELSE "claim"]
    /\ UNCHANGED <<strict, suspended, conn, intents, outcomes, staged, restarts>>

\* _beta_claim: True runs the tool; False does not latch, as a live call may still write
\* its outcome; an outage and a cancellation latch the registry.
ClaimTool(l) ==
    /\ loop[l].pc = "claim"
    /\ LET p == loop[l].proc
           c == <<l, loop[l].calls + 1>>
       IN  \/ /\ Claimed(p, c)
              /\ loop' = [loop EXCEPT ![l].pc = "running", ![l].calls = @ + 1]
              /\ UNCHANGED suspended
           \/ Refused(p) /\ End(l, "audit_error") /\ UNCHANGED suspended
           \/ Unclaimed(p, c) /\ Latch(p) /\ (End(l, "audit_error") \/ End(l, "raised"))
    /\ UNCHANGED <<strict, conn, outcomes, staged, restarts>>

\* The tool returns, fails, times out or is cancelled.  A cancelled beta call latches the
\* registry and leaves its intent pending.
RunTool(l) ==
    /\ loop[l].pc = "running"
    /\ \/ \E ok \in BOOLEAN :
            /\ IF loop[l].beta THEN loop' = [loop EXCEPT ![l].pc = "persist", ![l].ok = ok]
                               ELSE Stepped(l, ok)
            /\ UNCHANGED suspended
       \/ /\ End(l, "raised")
          /\ IF loop[l].beta THEN Latch(loop[l].proc) ELSE UNCHANGED suspended
    /\ UNCHANGED <<strict, conn, intents, outcomes, staged, restarts>>

\* _beta_persist of the outcome: without an acknowledgement the result is not returned.
PersistTool(l) ==
    /\ loop[l].pc = "persist"
    /\ \/ /\ Appended(loop[l].proc, Call(l))
          /\ IF loop[l].ok THEN Stepped(l, TRUE) ELSE FailedResult(l, "tool_error")
          /\ UNCHANGED suspended
       \/ /\ Unacknowledged(loop[l].proc, Call(l))
          /\ End(l, "audit_error") \/ End(l, "raised")
          /\ Latch(loop[l].proc)
    /\ UNCHANGED <<strict, conn, intents, restarts>>

\* Process p dies and comes back with a new registry and no connection; SQLite rolls its
\* open transaction back.
Crash(p) ==
    /\ restarts < MaxRestarts
    /\ restarts' = restarts + 1
    /\ loop' = [l \in Loops |-> IF loop[l].proc = p /\ loop[l].pc \notin Ended
                                THEN [loop[l] EXCEPT !.pc = "lost"] ELSE loop[l]]
    /\ suspended' = [suspended EXCEPT ![p] = FALSE]
    /\ conn' = [conn EXCEPT ![p] = FALSE]
    /\ staged' = [staged EXCEPT ![p] = {}]
    /\ UNCHANGED <<strict, intents, outcomes>>

Step(l) ==
    \/ Ask(l) \/ ClaimModel(l) \/ Generate(l) \/ RecordModel(l)
    \/ Deny(l) \/ Admit(l) \/ ClaimTool(l) \/ RunTool(l) \/ PersistTool(l)

Next ==
    \/ \E l \in Loops, p \in Procs, principal, bound \in BOOLEAN : Start(l, p, principal, bound)
    \/ \E l \in Loops : Step(l)
    \/ \E p \in Procs : Initialize(p) \/ Close(p) \/ Crash(p)

-----------------------------------------------------------------------------
(* Properties.                                                             *)

\* While a beta loop's model or tool call is under way, its intent is durable and it is the
\* only call of all processes, also of dead ones, that has no outcome: nothing is ever
\* dispatched on top of an uncertain effect (claim_intent, the beta audit gate).
OneUncertainty ==
    \A l \in Loops :
        loop[l].beta /\ loop[l].pc \in {"generating", "recording", "running", "persist"}
            => Call(l) \in intents /\ Pending \subseteq {Call(l)}

\* A beta loop whose answer goes to the user had no denied, failed or uncertain call: the
\* model cannot talk its way past one, and every effect behind the answer is on record.
AnswersAccounted ==
    \A l \in Loops :
        loop[l].beta /\ loop[l].pc \in {"completed", "max_iterations", "parse_error"}
            => /\ ~loop[l].failed
               /\ \A i \in 1 .. loop[l].calls : <<l, i>> \in outcomes

\* Every loop comes to its end: the budget bounds the tool calls and two answers in a row
\* that are not understood end it, so it never asks the model more often than MostCalls.
LoopBounded == \A l \in Loops : loop[l].calls <= MostCalls
=============================================================================
