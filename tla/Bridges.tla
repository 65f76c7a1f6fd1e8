------------------------------ MODULE Bridges -------------------------------
(***************************************************************************)
(* Bridges to external agents: the coordinator with its circuit breaker      *)
(* (src/agency/bridges/coordinator.py) and the four transports (claude,      *)
(* hermes, codex, openclaw under src/agency/bridges/).  Bridges do not share *)
(* state, so one name is modelled; its transport is chosen initially.        *)
(***************************************************************************)
EXTENDS Naturals, FiniteSets, FiniteSetsExt

CONSTANTS
    Transports,       \* a subset of {"claude", "hermes", "codex", "openclaw"}
    Calls,            \* callers of route_task and route_stream
    FailureThreshold, \* CircuitBreakerConfig.failure_threshold
    HalfOpenMax,      \* half_open_max_calls
    SuccessThreshold, \* success_threshold
    Dwell,            \* recovery_timeout_s, in clock ticks
    MaxRetries,       \* BridgeConfig.max_retries
    MaxCalls,         \* bound: calls routed
    MaxCancels        \* bound: cancellations, failing writes, changes of the registration

VARIABLES
    transport,  \* how the bridge reaches its agent
    registered,
    breaker,    \* the breaker registered with the bridge
    call,       \* call[c]: the call of c in progress
    procs,      \* procs[c]: how many programs started for c run
    closing,    \* closing[c]: those whose abandoned stream is being closed
    dropped,    \* dropped[c]: those left where no handler reaps them
    routed,
    cancels

programs == <<procs, closing, dropped>>
bridges  == <<transport, registered, breaker, call, programs, routed, cancels>>

\* A new breaker.  waited: ticks since it opened; lost: probes cancelled without a record;
\* round: how often it went half open.
NewBreaker == [state |-> "closed", failures |-> 0, successes |-> 0, waited |-> 0,
               inflight |-> 0, round |-> 0, lost |-> 0]

\* probe: the half-open round that admitted the call (0: the circuit was closed); current:
\* its breaker is the registered one.
Idle == [pc |-> "idle", mode |-> "task", attempt |-> 0, probe |-> 0, current |-> TRUE]

Running == {c \in Calls : call[c].pc # "idle"}

Init ==
    /\ transport \in Transports
    /\ registered = TRUE
    /\ breaker = NewBreaker
    /\ call = [c \in Calls |-> Idle]
    /\ procs = [c \in Calls |-> 0] /\ closing = procs /\ dropped = procs
    /\ routed = 0 /\ cancels = 0

-----------------------------------------------------------------------------
(* CircuitBreaker.                                                         *)

DwellElapsed(b) == b.waited >= Dwell

HalfOpen(b) == [b EXCEPT !.state = "half_open", !.inflight = 0, !.successes = 0,
                         !.round = @ + 1, !.lost = 0]

\* The state property and allow() move an open circuit on when its dwell is over.
Refreshed(b) == IF b.state = "open" /\ DwellElapsed(b) THEN HalfOpen(b) ELSE b

Admits(b) ==
    \/ b.state = "closed"
    \/ b.state = "half_open" /\ b.inflight < HalfOpenMax

Admitted(b) == IF b.state = "half_open" THEN [b EXCEPT !.inflight = @ + 1] ELSE b

\* _trip_locked.
Tripped(b) == [b EXCEPT !.state = "open", !.waited = 0, !.successes = 0]

OneLess(n) == IF n > 0 THEN n - 1 ELSE 0

\* record_success.
Succeeded(b) ==
    IF b.state # "half_open" THEN [b EXCEPT !.failures = 0]
    ELSE IF b.successes + 1 >= SuccessThreshold
         THEN [b EXCEPT !.failures = 0, !.inflight = OneLess(@), !.successes = 0,
                        !.state = "closed"]
         ELSE [b EXCEPT !.failures = 0, !.inflight = OneLess(@), !.successes = @ + 1]

\* record_failure.  The count is capped: above the threshold it makes no difference.
Failed(b) ==
    LET counted == [b EXCEPT !.failures = Min({@ + 1, FailureThreshold})]
    IN  IF b.state = "half_open" THEN Tripped([counted EXCEPT !.inflight = OneLess(@)])
        ELSE IF counted.failures >= FailureThreshold THEN Tripped(counted)
        ELSE counted

\* A call records its end on the breaker it was admitted by.
Record(c, ok) ==
    breaker' = IF ~call[c].current THEN breaker
               ELSE IF ok THEN Succeeded(breaker) ELSE Failed(breaker)

-----------------------------------------------------------------------------
(* The transports: what one attempt may come to.                           *)

Spawns == transport \in {"claude", "hermes"}

\* The program cannot be started.
SpawnOutcomes == {"error", "fatal"}

\* claude: TimeoutError, OSError and ValueError are retried, except a missing program or
\* failed authentication.  Exceptions of other kinds are raised, here and below.
ClaudeOutcomes == {"ok", "timeout", "error", "fatal", "raised"}

\* hermes: an error frame is a result and is not retried.  A timeout kills the program, the
\* rest comes after the wait for its exit.
HermesOutcomes(c) ==
    IF call[c].pc = "waiting" THEN {"timeout"} ELSE {"ok", "refused", "error", "fatal", "raised"}

\* codex: timeouts, retryable status codes and malformed answers are retried.
CodexOutcomes == {"ok", "timeout", "error", "fatal", "raised"}

\* openclaw: submitting is retried after timeouts and status errors only; then the run is
\* polled, and nothing is retried.
SubmitOutcomes == {"submitted", "error", "fatal", "raised"}
PollOutcomes == {"ok", "refused", "timeout", "fatal"}

Outcomes(c) ==
    CASE call[c].pc = "writing" -> SpawnOutcomes
      [] transport = "claude" -> ClaudeOutcomes
      [] transport = "hermes" -> HermesOutcomes(c)
      [] transport = "codex" -> CodexOutcomes
      [] transport = "openclaw" /\ call[c].pc = "waiting" -> SubmitOutcomes
      [] OTHER -> PollOutcomes

Retried == {"timeout", "error"}

RetriesLeft(c) == call[c].attempt < MaxRetries

-----------------------------------------------------------------------------
(* Programs.                                                               *)

\* The present attempt of c has a program.
HasProgram(c) ==
    Spawns /\ call[c].pc \in {"writing", "waiting", "reaping", "unwinding"}

Start(c) == IF Spawns THEN [procs EXCEPT ![c] = @ + 1] ELSE procs

\* The attempt ends after its program: it has ended, or it is killed.
Reap(c) == IF HasProgram(c) THEN [procs EXCEPT ![c] = @ - 1] ELSE procs

\* The attempt ends and leaves its program running.
Drop(c) == IF HasProgram(c) THEN [dropped EXCEPT ![c] = @ + 1] ELSE dropped

\* hermes and the streams of claude wait for the exit of their program in a finally, and
\* kill it after five seconds; a stream of hermes writes its request in there too.
Guarded(c) ==
    \/ call[c].pc = "waiting" /\ (transport = "hermes"
                                   \/ (transport = "claude" /\ call[c].mode = "stream"))
    \/ call[c].pc = "writing" /\ transport = "hermes" /\ call[c].mode = "stream"

-----------------------------------------------------------------------------
(* ExternalCoordinator.                                                    *)

FirstPc == IF Spawns THEN "writing" ELSE "waiting"

\* route_task and route_stream up to the transport.
Route(c, mode) ==
    /\ registered
    /\ call[c].pc = "idle"
    /\ routed < MaxCalls
    /\ routed' = routed + 1
    /\ LET b == Refreshed(breaker)
       IN  IF Admits(b)
           THEN /\ breaker' = Admitted(b)
                /\ call' = [call EXCEPT ![c] =
                       [pc |-> FirstPc, mode |-> mode, attempt |-> 0, current |-> TRUE,
                        probe |-> IF b.state = "half_open" THEN b.round ELSE 0]]
                /\ procs' = Start(c)
           ELSE breaker' = b /\ UNCHANGED <<call, procs>>
    /\ UNCHANGED <<transport, registered, closing, dropped, cancels>>

\* Mutant: only results are recorded, an exception of the bridge is not.
MutEnds(c, out) ==
    /\ IF out = "raised" THEN UNCHANGED breaker ELSE Record(c, out = "ok")
    /\ call' = [call EXCEPT ![c] = Idle]

\* The call returns, and its outcome is recorded.
Ends(c, out) ==
    /\ Record(c, out = "ok")
    /\ call' = [call EXCEPT ![c] = Idle]

\* What an attempt's outcome leads to.
Settles(c, out) ==
    \/ /\ out = "submitted"
       /\ call' = [call EXCEPT ![c].pc = "polling"]
       /\ UNCHANGED breaker
    \/ /\ out \in Retried /\ RetriesLeft(c) /\ call[c].pc # "polling"
       /\ call' = [call EXCEPT ![c].pc = "backoff"]
       /\ UNCHANGED breaker
    \/ /\ out # "submitted"
       /\ ~(out \in Retried /\ RetriesLeft(c) /\ call[c].pc # "polling")
       /\ Ends(c, out)

\* The request is written to the program.
Written(c) ==
    /\ call[c].pc = "writing"
    /\ call' = [call EXCEPT ![c].pc = "waiting"]
    /\ UNCHANGED <<transport, registered, breaker, programs, routed, cancels>>

\* The request cannot be encoded, or the pipe breaks, outside of the handlers that reap: the
\* program stays, and the failure is raised or retried like any other.
Unsent(c) ==
    /\ cancels < MaxCancels
    /\ cancels' = cancels + 1
    /\ call[c].pc = "writing" /\ ~Guarded(c)
    /\ dropped' = Drop(c)
    /\ IF call[c].mode = "stream" THEN Ends(c, "raised")
       ELSE \/ Settles(c, "error")
            \/ transport = "hermes" /\ Settles(c, "raised")
    /\ UNCHANGED <<transport, registered, procs, closing, routed>>

\* An answer, the end of the output or an exception: the wait for the program begins.
Answered(c) ==
    /\ Guarded(c)
    /\ call' = [call EXCEPT ![c].pc = "reaping"]
    /\ UNCHANGED <<transport, registered, breaker, programs, routed, cancels>>

\* One attempt of execute().
Attempt(c, out) ==
    /\ call[c].pc \in {"writing", "waiting", "reaping", "polling"} /\ call[c].mode = "task"
    /\ out \in Outcomes(c)
    /\ procs' = Reap(c)
    /\ Settles(c, out)
    /\ UNCHANGED <<transport, registered, closing, dropped, routed, cancels>>

\* The backoff is over.
Retry(c) ==
    /\ call[c].pc = "backoff"
    /\ call' = [call EXCEPT ![c].pc = FirstPc, ![c].attempt = @ + 1]
    /\ procs' = Start(c)
    /\ UNCHANGED <<transport, registered, breaker, closing, dropped, routed, cancels>>

\* stream(): chunks, then the end or an exception.  Nothing is retried.
StreamEnds(c, out) ==
    /\ call[c].mode = "stream"
    /\ \/ call[c].pc = IF Spawns THEN "reaping" ELSE "waiting"
       \/ call[c].pc = "writing" /\ out = "raised"
    /\ procs' = Reap(c)
    /\ Ends(c, out)
    /\ UNCHANGED <<transport, registered, closing, dropped, routed, cancels>>

\* The reader of a stream leaves early, which counts as success; the event loop closes the
\* abandoned generator of the transport on its own.
Leave(c) ==
    /\ Spawns /\ call[c].pc = "waiting" /\ call[c].mode = "stream"
    /\ Ends(c, "ok")
    /\ closing' = [closing EXCEPT ![c] = @ + 1]
    /\ UNCHANGED <<transport, registered, procs, dropped, routed, cancels>>

Closed(c) ==
    /\ closing[c] > 0
    /\ closing' = [closing EXCEPT ![c] = @ - 1]
    /\ procs' = [procs EXCEPT ![c] = @ - 1]
    /\ UNCHANGED <<transport, registered, breaker, call, dropped, routed, cancels>>

\* A cancelled call is gone.  route_stream records it; route_task catches Exception only, so
\* the breaker hears nothing.
Gone(c) ==
    /\ IF call[c].mode = "stream"
       THEN Record(c, FALSE)
       ELSE breaker' = IF call[c].current /\ call[c].probe = breaker.round /\ breaker.round > 0
                       THEN [breaker EXCEPT !.lost = @ + 1] ELSE breaker
    /\ call' = [call EXCEPT ![c] = Idle]

\* A call is cancelled: the finally waits for its program first, but nobody does where there
\* is none, or where it is already waiting.
Cancel(c) ==
    /\ cancels < MaxCancels
    /\ cancels' = cancels + 1
    /\ call[c].pc # "idle"
    /\ IF Guarded(c)
       THEN /\ call' = [call EXCEPT ![c].pc = "unwinding"]
            /\ UNCHANGED <<breaker, dropped>>
       ELSE Gone(c) /\ dropped' = Drop(c)
    /\ UNCHANGED <<transport, registered, procs, closing, routed>>

\* The program of a cancelled call has ended.
Unwound(c) ==
    /\ call[c].pc = "unwinding"
    /\ procs' = Reap(c)
    /\ Gone(c)
    /\ UNCHANGED <<transport, registered, closing, dropped, routed, cancels>>

\* The loop is stopped while it closes an abandoned stream.
CancelClosing(c) ==
    /\ cancels < MaxCancels
    /\ cancels' = cancels + 1
    /\ closing[c] > 0
    /\ closing' = [closing EXCEPT ![c] = @ - 1]
    /\ dropped' = [dropped EXCEPT ![c] = @ + 1]
    /\ UNCHANGED <<transport, registered, breaker, call, procs, routed>>

\* unregister_bridge drops the breaker; calls in flight keep the one they have.
Unregister ==
    /\ registered
    /\ cancels < MaxCancels
    /\ cancels' = cancels + 1
    /\ registered' = FALSE
    /\ breaker' = NewBreaker
    /\ call' = [c \in Calls |-> IF c \in Running THEN [call[c] EXCEPT !.current = FALSE, !.probe = 0]
                                                 ELSE call[c]]
    /\ UNCHANGED <<transport, programs, routed>>

\* register_bridge: a breaker is made only if the name has none.
Register ==
    /\ ~registered
    /\ registered' = TRUE
    /\ UNCHANGED <<transport, breaker, call, programs, routed, cancels>>

\* breaker_state() refreshes the state without the lock.
ReadState ==
    /\ registered
    /\ breaker' = Refreshed(breaker)
    /\ UNCHANGED <<transport, registered, call, programs, routed, cancels>>

Tick ==
    /\ breaker.state = "open" /\ breaker.waited < Dwell
    /\ breaker' = [breaker EXCEPT !.waited = @ + 1]
    /\ UNCHANGED <<transport, registered, call, programs, routed, cancels>>

Step(c) ==
    \/ Written(c) \/ Answered(c) \/ Retry(c) \/ Leave(c) \/ Closed(c) \/ Unwound(c)
    \/ \E out \in Outcomes(c) : Attempt(c, out)
    \/ \E out \in {"ok", "raised"} : StreamEnds(c, out)

Next ==
    \/ \E c \in Calls, mode \in {"task", "stream"} : Route(c, mode)
    \/ \E c \in Calls : Step(c) \/ Unsent(c) \/ Cancel(c) \/ CancelClosing(c)
    \/ Unregister \/ Register \/ ReadState \/ Tick

-----------------------------------------------------------------------------
(* Properties.                                                             *)

\* The calls that the present half-open round admitted and that are still running.
Probes == {c \in Running : call[c].current /\ call[c].probe = breaker.round}

\* A half-open circuit that refuses calls waits for a probe that runs and will report, or
\* one was cancelled: late results of older calls, replaced breakers and exceptions never
\* leave it refusing for ever.  A closed one has not seen enough failures to open.
NeverWedged ==
    /\ breaker.state = "half_open" => breaker.inflight <= Cardinality(Probes) + breaker.lost
    /\ breaker.state = "closed" => breaker.failures < FailureThreshold

\* Every program that runs belongs to the attempt of a call in progress or to a stream that
\* is being closed, or was left behind by a cancellation or a request that could not be
\* written, where no handler looks.  No timeout, answer, failure or early reader leaves one,
\* so otherwise a retry never runs beside the attempt before it.
ProgramsReaped ==
    \A c \in Calls :
        procs[c] = closing[c] + dropped[c] + (IF HasProgram(c) THEN 1 ELSE 0)
=============================================================================
