--------------------------- MODULE TelegramGateway ---------------------------
(***************************************************************************)
(* The polling Telegram bot (src/telegram_bot.py) with its message handler  *)
(* (src/agency/telegram/handler.py), profile store and Bot API adapter.     *)
(*                                                                         *)
(* Telegram keeps the updates from the last offset it was asked for.  The   *)
(* bot fetches them, handles one after the other and moves its offset past  *)
(* an update when the handler's status is terminal.  In beta mode the       *)
(* offset is durable and every update is reserved in the quota ledger       *)
(* (here one row per update; see QuotaLedger) before anything is done.      *)
(* Each step up to the next await is one action; a fault is a crash, a      *)
(* failing transport, ledger or disk, or a competing poller.                *)
(***************************************************************************)
EXTENDS Naturals, Sequences, FiniteSets

CONSTANTS
    N,              \* bound: updates that users send
    MaxSeen,        \* _MAX_SEEN_IDS
    Limit,          \* updates in an answer of getUpdates
    MaxFaults       \* bound: faults

Updates == 1 .. N

\* What an update turns out to be: without an update_id, refused before any side
\* effect, /name, a command answered from system state, a command or request that
\* is answered with a refusal, a message for Butler.
Kinds == {"malformed", "blocked", "name", "command", "refused", "text"}

VARIABLES
    beta, kind,     \* the mode, and the kind of each update
    sent, confirmed,\* Telegram: updates sent, and the first it still keeps
    saved,          \* next_offset in the poll database, 0 if none
    row,            \* the request's row in the quota ledger
    names,          \* the updates that wrote the user's name, the last one counts
    up,             \* the process runs
    offset, seen,   \* _offset (0 for None) and _seen
    batch, pc, res, \* updates of the batch still to handle, where, with what status
    answered,       \* history: updates whose user got a reply
    dropped,        \* history: updates passed over because ledger or API failed
    faults

world  == <<beta, kind, sent, confirmed>>
disk   == <<saved, row, names>>
memory == <<up, offset, seen, batch, pc, res>>
past   == <<answered, dropped>>
vars   == <<world, disk, memory, past, faults>>

Init ==
    /\ beta \in BOOLEAN
    /\ kind \in [Updates -> Kinds]
    /\ sent = 0 /\ confirmed = 1
    /\ saved = 0 /\ row = [u \in Updates |-> "ABSENT"] /\ names = <<>>
    /\ up = TRUE /\ offset = 0 /\ seen = {}
    /\ batch = <<>> /\ pc = "poll" /\ res = "ok"
    /\ answered = {} /\ dropped = {} /\ faults = 0

\* A user sends the next update.
Send ==
    /\ sent < N
    /\ sent' = sent + 1
    /\ UNCHANGED <<beta, kind, confirmed, disk, memory, past, faults>>

u == Head(batch)

At(place) == up /\ pc = place /\ batch # <<>>

Fault == faults < MaxFaults /\ faults' = faults + 1

Goto(at) == pc' = at

\* The handler has its result, which decides whether the bot advances.
Result(r) == res' = r /\ Goto("advance")

MutContinues == Goto("next") /\ batch' = Tail(batch)

\* _poll_batch ends early: the rest of the batch is fetched again.
Transient == Goto("poll") /\ batch' = <<>>

-----------------------------------------------------------------------------
(* Fetching.                                                               *)

Larger(i, j) == IF i > j THEN i ELSE j
Smaller(i, j) == IF i < j THEN i ELSE j

\* Asking for an offset confirms all updates before it.
Fetch ==
    /\ up /\ pc = "poll"
    /\ confirmed' = Larger(confirmed, offset)
    /\ batch' = [i \in 1 .. Smaller(Limit, sent + 1 - confirmed') |-> confirmed' + i - 1]
    /\ Goto("next")
    /\ UNCHANGED <<beta, kind, sent, disk, up, offset, seen, res, past, faults>>

\* The answer is lost or an error; what was asked for may be confirmed.
FetchFails ==
    /\ up /\ pc = "poll" /\ Fault
    /\ confirmed' \in {confirmed, Larger(confirmed, offset)}
    /\ UNCHANGED <<beta, kind, sent, disk, memory, past>>

EndBatch ==
    /\ up /\ pc = "next" /\ batch = <<>>
    /\ Goto("poll")
    /\ UNCHANGED <<world, disk, up, offset, seen, batch, res, past, faults>>

Skipped == kind[u] = "malformed" \/ u \in seen \/ (offset # 0 /\ u < offset)

Skip ==
    /\ At("next") /\ Skipped
    /\ batch' = Tail(batch)
    /\ UNCHANGED <<world, disk, up, offset, seen, pc, res, past, faults>>

\* The handler starts.  What it refuses it refuses before any side effect.
Begin ==
    /\ At("next") /\ ~Skipped
    /\ \/ kind[u] = "blocked" /\ Result("rejected")
       \/ kind[u] # "blocked" /\ Goto(IF beta THEN "reserve" ELSE "run") /\ UNCHANGED res
    /\ UNCHANGED <<world, disk, up, offset, seen, batch, past, faults>>

-----------------------------------------------------------------------------
(* The handler in beta mode: _handle_polled_update.                        *)

MutReservesInterrupted == row[u] \in {"ABSENT", "RUNNING"}

\* reserve_request: any stored row makes the update a replay.
IsNew == row[u] = "ABSENT"

\* The user is over the quota or the update is a replay: a reply says so.
Reserve ==
    /\ At("reserve")
    /\ \/ IsNew /\ row' = [row EXCEPT ![u] = "RESERVED"] /\ Goto("mark")
       \/ UNCHANGED row /\ Goto("decline")
    /\ UNCHANGED <<world, saved, names, up, offset, seen, batch, res, past, faults>>

MarkRunning ==
    /\ At("mark")
    /\ row' = [row EXCEPT ![u] = "RUNNING"]
    /\ Goto("run")
    /\ UNCHANGED <<world, saved, names, up, offset, seen, batch, res, past, faults>>

\* The ledger is unavailable: the update is rejected without a reply.
LedgerFails ==
    /\ \E place \in {"reserve", "mark", "finish"} : At(place)
    /\ Fault
    /\ Result("rejected")
    /\ dropped' = dropped \cup {u}
    /\ UNCHANGED <<world, disk, up, offset, seen, batch, answered>>

FinishRequest ==
    /\ At("finish")
    /\ row' = [row EXCEPT ![u] = IF res = "ok" THEN "COMPLETED" ELSE "FAILED"]
    /\ Goto("advance")
    /\ UNCHANGED <<world, saved, names, up, offset, seen, batch, res, past, faults>>

-----------------------------------------------------------------------------
(* The handler in both modes: _handle_update.                              *)

\* In beta the model path is answered with a refusal.
Refusal == kind[u] = "refused" \/ (beta /\ kind[u] = "text")

Reply(r) == Goto("send") /\ res' = r

\* The profile database cannot be read: the user is told, the update stays pending.
ProfileUnavailable ==
    /\ At("run") /\ Fault
    /\ beta => kind[u] # "text"
    /\ Reply("error")
    /\ UNCHANGED <<world, disk, up, offset, seen, batch, past>>

\* /name writes the profile before the reply, or says that it could not.
NameCommand ==
    /\ At("run") /\ kind[u] = "name"
    /\ \/ names' = Append(names, u) /\ Reply("ok") /\ UNCHANGED faults
       \/ Fault /\ Reply(IF beta THEN "error" ELSE "ok") /\ UNCHANGED names
    /\ UNCHANGED <<world, saved, row, up, offset, seen, batch, past>>

\* Commands and refusals change nothing.
Command ==
    /\ At("run") /\ (kind[u] = "command" \/ Refusal)
    /\ Reply(IF Refusal THEN "rejected" ELSE "ok")
    /\ UNCHANGED <<world, disk, up, offset, seen, batch, past, faults>>

\* Butler answers, or its audit log is unavailable and the user is told so.
CallButler ==
    /\ At("run") /\ kind[u] = "text" /\ ~beta
    /\ \/ Reply("ok") /\ UNCHANGED faults
       \/ Fault /\ Reply("rejected")
    /\ UNCHANGED <<world, disk, up, offset, seen, batch, past>>

\* The handler raises: the update stays pending.
HandlerRaises ==
    /\ At("run") /\ Fault
    /\ Transient
    /\ UNCHANGED <<world, disk, up, offset, seen, res, past>>

\* send_message; a replay or a denial has no row of its own to finish.
SendReply ==
    /\ \/ At("send") /\ Goto(IF beta THEN "finish" ELSE "advance") /\ UNCHANGED res
       \/ At("decline") /\ Result("rejected")
    /\ answered' = answered \cup {u}
    /\ UNCHANGED <<world, disk, up, offset, seen, batch, dropped, faults>>

\* The transport fails, before or after the message was delivered, and the
\* update stays pending; an answer that is not a Bot API object is a ValueError,
\* which the beta handler takes for an unavailable budget.
SendFails ==
    /\ At("send") \/ At("decline")
    /\ Fault
    /\ answered' \in {answered, answered \cup {u}}
    /\ \/ Transient /\ UNCHANGED <<res, dropped>>
       \/ beta /\ Result("rejected") /\ dropped' = dropped \cup {u} /\ UNCHANGED batch
    /\ UNCHANGED <<world, disk, up, offset, seen>>

-----------------------------------------------------------------------------
(* Advancing.                                                              *)

MutOnlyOk(r) == r = "ok"

\* _ADVANCING_STATUSES.
Advances(r) == r \in {"ok", "ignored", "rejected"}

\* _seen keeps the updates that the offset does not rule out, the newest ones.
Remember(s, next) ==
    LET live == {i \in s : i >= next}
    IN  IF Cardinality(s) <= MaxSeen THEN s
        ELSE {i \in live : Cardinality({j \in live : j > i}) < MaxSeen}

\* The offset is saved, in beta mode, before it is used.
Advance ==
    /\ At("advance") /\ Advances(res)
    /\ offset' = Larger(offset, u + 1)
    /\ saved' = IF beta /\ u + 1 > offset THEN u + 1 ELSE saved
    /\ seen' = Remember(seen \cup {u}, offset')
    /\ batch' = Tail(batch)
    /\ Goto("next")
    /\ UNCHANGED <<world, row, names, up, res, past, faults>>

PersistFails ==
    /\ At("advance") /\ Advances(res) /\ beta /\ Fault
    /\ Transient
    /\ UNCHANGED <<world, disk, up, offset, seen, res, past>>

\* A status that is not terminal leaves the update pending.
StayPending ==
    /\ At("advance") /\ ~Advances(res)
    /\ Transient
    /\ UNCHANGED <<world, disk, up, offset, seen, res, past, faults>>

-----------------------------------------------------------------------------
(* The process.                                                            *)

\* The process dies, is stopped, or gives up polling because another poller
\* holds the bot.
Stop ==
    /\ up /\ Fault
    /\ up' = FALSE
    /\ batch' = <<>> /\ Goto("poll")
    /\ UNCHANGED <<world, disk, offset, seen, res, past>>

\* Only the beta mode has a poll database: otherwise nothing is saved.
Start ==
    /\ ~up
    /\ up' = TRUE
    /\ offset' = saved
    /\ seen' = {}
    /\ UNCHANGED <<world, disk, batch, pc, res, past, faults>>

-----------------------------------------------------------------------------
Work ==
    \/ Fetch \/ EndBatch \/ Skip \/ Begin
    \/ Reserve \/ MarkRunning \/ FinishRequest
    \/ NameCommand \/ Command \/ CallButler \/ SendReply
    \/ Advance \/ StayPending \/ Start

Fail == FetchFails \/ LedgerFails \/ ProfileUnavailable \/ HandlerRaises \/ SendFails \/ PersistFails \/ Stop

Next == Send \/ Work \/ Fail

\* The bot's loop runs, and a supervisor starts it again.
Fairness == WF_vars(Work)

Spec == Init /\ [][Next]_vars /\ Fairness

-----------------------------------------------------------------------------
(* Properties.                                                             *)

\* The state keeps its type and Telegram never hands out what is confirmed.
TypeOK ==
    /\ sent \in 0 .. N /\ confirmed \in 1 .. (N + 1)
    /\ saved \in 0 .. (N + 1) /\ offset \in 0 .. (N + 1)
    /\ row \in [Updates -> {"ABSENT", "RESERVED", "RUNNING", "COMPLETED", "FAILED"}]
    /\ \A i \in DOMAIN batch : batch[i] \in Updates
    /\ seen \subseteq Updates
    /\ names \in Seq(Updates)

\* No update is lost: once Telegram has forgotten one, or the bot will never ask
\* for it again, its user got a reply or it had been refused at the door; or, in
\* beta mode, the ledger or the API failed while it was handled.
NoneLost ==
    \A i \in Updates : i < Larger(confirmed, Larger(offset, saved)) =>
        kind[i] \in {"malformed", "blocked"} \/ i \in answered \/ (beta /\ i \in dropped)

\* In beta mode names are written once and in the order in which the user sent
\* them: whatever fails between the profile write, the reply, the ledger and the
\* offset, a redelivered update does not repeat its effect.  (Without the durable
\* offset a restart replays what Telegram still keeps, and an old name comes back.)
NameOnce ==
    beta => \A i, j \in DOMAIN names : i < j => names[i] < names[j]

\* Every update is passed in the end, although it stays pending when it fails:
\* unless updates without an id, which the bot cannot pass, fill its answers.
AllPassed ==
    Cardinality({i \in Updates : kind[i] = "malformed"}) < Limit =>
        \A i \in Updates : sent >= i /\ kind[i] # "malformed" ~> confirmed > i
=============================================================================
