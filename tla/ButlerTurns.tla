----------------------------- MODULE ButlerTurns -----------------------------
(***************************************************************************)
(* The conversational turns of Butler (butler/service.py), its thread       *)
(* commands (commands.py), the context engine (context.py) and the thread    *)
(* store (threads.py).                                                      *)
(*                                                                         *)
(* A call acknowledges an audit entry before each thing it does, assembles   *)
(* the context of its thread from a rolling summary and a window of         *)
(* verbatim messages, has an agent execute the request, and stores request  *)
(* and reply.  The thread store is synchronous; calls interleave at the     *)
(* audit log, the memory store and the execution.  A call can be abandoned  *)
(* at every await: its audit entry fails, its client goes away, a metered   *)
(* call is denied.                                                          *)
(***************************************************************************)
EXTENDS Naturals, Sequences, FiniteSets

CONSTANTS
    Owners, Threads, Tasks,
    Spaces,                 \* bound: workspaces of an owner
    Window,                 \* verbatim messages that the context engine keeps
    Lines,                  \* messages that a summary cut to its last characters has at least
    Past,                   \* bound: turns stored before the first call
    MaxTurns, MaxStops,     \* bounds: calls, and stops or crashes
    None

VARIABLES
    spaces,     \* number of workspaces of each owner
    thread,     \* row of each thread, None before it is created
    active,     \* active_threads
    msgs,       \* thread_messages in the order of their rowids
    summary,    \* per thread: up_to_rowid and the messages its text still tells of
    recall,     \* the memory store: turns remembered for a thread or an owner
    up,         \* _started, with audit log and thread store open
    epoch,      \* number of stops: older context engines hold a closed store
    turns,      \* calls so far
    pc, call    \* where each call stands; its arguments, locals and (history)
                \* the audit entries that were acknowledged to it

store   == <<spaces, thread, active, msgs, summary, recall>>
service == <<up, epoch, turns>>
vars    == <<store, service, pc, call>>

Row == [owner : Owners, space : 1 .. Spaces, parent : Threads \cup {None}]

NoContext == [thread |-> None, at |-> 0, summary |-> {}, window |-> {}, recall |-> {}]
NoCall == [op |-> "none", owner |-> None, thread |-> None, turn |-> 0, epoch |-> 0,
           context |-> NoContext, acks |-> {}]

\* The file is new, or holds a thread with earlier turns (numbered 0) that are not
\* summarized yet.
Init ==
    /\ \/ /\ spaces = [o \in Owners |-> 0]
          /\ thread = [i \in Threads |-> None]
          /\ msgs = <<>>
       \/ \E o \in Owners, i \in Threads, n \in 1 .. Past :
             /\ spaces = [x \in Owners |-> IF x = o THEN 1 ELSE 0]
             /\ thread = [x \in Threads |-> IF x # i THEN None ELSE
                            [owner |-> o, space |-> 1, parent |-> None]]
             /\ msgs = [k \in 1 .. 2 * n |-> [thread |-> i, turn |-> 0,
                            role |-> IF k % 2 = 1 THEN "user" ELSE "assistant"]]
    /\ active = [o \in Owners |-> None]
    /\ summary = [i \in Threads |-> [upto |-> 0, text |-> {}]]
    /\ recall = [x \in Threads \cup Owners |-> {}]
    /\ up = FALSE /\ epoch = 0 /\ turns = 0
    /\ pc = [t \in Tasks |-> "idle"]
    /\ call = [t \in Tasks |-> NoCall]

-----------------------------------------------------------------------------
(* The thread store.                                                       *)

MutAnyOwner(o, i) == thread[i] # None

\* _thread_row_or_raise: an unknown thread and a foreign one are the same.
Authorized(o, i) == thread[i] # None /\ thread[i].owner = o

\* list_message_rows: the rowids of a thread's messages.
Rows(i) == {r \in 1 .. Len(msgs) : msgs[r].thread = i}

\* The rows but for the last n of them.
AllBut(n, rows) == {r \in rows : Cardinality({q \in rows : q > r}) >= n}

Last(rows) == CHOOSE r \in rows : \A q \in rows : q <= r

\* Both rows of a turn are appended without an await between them.
Appended(i, turn, roles) ==
    msgs \o [k \in 1 .. Len(roles) |-> [thread |-> i, turn |-> turn, role |-> roles[k]]]

\* _summarize_lines: one line per message, all of them or the last _MAX_SUMMARY_CHARS
\* characters, in which some of the latest lines are whole: how many depends on their length.
Clipped(rows) == {rows} \cup {{r \in rows : r >= from} : from \in AllBut(Lines - 1, rows)}

\* summarize_prefix and set_summary: the summaries of the messages up to a boundary.
Summarized(i, upto) ==
    {[summary EXCEPT ![i] = [upto |-> upto, text |-> text]] :
        text \in Clipped({r \in Rows(i) : r <= upto})}

\* A trusted caller creates a workspace.
CreateWorkspace(o) ==
    /\ spaces[o] < Spaces
    /\ spaces' = [spaces EXCEPT ![o] = @ + 1]
    /\ UNCHANGED <<thread, active, msgs, summary, recall, service, pc, call>>

\* A trusted caller creates a thread or a branch, in the parent's workspace.
CreateThread(o, i, space, parent) ==
    /\ thread[i] = None /\ space <= spaces[o]
    /\ parent # None => Authorized(o, parent) /\ thread[parent].space = space
    /\ thread' = [thread EXCEPT ![i] = [owner |-> o, space |-> space, parent |-> parent]]
    /\ UNCHANGED <<spaces, active, msgs, summary, recall, service, pc, call>>

-----------------------------------------------------------------------------
(* The chain of audit entries.                                             *)

\* The call goes on to its next await with the locals c, or it returns.
Go(t, place, c) ==
    /\ pc' = [pc EXCEPT ![t] = place]
    /\ call' = [call EXCEPT ![t] = IF place = "idle" THEN NoCall ELSE c]

Goto(t, place) == Go(t, place, call[t])

\* _audit_append returns: the entry is in the log.
Acked(t) == [call[t] EXCEPT !.acks = @ \cup {pc[t]}]

Acknowledged(t, action, place) == up /\ pc[t] = action /\ Go(t, place, Acked(t))

Commands == {"new", "switch", "look"}
Ops == {"message", "public", "isolated"} \cup Commands

\* A call arrives and starts the service if need be; a thread that is not the
\* sender's is refused before anything happens.  Public calls come without
\* commands, isolated ones without thread and memory.
Receive(t, op, o, i) ==
    /\ pc[t] = "idle" /\ turns < MaxTurns
    /\ i # None => Authorized(o, i) /\ op \in {"message", "public"}
    /\ up' = TRUE /\ turns' = turns + 1
    /\ Go(t, "request", [NoCall EXCEPT !.op = op, !.owner = o, !.thread = i, !.turn = turns'])
    /\ UNCHANGED <<store, epoch>>

\* /new makes a thread in the oldest workspace, or in a first one, and activates it.
CommandNew(t, i) ==
    LET o == call[t].owner
    IN  /\ call[t].op = "new" /\ thread[i] = None
        /\ Acknowledged(t, "request", "command")
        /\ spaces' = [spaces EXCEPT ![o] = IF @ = 0 THEN 1 ELSE @]
        /\ thread' = [thread EXCEPT ![i] = [owner |-> o, space |-> 1, parent |-> None]]
        /\ active' = [active EXCEPT ![o] = i]
        /\ UNCHANGED <<msgs, summary, recall, service>>

\* /switch activates an own thread that its argument names unambiguously.
CommandSwitch(t, i) ==
    /\ call[t].op = "switch" /\ Authorized(call[t].owner, i)
    /\ Acknowledged(t, "request", "command")
    /\ active' = [active EXCEPT ![call[t].owner] = i]
    /\ UNCHANGED <<spaces, thread, msgs, summary, recall, service>>

\* /threads and /current only read, and so do commands that fail: a missing title,
\* an unknown or ambiguous one, an unknown command.
CommandOnlyReplies(t) ==
    /\ call[t].op \in Commands
    /\ Acknowledged(t, "request", "command")
    /\ UNCHANGED <<store, service>>

CommandEnds(t) ==
    /\ Acknowledged(t, "command", "idle")
    /\ UNCHANGED <<store, service>>

-----------------------------------------------------------------------------
(* The context of a turn.                                                  *)

\* An explicit thread wins; the active one counts where commands are enabled.
CurrentThread(t) ==
    IF call[t].thread # None \/ call[t].op # "message"
    THEN call[t].thread ELSE active[call[t].owner]

MutBoundary(i) == AllBut(Window + 1, Rows(i))

\* The messages behind the verbatim window.
Behind(i) == AllBut(Window, Rows(i))

Lags(i) == Behind(i) # {} /\ summary[i].upto < Last(Behind(i))

Context(i, sum) ==
    LET new == {r \in Rows(i) : r > sum.upto}
    IN  [thread |-> i, at |-> Len(msgs), summary |-> sum.text,
         window |-> new \ AllBut(Window, new), recall |-> {}]

\* assemble: the stored summary is first extended to all messages behind the window.
AssembleThread(t) ==
    LET i == CurrentThread(t)
    IN  /\ up /\ pc[t] = "request"
        /\ call[t].op \in {"message", "public"} /\ i # None
        /\ summary' \in IF Lags(i) THEN Summarized(i, Last(Behind(i))) ELSE {summary}
        /\ Go(t, "recall", [Acked(t) EXCEPT !.context = Context(i, summary'[i]),
                                            !.thread = i, !.epoch = epoch])
        /\ UNCHANGED <<spaces, thread, active, msgs, recall, service>>

\* Without a thread there is no context but what the memory recalls.
AssembleNothing(t) ==
    /\ call[t].op \notin Commands /\ CurrentThread(t) = None
    /\ Acknowledged(t, "request", IF call[t].op = "message" THEN "recall" ELSE "route_intent")
    /\ UNCHANGED <<store, service>>

\* Where a turn is remembered: under its thread, or under its sender.
Place(t) == IF call[t].thread # None THEN call[t].thread ELSE call[t].owner

\* The search finds something or nothing; it never fails the turn.
Recall(t) ==
    /\ pc[t] = "recall"
    /\ \E found \in {{}, recall[Place(t)]} :
          Go(t, "route_intent", [call[t] EXCEPT !.context = [@ EXCEPT !.recall = found]])
    /\ UNCHANGED <<store, service>>

-----------------------------------------------------------------------------
(* Routing and execution.                                                  *)

\* The router, or a model that it falls back from, picks an agent.
Route(t) ==
    /\ Acknowledged(t, "route_intent", "route")
    /\ UNCHANGED <<store, service>>

\* The isolated path has no intent of its own.
Routed(t) ==
    /\ Acknowledged(t, "route", IF call[t].op = "isolated" THEN "executing" ELSE "execute_intent")
    /\ UNCHANGED <<store, service>>

Execute(t) ==
    /\ Acknowledged(t, "execute_intent", "executing")
    /\ UNCHANGED <<store, service>>

\* The result is audited on its own, which an exception and the isolated path skip.
ExecuteEnds(t) ==
    /\ pc[t] = "executing"
    /\ Goto(t, "handle") \/ (call[t].op # "isolated" /\ Goto(t, "execute"))
    /\ UNCHANGED <<store, service>>

ResultAudited(t) ==
    /\ Acknowledged(t, "execute", "handle")
    /\ UNCHANGED <<store, service>>

\* The timeout covers the intent, the execution and the audit entry of the result.
TimesOut(t) ==
    /\ pc[t] \in {"execute_intent", "executing", "execute"}
    /\ Goto(t, "handle")
    /\ UNCHANGED <<store, service>>

-----------------------------------------------------------------------------
(* Storing the turn.                                                       *)

MutStoresOnRequest == "request"

\* The turn is stored once the gateway's entry on its outcome is acknowledged.
StoresAfter == "handle"

\* A context engine from before a stop holds a closed store: its turn raises after it
\* was stored.
StoreTurn(t) ==
    LET i == call[t].thread
    IN  /\ i # None
        /\ Acknowledged(t, StoresAfter, IF call[t].epoch = epoch THEN "mirror" ELSE "idle")
        /\ msgs' = Appended(i, call[t].turn, <<"user", "assistant">>)
        /\ UNCHANGED <<spaces, thread, active, summary, recall, service>>

\* Each message is a transaction: the first or the second one fails and raises.
StoreFails(t) ==
    LET i == call[t].thread
    IN  /\ i # None
        /\ Acknowledged(t, StoresAfter, "idle")
        /\ msgs' \in {msgs, Appended(i, call[t].turn, <<"user">>)}
        /\ UNCHANGED <<spaces, thread, active, summary, recall, service>>

\* A turn without thread is remembered for its sender, if memory is enabled.
StoreNothing(t) ==
    /\ call[t].thread = None
    /\ Acknowledged(t, "handle", IF call[t].op = "message" THEN "mirror" ELSE "idle")
    /\ UNCHANGED <<store, service>>

\* Once a thread holds two windows all but the last one are summarized; best effort.
Summarize(i) ==
    \/ UNCHANGED summary
    \/ /\ i # None /\ Cardinality(Rows(i)) >= 2 * Window /\ Behind(i) # {}
       /\ summary' \in Summarized(i, Last(Behind(i)))

\* record_turn or _store_turn, both best effort, and then _maybe_summarize.
Remember(t) ==
    /\ pc[t] = "mirror"
    /\ \E new \in {{}, {call[t].turn}} :
          recall' = [recall EXCEPT ![Place(t)] = @ \cup new]
    /\ Summarize(call[t].thread)
    /\ Goto(t, "idle")
    /\ UNCHANGED <<spaces, thread, active, msgs, service>>

-----------------------------------------------------------------------------
(* Failures.                                                               *)

\* The entry is not acknowledged, though it may be in the log, or the call is cancelled.
Abandon(t) ==
    /\ pc[t] # "idle"
    /\ Goto(t, "idle")
    /\ UNCHANGED <<store, service>>

\* stop() closes audit log and thread store under the calls in flight.
Stop ==
    /\ up /\ epoch < MaxStops
    /\ up' = FALSE /\ epoch' = epoch + 1
    /\ UNCHANGED <<store, turns, pc, call>>

Kill ==
    /\ up /\ epoch < MaxStops
    /\ up' = FALSE /\ epoch' = epoch + 1
    /\ pc' = [t \in Tasks |-> "idle"]
    /\ call' = [t \in Tasks |-> NoCall]
    /\ UNCHANGED <<store, turns>>

Step(t) ==
    \/ \E op \in Ops, o \in Owners, i \in Threads \cup {None} : Receive(t, op, o, i)
    \/ \E i \in Threads : CommandNew(t, i) \/ CommandSwitch(t, i)
    \/ CommandOnlyReplies(t) \/ CommandEnds(t)
    \/ AssembleThread(t) \/ AssembleNothing(t) \/ Recall(t)
    \/ Route(t) \/ Routed(t)
    \/ Execute(t) \/ ExecuteEnds(t) \/ ResultAudited(t) \/ TimesOut(t)
    \/ StoreTurn(t) \/ StoreFails(t) \/ StoreNothing(t) \/ Remember(t)
    \/ Abandon(t)

Next ==
    \/ \E t \in Tasks : Step(t)
    \/ \E o \in Owners : CreateWorkspace(o)
    \/ \E o \in Owners, i \in Threads, s \in 1 .. Spaces, p \in Threads \cup {None} :
          CreateThread(o, i, s, p)
    \/ Stop \/ Kill

Spec == Init /\ [][Next]_vars

-----------------------------------------------------------------------------
(* Properties.                                                             *)

\* The no-gap guarantee of assemble, up to the cap of the summary: the context of a turn
\* tells of no message twice, and what it does not tell of is older than all it tells of
\* and was cut from a summary of which the latest lines remained; although turns of the
\* same thread finish in between, summaries fail, and messages are left without a reply.
ContextExact ==
    \A t \in Tasks :
        LET c    == call[t].context
            all  == {r \in 1 .. c.at : msgs[r].thread = c.thread}
            told == c.summary \cup c.window
        IN  /\ told \subseteq all /\ c.summary \cap c.window = {}
            /\ \A r \in all \ told : \A q \in told : r < q
            /\ all # told => Cardinality(c.summary) >= Lines
            /\ Cardinality(c.window) <= Window
            /\ c.summary # {} => c.window # {}

\* Nothing is executed before its request, its routing and (isolated turns have none)
\* its intent are in the audit log; nothing is stored or remembered before its outcome.
Audited ==
    LET has == [t \in Tasks |-> {"request", "route_intent", "route"} \subseteq call'[t].acks]
    IN  /\ \A t \in Tasks : pc'[t] = "executing" =>
              has[t] /\ ("execute_intent" \in call'[t].acks \/ call'[t].op = "isolated")
        /\ msgs' # msgs => \E t \in Tasks :
              pc[t] = "handle" /\ {"request", "route_intent", "route"} \subseteq call[t].acks
        /\ recall' # recall => \E t \in Tasks : "handle" \in call[t].acks

\* Owners are isolated: calls work in threads of their sender and see what was said
\* there, branches come from own threads, the active thread is one's own; and a reply
\* directly follows its request, whatever other calls do meanwhile.
OwnersIsolated ==
    /\ \A t \in Tasks : LET c == call[t] IN
          /\ c.thread # None => Authorized(c.owner, c.thread)
          /\ c.thread # None => \A turn \in c.context.recall :
                \E r \in DOMAIN msgs : msgs[r].turn = turn /\ msgs[r].thread = c.thread
    /\ \A o \in Owners : active[o] # None => thread[active[o]].owner = o
    /\ \A i \in Threads : thread[i] # None /\ thread[i].parent # None =>
          thread[thread[i].parent].owner = thread[i].owner
    /\ \A r \in DOMAIN msgs : msgs[r].role = "assistant" =>
          r > 1 /\ msgs[r - 1] = [msgs[r] EXCEPT !.role = "user"]
=============================================================================
