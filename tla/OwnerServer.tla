---------------------------- MODULE OwnerServer -----------------------------
(***************************************************************************)
(* The local web application (src/agency/prototype): the launcher that       *)
(* checks the data directory, makes the owner token and opens and closes the *)
(* stores (pilot_launcher.py), the application's lifespan and middleware     *)
(* (app.py) and the owner's HTTP boundary (owner_guard.py, pilot.py).        *)
(* Several launchers may be started on one data directory; the application   *)
(* also runs without owner, as a plain prototype.  What the owner service    *)
(* does with a request is the subject of OwnerPilot.                         *)
(***************************************************************************)
EXTENDS Naturals, Sequences, SequencesExt

CONSTANTS
    Launchers,  \* processes on one data directory, each started once
    MaxEdits,   \* bound: changes of the configuration file
    MaxFaults,  \* bound: crashes, cancellations and failing closes
    None

VARIABLES
    mode,    \* "owner": the launcher's application; "prototype": the application alone
    config,  \* version of the configuration file
    file,    \* owner.token: "absent", "empty", or the launcher that wrote it
    proc,    \* proc[l]: launcher l
    open,    \* open[l]: the resources l has open
    leaked,  \* leaked[l]: those whose close failed
    pilot,   \* pilot[l]: the owner service's state
    reply,   \* what the request being answered caused (nothing else happens meanwhile)
    edits, faults

server == <<mode, config, file, proc, open, leaked, pilot, reply, edits, faults>>

\* What serve() opens, in this order; each close is put on the exit stack.
Resources == <<"store", "threads", "backend", "budget", "audit", "orchestrator", "butler", "pilot">>

\* Closed by callbacks that are pushed before the resource is opened.
PushedFirst == {"store", "orchestrator"}

\* What the owner service works on.
Stores == {"store", "threads", "backend", "budget", "audit"}

NewProcess == [pc |-> "new", config |-> 0, token |-> None, stack |-> <<>>, umask |-> "old"]

Init ==
    /\ mode \in {"owner", "prototype"}
    /\ config = 1
    /\ file = "absent"
    /\ proc = [l \in Launchers |-> NewProcess]
    /\ open = [l \in Launchers |-> {}]
    /\ leaked = [l \in Launchers |-> {}]
    /\ pilot = [l \in Launchers |-> "off"]
    /\ reply = None
    /\ edits = 0 /\ faults = 0

Goto(l, pc) == proc' = [proc EXCEPT ![l].pc = pc]

Fault == faults < MaxFaults /\ faults' = faults + 1

-----------------------------------------------------------------------------
(* The launcher.                                                           *)

\* validate(): paths, permissions, an existing token and the configuration.  It opens
\* nothing; what it reads may be refused for any reason.
TokenValid == file # "empty"

Validate(l) ==
    /\ mode = "owner" /\ proc[l].pc = "new"
    /\ IF TokenValid
       THEN proc' = [proc EXCEPT ![l].pc = "valid", ![l].config = config]
       ELSE Goto(l, "refused")
    /\ UNCHANGED <<mode, config, file, open, leaked, pilot, reply, edits, faults>>

Refuse(l) ==
    /\ mode = "owner" /\ proc[l].pc \in {"new", "valid"}
    /\ Goto(l, "refused")
    /\ UNCHANGED <<mode, config, file, open, leaked, pilot, reply, edits, faults>>

\* serve() validates again and compares.
Serve(l) ==
    /\ proc[l].pc = "valid"
    /\ IF TokenValid /\ config = proc[l].config
       THEN proc' = [proc EXCEPT ![l].pc = "opening", ![l].umask = "private"]
       ELSE Goto(l, "refused")
    /\ UNCHANGED <<mode, config, file, open, leaked, pilot, reply, edits, faults>>

Opened(l) == Len(proc[l].stack)

\* The token is read or made between the first resource and the second.
Upcoming(l) == Opened(l) < Len(Resources) /\ (Opened(l) = 1 => proc[l].token # None)

\* The next resource is opened.
OpenNext(l) ==
    /\ proc[l].pc = "opening" /\ Upcoming(l)
    /\ LET r == Resources[Opened(l) + 1]
       IN  /\ proc' = [proc EXCEPT ![l].stack = Append(@, r)]
           /\ open' = [open EXCEPT ![l] = @ \cup {r}]
    /\ UNCHANGED <<mode, config, file, leaked, pilot, reply, edits, faults>>

\* It fails.  The store and the orchestrator may be half open, but their closes are on the
\* stack already; the thread store's constructor is followed by a close of its own.
OpenFails(l) ==
    /\ Fault
    /\ proc[l].pc = "opening" /\ Upcoming(l)
    /\ LET r == Resources[Opened(l) + 1]
       IN  IF r \in PushedFirst
           THEN /\ proc' = [proc EXCEPT ![l].stack = Append(@, r), ![l].pc = "closing"]
                /\ open' = [open EXCEPT ![l] = @ \cup {r}]
           ELSE Goto(l, "closing") /\ UNCHANGED open
    /\ UNCHANGED <<mode, config, file, leaked, pilot, reply, edits>>

\* Mutant: the file is made whether or not somebody else made it.
MutCreatesToken(l) == proc[l].token = None /\ file # l

\* os.open with O_EXCL: of two launchers one makes the file.
CreatesToken(l) == file = "absent"

CreateToken(l) ==
    /\ proc[l].pc = "opening" /\ Opened(l) = 1 /\ proc[l].token = None
    /\ CreatesToken(l)
    /\ file' = "empty"
    /\ Goto(l, "writing")
    /\ UNCHANGED <<mode, config, open, leaked, pilot, reply, edits, faults>>

WriteToken(l) ==
    /\ proc[l].pc = "writing"
    /\ file' = l
    /\ proc' = [proc EXCEPT ![l].pc = "opening", ![l].token = l]
    /\ UNCHANGED <<mode, config, open, leaked, pilot, reply, edits, faults>>

\* The file exists; one without a valid token ends the start.
ReadToken(l) ==
    /\ proc[l].pc = "opening" /\ Opened(l) = 1 /\ proc[l].token = None
    /\ file # "absent"
    /\ IF TokenValid THEN proc' = [proc EXCEPT ![l].token = file] ELSE Goto(l, "closing")
    /\ UNCHANGED <<mode, config, file, open, leaked, pilot, reply, edits, faults>>

\* The token's file or its directory is not private after all, or cannot be written.
TokenFails(l) ==
    /\ Fault
    /\ proc[l].pc = "writing"
    /\ Goto(l, "closing")
    /\ UNCHANGED <<mode, config, file, open, leaked, pilot, reply, edits>>

\* The lifespan of the application: the service starts, requests are served, it is stopped.
StartLifespan(l) ==
    /\ \/ proc[l].pc = "opening" /\ Opened(l) = Len(Resources) /\ pilot' = [pilot EXCEPT ![l] = "on"]
       \/ mode = "prototype" /\ proc[l].pc = "new" /\ UNCHANGED pilot
    /\ Goto(l, "serving")
    /\ UNCHANGED <<mode, config, file, open, leaked, reply, edits, faults>>

\* The server is told to stop, or is cancelled: the lifespan stops the service.
StopLifespan(l) ==
    /\ proc[l].pc = "serving"
    /\ pilot' = [pilot EXCEPT ![l] = IF @ = "on" THEN "stopped" ELSE @]
    /\ Goto(l, "closing")
    /\ UNCHANGED <<mode, config, file, open, leaked, reply, edits, faults>>

\* The stop in the lifespan fails or is cancelled; the one on the exit stack follows.
LifespanFails(l) ==
    /\ Fault
    /\ proc[l].pc = "serving"
    /\ Goto(l, "closing")
    /\ UNCHANGED <<mode, config, file, open, leaked, pilot, reply, edits>>

\* Mutant: closes run in the order of the opens.
MutNextClose(l) == Head(proc[l].stack)

\* The exit stack closes what was opened last.
NextClose(l) == Last(proc[l].stack)

\* _cleanup: one callback of the exit stack; a failing one does not stop the others (that
\* the owner service's stop() completes is shown with OwnerPilot).
Close(l, fails) ==
    /\ proc[l].pc = "closing" /\ proc[l].stack # <<>>
    /\ LET r == NextClose(l)
       IN  /\ proc' = [proc EXCEPT ![l].stack = Front(@)]
           /\ pilot' = [pilot EXCEPT ![l] = IF r = "pilot" /\ @ = "on" THEN "stopped" ELSE @]
           /\ IF fails
              THEN /\ Fault /\ r # "pilot"
                   /\ leaked' = [leaked EXCEPT ![l] = @ \cup {r}]
                   /\ UNCHANGED open
              ELSE /\ open' = [open EXCEPT ![l] = @ \ {r}]
                   /\ UNCHANGED <<leaked, faults>>
    /\ UNCHANGED <<mode, config, file, reply, edits>>

\* The stack is empty: serve() ends with the old umask.
Finish(l) ==
    /\ proc[l].pc = "closing" /\ proc[l].stack = <<>>
    /\ proc' = [proc EXCEPT ![l] = [NewProcess EXCEPT !.pc = "done"]]
    /\ UNCHANGED <<mode, config, file, open, leaked, pilot, reply, edits, faults>>

\* Mutant: a cancellation ends the cleanup.
MutCancelled(l) ==
    IF proc[l].pc = "closing" THEN [NewProcess EXCEPT !.pc = "done"]
    ELSE [proc[l] EXCEPT !.pc = "closing"]

\* A cancellation while resources are opened begins the cleanup; the cleanup itself is
\* shielded and drained, and the cancellation is raised after it.
Cancelled(l) == [proc[l] EXCEPT !.pc = "closing"]

Cancel(l) ==
    /\ Fault
    /\ proc[l].pc \in {"opening", "closing"}
    /\ proc' = [proc EXCEPT ![l] = Cancelled(l)]
    /\ UNCHANGED <<mode, config, file, open, leaked, pilot, reply, edits>>

\* The process is killed: nothing of it is left but the token file.
Crash(l) ==
    /\ Fault
    /\ proc[l].pc \notin {"new", "refused", "done"}
    /\ proc' = [proc EXCEPT ![l] = [NewProcess EXCEPT !.pc = "done"]]
    /\ open' = [open EXCEPT ![l] = {}]
    /\ leaked' = [leaked EXCEPT ![l] = {}]
    /\ pilot' = [pilot EXCEPT ![l] = "off"]
    /\ UNCHANGED <<mode, config, file, reply, edits>>

Edit ==
    /\ edits < MaxEdits /\ reply = None
    /\ edits' = edits + 1
    /\ config' = config + 1
    /\ UNCHANGED <<mode, file, proc, open, leaked, pilot, reply, faults>>

-----------------------------------------------------------------------------
(* Requests.                                                               *)

Paths == {"page", "shell", "session", "chat", "info", "pilot_get", "pilot_post"}

\* local: peer and Host are loopback; origin: of the same authority, of another port or
\* address of this machine, or foreign; token and csrf: what the caller presents.
Requests == [path : Paths, local : BOOLEAN, origin : {"none", "same", "local", "foreign"},
             token : Launchers \cup {None}, csrf : Launchers \cup {None}, json : BOOLEAN]

\* _authority and the comparison of both ends.
SameOrigin(r) == r.origin \in {"none", "same"}

\* _is_local_origin.
LocalOrigin(r) == r.origin # "foreign"

\* guard_owner_request: the bearer token, the origin, and for writes the CSRF token of
\* this process and a JSON body.
OwnerGuard(l, r, write) ==
    /\ proc[l].token # None /\ r.token = proc[l].token
    /\ SameOrigin(r)
    /\ write => r.csrf = l /\ r.json

\* _guard_chat_request.
ChatGuard(l, r) == LocalOrigin(r) /\ r.csrf = l /\ r.json

\* Mutant: the middleware leaves all /api paths to their handlers.
MutMiddleware(l, r) == r.local

\* The middleware, before the handler runs.
Middleware(l, r) ==
    /\ r.local
    /\ r.path = "shell" \/ (r.path = "session" /\ mode = "owner") => SameOrigin(r)
    /\ mode = "owner" => /\ r.path # "chat"
                         /\ r.path = "info" => OwnerGuard(l, r, FALSE)

\* What the handler of the path does.
Handler(l, r) ==
    CASE r.path \in {"page", "shell"} -> "static"
      [] r.path = "session" -> "csrf"
      [] r.path = "info" -> "roster"
      [] r.path = "chat" -> IF ChatGuard(l, r) THEN "chat" ELSE "refused"
      [] r.path = "pilot_get" -> IF mode = "owner" /\ OwnerGuard(l, r, FALSE) THEN "read" ELSE "refused"
      [] r.path = "pilot_post" -> IF mode = "owner" /\ OwnerGuard(l, r, TRUE) THEN "write" ELSE "refused"

Serving(l) == proc[l].pc = "serving" /\ reply = None

\* A request that is not refused; a refusal has no effect.
Request(l, r) ==
    /\ Serving(l)
    /\ Middleware(l, r) /\ Handler(l, r) # "refused"
    /\ reply' = [effect |-> Handler(l, r), origin |-> r.origin,
                 owner |-> r.token = file, csrf |-> r.csrf = l]
    /\ UNCHANGED <<mode, config, file, proc, open, leaked, pilot, edits, faults>>

Answered ==
    /\ reply # None
    /\ reply' = None
    /\ UNCHANGED <<mode, config, file, proc, open, leaked, pilot, edits, faults>>

-----------------------------------------------------------------------------
Start(l) == Validate(l) \/ Serve(l) \/ OpenNext(l) \/ CreateToken(l) \/ WriteToken(l) \/ ReadToken(l)

Shutdown(l) == Close(l, FALSE) \/ Finish(l)

Next ==
    \/ \E l \in Launchers : reply = None /\
       (\/ Start(l) \/ Refuse(l) \/ OpenFails(l) \/ TokenFails(l)
        \/ StartLifespan(l) \/ StopLifespan(l) \/ LifespanFails(l)
        \/ Shutdown(l) \/ Close(l, TRUE) \/ Cancel(l) \/ Crash(l))
    \/ \E l \in Launchers : Serving(l) /\ \E r \in Requests : Request(l, r)
    \/ Answered \/ Edit

-----------------------------------------------------------------------------
(* Properties.                                                             *)

\* The owner service never runs on a closed store: failures and cancellations at any
\* point of the start or of the cleanup stop the service first.
StopsFirst == \A l \in Launchers : pilot[l] = "on" => Stores \subseteq open[l]

\* When serve() is over, in whatever way and however often it was cancelled, nothing it
\* opened is open except what could not be closed, and the umask is the old one.
Released ==
    \A l \in Launchers :
        proc[l].pc \in {"refused", "done"} => open[l] \subseteq leaked[l] /\ proc[l].umask = "old"

\* All servers of a data directory accept the same token, the one in the file, however
\* their starts interleave and wherever one of them dies.
OneToken == \A l \in Launchers : proc[l].token # None => file = proc[l].token

\* What a request may cause.  With an owner only somebody who presents the token of the
\* data directory learns or causes anything, and the unguarded chat is shut; without one
\* the owner's routes are shut.  Whatever has an effect carries this process's CSRF token;
\* the middleware and the guards of the handlers leave no path between them.
RequestsGuarded ==
    reply # None =>
        /\ reply.effect \in {"chat", "write"} => reply.csrf /\ reply.origin # "foreign"
        /\ mode = "owner" /\ reply.effect # "static"
               => reply.effect # "chat" /\ reply.origin \notin {"local", "foreign"}
        /\ mode = "owner" /\ reply.effect \in {"roster", "read", "write"} => reply.owner
        /\ mode = "prototype" => reply.effect \notin {"read", "write"}
=============================================================================
