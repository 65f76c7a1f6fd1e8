---------------------------- MODULE MCButlerTurns ----------------------------
(***************************************************************************)
(* Small instances of what the owner talks to: Butler's conversations, the   *)
(* owner's server with its launcher (OwnerServer), and the laboratory that   *)
(* the owner runs to examine a consensus engine (CometLab).  They share no   *)
(* state: the initial state chooses the one that moves.                      *)
(***************************************************************************)
EXTENDS ButlerTurns, CometLab, TLC

CONSTANTS o1, o2, h1, h2, t1, t2, Launchers, MaxEdits, MaxFaults

\* The window of the context engine holds a message at least (everybody uses its default of
\* 10), and so does a summary that was cut (6 lines of 310 characters fit into 2000); None is no thread, no owner and no row, and a thread is no owner.
ASSUME TurnsAssumption ==
    /\ Window \in Nat \ {0} /\ Lines \in Nat \ {0} /\ Past \in Nat /\ Spaces \in Nat \ {0}
    /\ None \notin Threads \cup Owners \cup Row /\ Owners \cap Threads = {}

\* The file is absent, empty, or holds the token of a launcher.
ASSUME ServerAssumption == Launchers \cap {"absent", "empty", None} = {}

VARIABLES focus, mode, config, file, proc, open, leaked, pilot, reply, edits, faults

Server == INSTANCE OwnerServer

server == <<mode, config, file, proc, open, leaked, pilot, reply, edits, faults>>

\* Owners, threads and calls of Butler are interchangeable.
Symmetry == Permutations(Owners) \cup Permutations(Threads) \cup Permutations(Tasks)

MCInit ==
    /\ focus \in {"butler", "server", "lab"}
    /\ Init /\ (focus # "butler" => msgs = <<>>)
    /\ Server!Init /\ (focus # "server" => mode = "owner")
    /\ LabInit /\ (focus # "lab" => sound)

MCNext ==
    \/ focus = "butler" /\ Next /\ UNCHANGED <<focus, server, lab>>
    \/ focus = "server" /\ Server!Next /\ UNCHANGED <<focus, vars, lab>>
    \/ focus = "lab" /\ LabNext /\ UNCHANGED <<focus, vars, server>>

MCSpec == MCInit /\ [][MCNext]_<<focus, vars, server, lab>>

\* ContextExact (the context of a turn tells of the messages its thread then had without a
\* gap, back to where the summary is cut), OwnersIsolated (owners stay apart) and Audited (nothing happens unaudited).
TurnsSound ==
    /\ [](focus = "butler" => ContextExact /\ OwnersIsolated)
    /\ [][focus = "butler" => Audited]_vars

\* OwnerServer's StopsFirst (the owner service never runs on a closed store), Released (when
\* serve() is over nothing is left open that could be closed), OneToken (all servers of a
\* data directory accept one token) and RequestsGuarded (what a request may cause).
ServerSound ==
    focus = "server" =>
        Server!StopsFirst /\ Server!Released /\ Server!OneToken /\ Server!RequestsGuarded

\* CometLab's PassIsTrue (a report that says PASS is true of the engine that ran) and
\* RejoinIsReal (the restarted node caught up before the quorum is taken away).
LabSound == focus = "lab" => PassIsTrue /\ RejoinIsReal
=============================================================================
