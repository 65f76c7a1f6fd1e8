------------------------ MODULE MCButlerTurns_proofs ------------------------
(***************************************************************************)
(* Proofs about what the owner talks to, as MCButlerTurns composes it.       *)
(*                                                                         *)
(* The server and its launcher (OwnerServer), for any number of launchers    *)
(* on one data directory, edits and faults: ServerInv says what the exit     *)
(* stack of a launcher holds in each of its states, and who may write the    *)
(* token.                                                                   *)
(*                                                                         *)
(* Butler's conversations (ButlerTurns), for any owners, threads, calls and  *)
(* window: TurnsInv says what a summary tells of, which entries were         *)
(* acknowledged to a call when it stands somewhere, and what it can rely on  *)
(* while others append messages and create threads.                         *)
(*                                                                         *)
(* The consensus laboratory (CometLab), for any engine that sends only what   *)
(* it was given and any number of blocks and deaths: LabInv says what the    *)
(* harness knows of the chain at each instruction of its plan.               *)
(***************************************************************************)
EXTENDS MCButlerTurns, Integers, FiniteSetTheorems, SequenceTheorems, WellFoundedInduction, TLAPS

Places ==
    {"new", "valid", "refused", "opening", "writing", "serving", "closing", "done"}

Names == {"store", "threads", "backend", "budget", "audit", "orchestrator", "butler", "pilot"}

Launcher == [pc : Places, config : Nat, token : Launchers \cup {None}, stack : Seq(Names),
             umask : {"old", "private"}]

ServerType ==
    /\ proc \in [Launchers -> Launcher] /\ config \in Nat
    /\ file \in {"absent", "empty"} \cup Launchers
    /\ open \in [Launchers -> SUBSET Names] /\ leaked \in [Launchers -> SUBSET Names]
    /\ pilot \in [Launchers -> {"off", "on", "stopped"}]

\* What a launcher has open: the resources on its exit stack and what it could
\* not close.  Who is not started or over has nothing on the stack, and while
\* the service is on everything is.
StackOk(s, o, k) ==
    /\ Len(s) <= 8 /\ \A i \in 1 .. Len(s) : s[i] = Server!Resources[i]
    /\ \A i \in 1 .. Len(s) : Server!Resources[i] \in o
    /\ \A r \in o : r \in k \/ \E i \in 1 .. Len(s) : r = Server!Resources[i]

StackInv ==
    \A l \in Launchers :
        /\ StackOk(proc[l].stack, open[l], leaked[l])
        /\ proc[l].pc \in {"new", "valid", "refused", "done"} =>
               proc[l].stack = <<>> /\ proc[l].umask = "old"
        /\ pilot[l] = "on" => proc[l].pc \in {"serving", "closing"} /\ Len(proc[l].stack) = 8

\* Who has a token has the one in the file; one launcher writes it, when
\* nobody has one.
TokenInv ==
    /\ Server!OneToken
    /\ \A l \in Launchers : proc[l].pc = "writing" => file = "empty"
    /\ \A l, m \in Launchers : proc[l].pc = "writing" /\ proc[m].pc = "writing" => l = m

ServerInv == ServerType /\ StackInv /\ TokenInv /\ Server!RequestsGuarded

USE ServerAssumption

\* What serve() opens: eight resources, the stores first and the service last.
LEMMA ResourceFacts ==
    /\ Len(Server!Resources) = 8 /\ \A i \in 1 .. 8 : Server!Resources[i] \in Names
    /\ \A i, j \in 1 .. 8 : Server!Resources[i] = Server!Resources[j] => i = j
    /\ \A i \in 1 .. 8 : Server!Resources[i] = "pilot" <=> i = 8
    /\ \A r \in Server!Stores : \E i \in 1 .. 8 : r = Server!Resources[i]
<1> DEFINE R == Server!Resources
<1>1. /\ Len(R) = 8 /\ R[1] = "store" /\ R[2] = "threads" /\ R[3] = "backend" /\ R[4] = "budget"
      /\ R[5] = "audit" /\ R[6] = "orchestrator" /\ R[7] = "butler" /\ R[8] = "pilot"
  BY DEF Server!Resources
<1> HIDE DEF R
<1>2. \A i \in 1 .. 8 : i = 1 \/ i = 2 \/ i = 3 \/ i = 4 \/ i = 5 \/ i = 6 \/ i = 7 \/ i = 8
  OBVIOUS
<1>3. \A i \in 1 .. 8 : R[i] \in Names
  BY <1>1, <1>2 DEF Names
<1>4. \A i \in 1 .. 8 : R[i] = "pilot" <=> i = 8
  BY <1>1, <1>2
<1>5. \A i, j \in 1 .. 8 : R[i] = R[j] => i = j
  BY <1>1, <1>2
<1>6. \A r \in Server!Stores : \E i \in 1 .. 8 : r = R[i]
  BY <1>1 DEF Server!Stores
<1> QED
  BY <1>1, <1>3, <1>4, <1>5, <1>6 DEF R

\* An open puts the next resource on the stack.
LEMMA PushOk ==
    ASSUME NEW s \in Seq(Names), NEW o \in SUBSET Names, NEW k \in SUBSET Names,
           StackOk(s, o, k), Len(s) < 8
    PROVE  LET r == Server!Resources[Len(s) + 1]
           IN  /\ Append(s, r) \in Seq(Names) /\ o \cup {r} \in SUBSET Names
               /\ StackOk(Append(s, r), o \cup {r}, k) /\ Len(Append(s, r)) = Len(s) + 1
<1> DEFINE r == Server!Resources[Len(s) + 1]
           t == Append(s, r)
<1>1. Len(s) \in Nat /\ Len(s) + 1 \in 1 .. 8
  OBVIOUS
<1>2. r \in Names
  BY <1>1, ResourceFacts
<1>3. t \in Seq(Names) /\ Len(t) = Len(s) + 1 /\ t[Len(s) + 1] = r
      /\ \A i \in 1 .. Len(s) : t[i] = s[i]
  BY <1>2
<1>4. \A i \in 1 .. (Len(s) + 1) : i \in 1 .. Len(s) \/ i = Len(s) + 1
  BY <1>1
<1>5. \A i \in 1 .. Len(s) : i \in 1 .. (Len(s) + 1)
  BY <1>1
<1>6. Len(s) + 1 \in 1 .. (Len(s) + 1)
  BY <1>1
<1> HIDE DEF t
<1>7. StackOk(t, o \cup {r}, k)
  BY <1>1, <1>3, <1>4, <1>5, <1>6 DEF StackOk
<1> QED
  BY <1>2, <1>3, <1>7 DEF t

\* A close takes the last resource off the stack, closed or not.
LEMMA PopOk ==
    ASSUME NEW s \in Seq(Names), NEW o \in SUBSET Names, NEW k \in SUBSET Names,
           StackOk(s, o, k), s # <<>>
    PROVE  LET r == Server!Last(s)
               t == Server!Front(s)
           IN  /\ r \in Names /\ t \in Seq(Names) /\ Len(t) < 8
               /\ StackOk(t, o \ {r}, k) /\ StackOk(t, o, k \cup {r})
               /\ Len(s) = 8 <=> r = "pilot"
<1> DEFINE r == Server!Last(s)
           t == Server!Front(s)
<1>1. Len(s) \in 1 .. 8 /\ Len(s) \in Nat
  <2>1. Len(s) \in Nat /\ Len(s) # 0
    BY EmptySeq
  <2>2. Len(s) <= 8
    BY DEF StackOk
  <2>3. \A n \in Nat : n # 0 /\ n <= 8 => n \in 1 .. 8
    OBVIOUS
  <2> QED
    BY <2>1, <2>2, <2>3
<1>2. r = Server!Resources[Len(s)]
  BY <1>1 DEF StackOk, Server!Last
<1>3. r \in Names /\ (Len(s) = 8 <=> r = "pilot")
  BY <1>1, <1>2, ResourceFacts
<1>4. t \in Seq(Names) /\ Len(t) = Len(s) - 1 /\ \A i \in 1 .. (Len(s) - 1) : t[i] = s[i]
  <2>1. t = SubSeq(s, 1, Len(s) - 1)
    BY DEF Server!Front
  <2>2. PICK n \in Int : n = Len(s) - 1 /\ n >= 0
    BY <1>1
  <2>3. \A i \in 1 .. n : i \in 1 .. Len(s)
    BY <1>1, <2>2
  <2>4. \A i \in 1 .. n : s[i] \in Names
    BY <2>3
  <2>5. /\ SubSeq(s, 1, n) \in Seq(Names)
        /\ Len(SubSeq(s, 1, n)) = IF 1 <= n THEN n - 1 + 1 ELSE 0
        /\ \A i \in 1 .. n - 1 + 1 : SubSeq(s, 1, n)[i] = s[1 + i - 1]
    BY <2>4, SubSeqProperties
  <2>6. \A i \in 1 .. n : 1 + i - 1 = i
    OBVIOUS
  <2>7. n - 1 + 1 = n /\ (~(1 <= n) => n = 0)
    BY <2>2
  <2>8. Len(SubSeq(s, 1, n)) = n /\ \A i \in 1 .. n : SubSeq(s, 1, n)[i] = s[i]
    BY <2>5, <2>6, <2>7
  <2> QED
    BY <2>1, <2>2, <2>5, <2>8
<1>5. \A i \in 1 .. (Len(s) - 1) : i \in 1 .. Len(s) /\ i \in 1 .. 8 /\ i # Len(s)
  <2>1. PICK n : n = Len(s)
    OBVIOUS
  <2>2. \A i \in 1 .. (n - 1) : i \in 1 .. n /\ i \in 1 .. 8 /\ i # n
    BY <1>1, <2>1
  <2> QED
    BY <2>1, <2>2
<1>6. \A i \in 1 .. Len(s) : i \in 1 .. (Len(s) - 1) \/ i = Len(s)
  BY <1>1
<1>7. \A i \in 1 .. (Len(s) - 1) : Server!Resources[i] # r
  BY <1>1, <1>2, <1>5, ResourceFacts
<1> HIDE DEF r, t
<1>8. StackOk(t, o \ {r}, k)
  BY SMTT(30), <1>1, <1>2, <1>4, <1>5, <1>6, <1>7 DEF StackOk
<1>9. StackOk(t, o, k \cup {r})
  BY <1>1, <1>2, <1>4, <1>5, <1>6 DEF StackOk
<1> QED
  BY SMTT(30), <1>1, <1>3, <1>4, <1>8, <1>9 DEF r, t

\* Nothing on the stack, nothing open.
LEMMA EmptyOk == \A k : StackOk(<<>>, {}, k)
  BY DEF StackOk

\* A launcher that is over has nothing.
LEMMA EmptyStack ==
    LET p == [Server!NewProcess EXCEPT !.pc = "done"]
    IN  p \in Launcher /\ p.pc = "done" /\ p.stack = <<>> /\ p.token = None /\ p.umask = "old"
<1>1. <<>> \in Seq(Names)
  BY EmptySeq
<1> QED
  BY <1>1 DEF Server!NewProcess, Launcher, Places

\* What is known of a launcher in any state.
LEMMA LauncherFacts ==
    ASSUME ServerInv, NEW l \in Launchers
    PROVE  /\ proc[l] \in Launcher /\ open[l] \in SUBSET Names /\ leaked[l] \in SUBSET Names
           /\ pilot[l] \in {"off", "on", "stopped"}
           /\ proc[l].stack \in Seq(Names) /\ proc[l].pc \in Places
           /\ StackOk(proc[l].stack, open[l], leaked[l])
           /\ proc[l].pc \in {"new", "valid", "refused", "done"} =>
                  proc[l].stack = <<>> /\ proc[l].umask = "old"
           /\ pilot[l] = "on" => proc[l].pc \in {"serving", "closing"} /\ Len(proc[l].stack) = 8
           /\ file \in {"absent", "empty"} \cup Launchers /\ config \in Nat
           /\ pilot \in [Launchers -> {"off", "on", "stopped"}]
<1>1. /\ proc[l] \in Launcher /\ open[l] \in SUBSET Names /\ leaked[l] \in SUBSET Names
      /\ pilot[l] \in {"off", "on", "stopped"}
      /\ file \in {"absent", "empty"} \cup Launchers /\ config \in Nat
      /\ pilot \in [Launchers -> {"off", "on", "stopped"}]
  BY DEF ServerInv, ServerType
<1>2. proc[l].stack \in Seq(Names) /\ proc[l].pc \in Places
  BY <1>1 DEF Launcher
<1> QED
  BY <1>1, <1>2 DEF ServerInv, StackInv

\* One launcher moves: its record, its resources and its service afterwards.
Moves(l, p, o, k, v) ==
    /\ proc' = [proc EXCEPT ![l] = p] /\ open' = [open EXCEPT ![l] = o]
    /\ leaked' = [leaked EXCEPT ![l] = k] /\ pilot' = [pilot EXCEPT ![l] = v]

\* What has to be shown of them.
LEMMA LauncherStep ==
    ASSUME ServerType, StackInv, NEW l \in Launchers, NEW p \in Launcher,
           NEW o \in SUBSET Names, NEW k \in SUBSET Names, NEW v \in {"off", "on", "stopped"},
           Moves(l, p, o, k, v),
           UNCHANGED config, file' \in {"absent", "empty"} \cup Launchers,
           StackOk(p.stack, o, k),
           p.pc \in {"new", "valid", "refused", "done"} => p.stack = <<>> /\ p.umask = "old",
           v = "on" => p.pc \in {"serving", "closing"} /\ Len(p.stack) = 8
    PROVE  ServerType' /\ StackInv'
<1>1. ServerType'
  BY DEF ServerType, Moves
<1>2. \A m \in Launchers \ {l} : /\ proc'[m] = proc[m] /\ open'[m] = open[m]
                                  /\ leaked'[m] = leaked[m] /\ pilot'[m] = pilot[m]
  BY DEF ServerType, Moves
<1>3. proc'[l] = p /\ open'[l] = o /\ leaked'[l] = k /\ pilot'[l] = v
  BY DEF ServerType, Moves
<1>4. StackInv'
  BY <1>2, <1>3 DEF StackInv
<1> QED
  BY <1>1, <1>4

\* The same of the token when the file stays: a launcher gets the one in the file.
LEMMA KeepsToken ==
    ASSUME ServerType, TokenInv, NEW l \in Launchers, NEW p, NEW o, NEW k, NEW v,
           Moves(l, p, o, k, v),
           UNCHANGED file, p.pc = "writing" => proc[l].pc = "writing",
           p.token # None => p.token = proc[l].token \/ p.token = file
    PROVE  TokenInv'
<1>1. \A m \in Launchers \ {l} : proc'[m] = proc[m]
  BY DEF ServerType, Moves
<1>2. proc'[l] = p
  BY DEF ServerType, Moves
<1>3. Server!OneToken'
  BY <1>1, <1>2 DEF TokenInv, Server!OneToken
<1> QED
  BY <1>1, <1>2, <1>3 DEF TokenInv

\* A reply in preparation does not change while anything else happens.
LEMMA KeepsReply ==
    ASSUME Server!RequestsGuarded, UNCHANGED <<mode, reply>> PROVE Server!RequestsGuarded'
  BY DEF Server!RequestsGuarded

\* A launcher goes to another place and nothing else of it changes.
LEMMA GotoStep ==
    ASSUME ServerInv, NEW l \in Launchers, NEW place \in Places \ {"writing"},
           Server!Goto(l, place), UNCHANGED <<mode, config, file, open, leaked, reply>>,
           pilot' \in [Launchers -> {"off", "on", "stopped"}],
           \A m \in Launchers \ {l} : pilot'[m] = pilot[m],
           place \in {"new", "valid", "refused", "done"} =>
               proc[l].pc \in {"new", "valid", "refused", "done"},
           pilot'[l] = "on" => place \in {"serving", "closing"} /\ Len(proc[l].stack) = 8
    PROVE  ServerInv'
<1> DEFINE p == [proc[l] EXCEPT !.pc = place]
<1>1. /\ proc[l] \in Launcher /\ open[l] \in SUBSET Names /\ leaked[l] \in SUBSET Names
      /\ StackOk(proc[l].stack, open[l], leaked[l])
      /\ proc[l].pc \in {"new", "valid", "refused", "done"} =>
             proc[l].stack = <<>> /\ proc[l].umask = "old"
      /\ file \in {"absent", "empty"} \cup Launchers
  BY LauncherFacts
<1>2. /\ p \in Launcher /\ p.pc = place /\ p.stack = proc[l].stack /\ p.token = proc[l].token
      /\ p.umask = proc[l].umask
  BY <1>1 DEF Launcher, Places
<1>3. Moves(l, p, open[l], leaked[l], pilot'[l])
  BY DEF Server!Goto, ServerInv, ServerType, Moves
<1> HIDE DEF p
<1>4. ServerType' /\ StackInv'
  BY <1>1, <1>2, <1>3, LauncherStep DEF ServerInv
<1>5. TokenInv'
  BY <1>2, <1>3, KeepsToken DEF ServerInv, Places
<1> QED
  BY <1>4, <1>5, KeepsReply DEF ServerInv

\* A launcher that refuses, begins its cleanup or is told to stop.
LEMMA LeavesStep ==
    ASSUME ServerInv, NEW l \in Launchers,
           \/ Server!Refuse(l) \/ Server!TokenFails(l) \/ Server!StopLifespan(l)
           \/ Server!LifespanFails(l) \/ Server!Cancel(l)
    PROVE  ServerInv'
<1>1. UNCHANGED <<mode, config, file, open, leaked, reply>>
  BY DEF Server!Refuse, Server!TokenFails, Server!StopLifespan, Server!LifespanFails,
     Server!Cancel
<1>2. CASE Server!Refuse(l)
  BY <1>1, <1>2, LauncherFacts, GotoStep DEF Server!Refuse, Places
<1>3. CASE Server!TokenFails(l)
  BY <1>1, <1>3, LauncherFacts, GotoStep DEF Server!TokenFails, Places
<1>4. CASE Server!StopLifespan(l)
  <2>1. /\ pilot' \in [Launchers -> {"off", "on", "stopped"}] /\ pilot'[l] # "on"
        /\ \A m \in Launchers \ {l} : pilot'[m] = pilot[m]
    BY <1>4, LauncherFacts DEF Server!StopLifespan
  <2> QED
    BY <1>1, <1>4, <2>1, GotoStep DEF Server!StopLifespan, Places
<1>5. CASE Server!LifespanFails(l)
  BY <1>1, <1>5, LauncherFacts, GotoStep DEF Server!LifespanFails, Places
<1>6. CASE Server!Cancel(l)
  <2>1. Server!Goto(l, "closing") /\ UNCHANGED pilot
    BY <1>6, LauncherFacts DEF Server!Cancel, Server!Cancelled, Server!Goto, Launcher
  <2> QED
    BY <1>1, <2>1, LauncherFacts, GotoStep DEF Places
<1> QED
  BY <1>2, <1>3, <1>4, <1>5, <1>6

\* The checks before anything is opened.
LEMMA ValidateStep ==
    ASSUME ServerInv, NEW l \in Launchers, Server!Validate(l) PROVE ServerInv'
<1>0. /\ proc[l] \in Launcher /\ open[l] \in SUBSET Names /\ leaked[l] \in SUBSET Names
      /\ pilot[l] \in {"off", "on", "stopped"} /\ proc[l].stack \in Seq(Names)
      /\ StackOk(proc[l].stack, open[l], leaked[l])
      /\ proc[l].pc \in {"new", "valid", "refused", "done"} =>
             proc[l].stack = <<>> /\ proc[l].umask = "old"
      /\ pilot[l] = "on" => proc[l].pc \in {"serving", "closing"} /\ Len(proc[l].stack) = 8
      /\ file \in {"absent", "empty"} \cup Launchers /\ config \in Nat
  BY LauncherFacts
<1>1. proc[l].pc = "new" /\ UNCHANGED <<mode, config, file, open, leaked, pilot, reply>>
  BY DEF Server!Validate
<1>2. CASE Server!Goto(l, "refused")
  BY <1>1, <1>2, LauncherFacts, GotoStep DEF Places
<1>3. CASE proc' = [proc EXCEPT ![l].pc = "valid", ![l].config = config]
  <2> DEFINE p == [proc[l] EXCEPT !.pc = "valid", !.config = config]
  <2>1. /\ p \in Launcher /\ p.pc = "valid" /\ p.stack = proc[l].stack
        /\ p.token = proc[l].token /\ p.umask = proc[l].umask
    BY <1>0 DEF Launcher, Places
  <2>2. Moves(l, p, open[l], leaked[l], pilot[l])
    BY <1>1, <1>3 DEF ServerInv, ServerType, Moves
  <2> HIDE DEF p
  <2>3. ServerType' /\ StackInv'
    BY <1>0, <1>1, <2>1, <2>2, LauncherStep DEF ServerInv
  <2>4. TokenInv'
    BY <1>1, <2>1, <2>2, KeepsToken DEF ServerInv
  <2> QED
    BY <1>1, <2>3, <2>4, KeepsReply DEF ServerInv
<1> QED
  BY <1>2, <1>3 DEF Server!Validate

\* serve() validates again and sets the umask.
LEMMA ServeStep ==
    ASSUME ServerInv, NEW l \in Launchers, Server!Serve(l) PROVE ServerInv'
<1>0. /\ proc[l] \in Launcher /\ open[l] \in SUBSET Names /\ leaked[l] \in SUBSET Names
      /\ pilot[l] \in {"off", "on", "stopped"} /\ proc[l].stack \in Seq(Names)
      /\ StackOk(proc[l].stack, open[l], leaked[l])
      /\ proc[l].pc \in {"new", "valid", "refused", "done"} =>
             proc[l].stack = <<>> /\ proc[l].umask = "old"
      /\ pilot[l] = "on" => proc[l].pc \in {"serving", "closing"} /\ Len(proc[l].stack) = 8
      /\ file \in {"absent", "empty"} \cup Launchers /\ config \in Nat
  BY LauncherFacts
<1>1. proc[l].pc = "valid" /\ UNCHANGED <<mode, config, file, open, leaked, pilot, reply>>
  BY DEF Server!Serve
<1>2. CASE Server!Goto(l, "refused")
  BY <1>1, <1>2, LauncherFacts, GotoStep DEF Places
<1>3. CASE proc' = [proc EXCEPT ![l].pc = "opening", ![l].umask = "private"]
  <2> DEFINE p == [proc[l] EXCEPT !.pc = "opening", !.umask = "private"]
  <2>1. /\ p \in Launcher /\ p.pc = "opening" /\ p.stack = proc[l].stack
        /\ p.token = proc[l].token
    BY <1>0 DEF Launcher, Places
  <2>2. Moves(l, p, open[l], leaked[l], pilot[l])
    BY <1>1, <1>3 DEF ServerInv, ServerType, Moves
  <2> HIDE DEF p
  <2>3. ServerType' /\ StackInv'
    BY <1>0, <1>1, <2>1, <2>2, LauncherStep DEF ServerInv
  <2>4. TokenInv'
    BY <1>1, <2>1, <2>2, KeepsToken DEF ServerInv
  <2> QED
    BY <1>1, <2>3, <2>4, KeepsReply DEF ServerInv
<1> QED
  BY <1>2, <1>3 DEF Server!Serve

\* A resource goes on the stack: it is open, or half open and the cleanup begins.
LEMMA PushStep ==
    ASSUME ServerInv, NEW l \in Launchers, NEW place \in {"opening", "closing"},
           proc[l].pc = "opening", Len(proc[l].stack) < 8,
           UNCHANGED <<mode, config, file, leaked, pilot, reply>>,
           proc' = [proc EXCEPT ![l] =
               [proc[l] EXCEPT !.pc = place,
                               !.stack = Append(@, Server!Resources[Len(proc[l].stack) + 1])]],
           open' = [open EXCEPT ![l] = @ \cup {Server!Resources[Len(proc[l].stack) + 1]}]
    PROVE  ServerInv'
<1>0. /\ proc[l] \in Launcher /\ open[l] \in SUBSET Names /\ leaked[l] \in SUBSET Names
      /\ pilot[l] \in {"off", "on", "stopped"} /\ proc[l].stack \in Seq(Names)
      /\ StackOk(proc[l].stack, open[l], leaked[l])
      /\ proc[l].pc \in {"new", "valid", "refused", "done"} =>
             proc[l].stack = <<>> /\ proc[l].umask = "old"
      /\ pilot[l] = "on" => proc[l].pc \in {"serving", "closing"} /\ Len(proc[l].stack) = 8
      /\ file \in {"absent", "empty"} \cup Launchers /\ config \in Nat
  BY LauncherFacts
<1> DEFINE r == Server!Resources[Len(proc[l].stack) + 1]
           s == Append(proc[l].stack, r)
           o == open[l] \cup {r}
           p == [proc[l] EXCEPT !.pc = place, !.stack = s]
<1>1. s \in Seq(Names) /\ o \in SUBSET Names /\ StackOk(s, o, leaked[l])
  BY <1>0, PushOk
<1>2. Moves(l, p, o, leaked[l], pilot[l])
  BY DEF ServerInv, ServerType, Moves
<1> HIDE DEF s
<1>3. p \in Launcher /\ p.pc = place /\ p.stack = s /\ p.token = proc[l].token
  BY <1>0, <1>1 DEF Launcher, Places
<1> HIDE DEF p, o
<1>4. ServerType' /\ StackInv'
  BY <1>0, <1>1, <1>2, <1>3, LauncherStep DEF ServerInv
<1>5. TokenInv'
  BY <1>2, <1>3, KeepsToken DEF ServerInv
<1> QED
  BY <1>4, <1>5, KeepsReply DEF ServerInv

\* The next resource is opened, or its opening fails.
LEMMA OpenStep ==
    ASSUME ServerInv, NEW l \in Launchers, Server!OpenNext(l) \/ Server!OpenFails(l)
    PROVE  ServerInv'
<1>1. /\ proc[l].pc = "opening" /\ Len(proc[l].stack) < 8
      /\ UNCHANGED <<mode, config, file, leaked, pilot, reply>>
  BY ResourceFacts DEF Server!OpenNext, Server!OpenFails, Server!Upcoming, Server!Opened
<1> DEFINE r == Server!Resources[Len(proc[l].stack) + 1]
<1>2. proc[l] \in Launcher /\ proc \in [Launchers -> Launcher]
  BY LauncherFacts DEF ServerInv, ServerType
<1>3. CASE /\ proc' = [proc EXCEPT ![l].stack = Append(@, r)]
           /\ open' = [open EXCEPT ![l] = @ \cup {r}]
  <2>1. proc' = [proc EXCEPT ![l] = [proc[l] EXCEPT !.pc = "opening", !.stack = Append(@, r)]]
    BY <1>1, <1>2, <1>3 DEF Launcher
  <2> QED
    BY <1>1, <1>3, <2>1, PushStep
<1>4. CASE /\ proc' = [proc EXCEPT ![l].stack = Append(@, r), ![l].pc = "closing"]
           /\ open' = [open EXCEPT ![l] = @ \cup {r}]
  <2>1. proc' = [proc EXCEPT ![l] = [proc[l] EXCEPT !.pc = "closing", !.stack = Append(@, r)]]
    BY <1>1, <1>2, <1>4 DEF Launcher
  <2> QED
    BY <1>1, <1>4, <2>1, PushStep
<1>5. CASE Server!Goto(l, "closing") /\ UNCHANGED open
  BY <1>1, <1>5, LauncherFacts, GotoStep DEF Places
<1> QED
  BY <1>3, <1>4, <1>5 DEF Server!OpenNext, Server!OpenFails, Server!Opened

\* os.open with O_EXCL: nobody had a token and nobody was writing one.
LEMMA CreateTokenStep ==
    ASSUME ServerInv, NEW l \in Launchers, Server!CreateToken(l) PROVE ServerInv'
<1>1. /\ proc[l].pc = "opening" /\ file = "absent" /\ file' = "empty"
      /\ proc' = [proc EXCEPT ![l].pc = "writing"]
      /\ UNCHANGED <<mode, config, open, leaked, pilot, reply>>
  BY DEF Server!CreateToken, Server!CreatesToken, Server!Goto
<1>2. /\ proc[l] \in Launcher /\ open[l] \in SUBSET Names /\ leaked[l] \in SUBSET Names
      /\ pilot[l] \in {"off", "on", "stopped"} /\ pilot[l] # "on"
      /\ StackOk(proc[l].stack, open[l], leaked[l])
  BY <1>1, LauncherFacts
<1> DEFINE p == [proc[l] EXCEPT !.pc = "writing"]
<1>3. p \in Launcher /\ p.pc = "writing" /\ p.stack = proc[l].stack /\ p.token = proc[l].token
  BY <1>2 DEF Launcher, Places
<1>4. Moves(l, p, open[l], leaked[l], pilot[l])
  BY <1>1 DEF ServerInv, ServerType, Moves
<1> HIDE DEF p
<1>5. ServerType' /\ StackInv'
  BY <1>1, <1>2, <1>3, <1>4, LauncherStep DEF ServerInv
<1>6. \A m \in Launchers : proc[m].token = None /\ proc[m].pc # "writing"
  <2> SUFFICES ASSUME NEW m \in Launchers PROVE proc[m].token = None /\ proc[m].pc # "writing"
    OBVIOUS
  <2>1. proc[m].token \in Launchers \cup {None}
    BY LauncherFacts DEF Launcher
  <2> QED
    BY <1>1, <2>1 DEF ServerInv, TokenInv, Server!OneToken
<1>7. (\A m \in Launchers \ {l} : proc'[m] = proc[m]) /\ proc'[l] = p
  BY <1>4 DEF ServerInv, ServerType, Moves
<1>8. TokenInv'
  BY <1>1, <1>3, <1>6, <1>7 DEF TokenInv, Server!OneToken
<1> QED
  BY <1>1, <1>5, <1>8, KeepsReply DEF ServerInv

\* The one writer writes the token.
LEMMA WriteTokenStep ==
    ASSUME ServerInv, NEW l \in Launchers, Server!WriteToken(l) PROVE ServerInv'
<1>1. /\ proc[l].pc = "writing" /\ file' = l
      /\ proc' = [proc EXCEPT ![l].pc = "opening", ![l].token = l]
      /\ UNCHANGED <<mode, config, open, leaked, pilot, reply>>
  BY DEF Server!WriteToken
<1>2. /\ proc[l] \in Launcher /\ open[l] \in SUBSET Names /\ leaked[l] \in SUBSET Names
      /\ pilot[l] \in {"off", "on", "stopped"} /\ pilot[l] # "on"
      /\ StackOk(proc[l].stack, open[l], leaked[l])
  BY <1>1, LauncherFacts
<1> DEFINE p == [proc[l] EXCEPT !.pc = "opening", !.token = l]
<1>3. p \in Launcher /\ p.pc = "opening" /\ p.stack = proc[l].stack /\ p.token = l
  BY <1>2 DEF Launcher, Places
<1>4. Moves(l, p, open[l], leaked[l], pilot[l])
  BY <1>1 DEF ServerInv, ServerType, Moves
<1> HIDE DEF p
<1>5. ServerType' /\ StackInv'
  BY <1>1, <1>2, <1>3, <1>4, LauncherStep DEF ServerInv
<1>6. \A m \in Launchers : proc[m].token = None /\ (m # l => proc[m].pc # "writing")
  <2> SUFFICES ASSUME NEW m \in Launchers
               PROVE  proc[m].token = None /\ (m # l => proc[m].pc # "writing")
    OBVIOUS
  <2>1. proc[m].token \in Launchers \cup {None}
    BY LauncherFacts DEF Launcher
  <2> QED
    BY <1>1, <2>1 DEF ServerInv, TokenInv, Server!OneToken
<1>7. (\A m \in Launchers \ {l} : proc'[m] = proc[m]) /\ proc'[l] = p
  BY <1>4 DEF ServerInv, ServerType, Moves
<1>8. TokenInv'
  BY ZenonT(60), <1>1, <1>3, <1>6, <1>7 DEF TokenInv, Server!OneToken
<1> QED
  BY <1>1, <1>5, <1>8, KeepsReply DEF ServerInv

\* The file is there: its token is taken, or the start ends.
LEMMA ReadTokenStep ==
    ASSUME ServerInv, NEW l \in Launchers, Server!ReadToken(l) PROVE ServerInv'
<1>1. /\ proc[l].pc = "opening" /\ file # "absent"
      /\ UNCHANGED <<mode, config, file, open, leaked, pilot, reply>>
  BY DEF Server!ReadToken
<1>2. CASE Server!Goto(l, "closing")
  BY <1>1, <1>2, LauncherFacts, GotoStep DEF Places
<1>3. CASE file # "empty" /\ proc' = [proc EXCEPT ![l].token = file]
  <2>1. /\ proc[l] \in Launcher /\ open[l] \in SUBSET Names /\ leaked[l] \in SUBSET Names
        /\ pilot[l] \in {"off", "on", "stopped"} /\ pilot[l] # "on" /\ file \in Launchers
        /\ StackOk(proc[l].stack, open[l], leaked[l])
    BY <1>1, <1>3, LauncherFacts
  <2> DEFINE p == [proc[l] EXCEPT !.token = file]
  <2>2. p \in Launcher /\ p.pc = "opening" /\ p.stack = proc[l].stack /\ p.token = file
    BY <1>1, <2>1 DEF Launcher, Places
  <2>3. Moves(l, p, open[l], leaked[l], pilot[l])
    BY <1>1, <1>3 DEF ServerInv, ServerType, Moves
  <2> HIDE DEF p
  <2>4. ServerType' /\ StackInv'
    BY <1>1, <2>1, <2>2, <2>3, LauncherStep DEF ServerInv
  <2>5. TokenInv'
    BY <1>1, <2>2, <2>3, KeepsToken DEF ServerInv
  <2> QED
    BY <1>1, <2>4, <2>5, KeepsReply DEF ServerInv
<1> QED
  BY <1>2, <1>3 DEF Server!ReadToken, Server!TokenValid

\* The lifespan begins: with an owner when everything is open.
LEMMA StartLifespanStep ==
    ASSUME ServerInv, NEW l \in Launchers, Server!StartLifespan(l) PROVE ServerInv'
<1>1. Server!Goto(l, "serving") /\ UNCHANGED <<mode, config, file, open, leaked, reply>>
  BY DEF Server!StartLifespan
<1>2. CASE Len(proc[l].stack) = 8 /\ pilot' = [pilot EXCEPT ![l] = "on"]
  <2>1. /\ pilot' \in [Launchers -> {"off", "on", "stopped"}]
        /\ \A m \in Launchers \ {l} : pilot'[m] = pilot[m]
    BY <1>2, LauncherFacts
  <2> QED
    BY <1>1, <1>2, <2>1, GotoStep DEF Places
<1>3. CASE proc[l].pc = "new" /\ UNCHANGED pilot
  BY <1>1, <1>3, LauncherFacts, GotoStep DEF Places
<1> QED
  BY <1>2, <1>3, ResourceFacts DEF Server!StartLifespan, Server!Opened

\* One callback of the exit stack.
LEMMA CloseStep ==
    ASSUME ServerInv, NEW l \in Launchers, NEW fails \in BOOLEAN, Server!Close(l, fails)
    PROVE  ServerInv'
<1> DEFINE r == Server!Last(proc[l].stack)
           s == Server!Front(proc[l].stack)
           p == [proc[l] EXCEPT !.stack = s]
           v == IF r = "pilot" /\ pilot[l] = "on" THEN "stopped" ELSE pilot[l]
<1>1. proc[l].pc = "closing" /\ proc[l].stack # <<>> /\ UNCHANGED <<mode, config, file, reply>>
  BY DEF Server!Close
<1>2. /\ proc[l] \in Launcher /\ open[l] \in SUBSET Names /\ leaked[l] \in SUBSET Names
      /\ pilot[l] \in {"off", "on", "stopped"} /\ proc[l].stack \in Seq(Names)
      /\ StackOk(proc[l].stack, open[l], leaked[l])
      /\ pilot[l] = "on" => Len(proc[l].stack) = 8
      /\ file \in {"absent", "empty"} \cup Launchers
  BY <1>1, LauncherFacts
<1>3. /\ r \in Names /\ s \in Seq(Names) /\ (Len(proc[l].stack) = 8 <=> r = "pilot")
      /\ StackOk(s, open[l] \ {r}, leaked[l]) /\ StackOk(s, open[l], leaked[l] \cup {r})
  BY <1>1, <1>2, PopOk
<1>4. \/ Moves(l, p, open[l], leaked[l] \cup {r}, v)
      \/ Moves(l, p, open[l] \ {r}, leaked[l], v)
  BY DEF Server!Close, Server!NextClose, ServerInv, ServerType, Moves
<1> HIDE DEF r, s
<1>5. p \in Launcher /\ p.pc = "closing" /\ p.stack = s /\ p.token = proc[l].token
  BY <1>1, <1>2, <1>3 DEF Launcher, Places
<1>6. v \in {"off", "on", "stopped"} /\ v # "on"
  BY <1>2, <1>3
<1> HIDE DEF p, v
<1>7. ServerType' /\ StackInv'
  <2>1. CASE Moves(l, p, open[l], leaked[l] \cup {r}, v)
    BY <1>1, <1>2, <1>3, <1>5, <1>6, <2>1, LauncherStep DEF ServerInv
  <2>2. CASE Moves(l, p, open[l] \ {r}, leaked[l], v)
    BY <1>1, <1>2, <1>3, <1>5, <1>6, <2>2, LauncherStep DEF ServerInv
  <2> QED
    BY <1>4, <2>1, <2>2
<1>8. TokenInv'
  BY <1>1, <1>4, <1>5, KeepsToken DEF ServerInv
<1> QED
  BY <1>1, <1>7, <1>8, KeepsReply DEF ServerInv

\* serve() is over, or the process is killed.
LEMMA EndStep ==
    ASSUME ServerInv, NEW l \in Launchers, Server!Finish(l) \/ Server!Crash(l)
    PROVE  ServerInv'
<1> DEFINE p == [Server!NewProcess EXCEPT !.pc = "done"]
<1>1. UNCHANGED <<mode, config, file, reply>>
  BY DEF Server!Finish, Server!Crash
<1>2. /\ p \in Launcher /\ p.pc = "done" /\ p.stack = <<>> /\ p.token = None /\ p.umask = "old"
  BY EmptyStack
<1>3. /\ open[l] \in SUBSET Names /\ leaked[l] \in SUBSET Names
      /\ pilot[l] \in {"off", "on", "stopped"}
      /\ StackOk(proc[l].stack, open[l], leaked[l])
      /\ pilot[l] = "on" => Len(proc[l].stack) = 8
      /\ file \in {"absent", "empty"} \cup Launchers
  BY LauncherFacts
<1>4. TokenInv' /\ ServerType' /\ StackInv'
  <2>1. CASE Server!Finish(l)
    <3>1. proc[l].stack = <<>> /\ Moves(l, p, open[l], leaked[l], pilot[l])
      BY <2>1 DEF Server!Finish, ServerInv, ServerType, Moves
    <3>2. pilot[l] # "on" /\ StackOk(<<>>, open[l], leaked[l])
      BY <1>3, <3>1
    <3> HIDE DEF p
    <3>3. ServerType' /\ StackInv'
      BY <1>1, <1>2, <1>3, <3>1, <3>2, LauncherStep DEF ServerInv
    <3>4. TokenInv'
      BY <1>1, <1>2, <3>1, KeepsToken DEF ServerInv
    <3> QED
      BY <3>3, <3>4
  <2>2. CASE Server!Crash(l)
    <3>1. Moves(l, p, {}, {}, "off")
      BY <2>2 DEF Server!Crash, Moves
    <3> HIDE DEF p
    <3>2. StackOk(p.stack, {}, {})
      BY <1>2, EmptyOk
    <3>3. ServerType' /\ StackInv'
      BY <1>1, <1>2, <1>3, <3>1, <3>2, LauncherStep DEF ServerInv
    <3>4. TokenInv'
      BY <1>1, <1>2, <3>1, KeepsToken DEF ServerInv
    <3> QED
      BY <3>3, <3>4
  <2> QED
    BY <2>1, <2>2
<1> QED
  BY <1>1, <1>4, KeepsReply DEF ServerInv

\* Launchers and files stay as they are.
LEMMA StillStep ==
    ASSUME ServerInv, UNCHANGED <<file, proc, open, leaked, pilot>>, config' \in Nat,
           Server!RequestsGuarded'
    PROVE  ServerInv'
<1>1. ServerType' /\ StackInv' /\ TokenInv'
  BY DEF ServerInv, ServerType, StackInv, TokenInv, Server!OneToken
<1> QED
  BY <1>1 DEF ServerInv

\* A request that passed the middleware and the guards of its handler.
LEMMA RequestStep ==
    ASSUME ServerInv, NEW l \in Launchers, NEW r \in Server!Requests, Server!Request(l, r)
    PROVE  ServerInv'
<1> DEFINE e == Server!Handler(l, r)
<1>1. /\ Server!Middleware(l, r) /\ e # "refused"
      /\ reply' = [effect |-> e, origin |-> r.origin, owner |-> r.token = file,
                   csrf |-> r.csrf = l]
      /\ UNCHANGED <<mode, config, file, proc, open, leaked, pilot>>
  BY DEF Server!Request
<1>2. r.path \in Server!Paths /\ r.origin \in {"none", "same", "local", "foreign"}
  BY DEF Server!Requests
<1>3. ASSUME NEW write \in BOOLEAN, Server!OwnerGuard(l, r, write)
      PROVE  r.token = file /\ r.origin \in {"none", "same"} /\ (write => r.csrf = l)
  BY <1>3 DEF Server!OwnerGuard, Server!SameOrigin, ServerInv, TokenInv, Server!OneToken
<1>4. CASE r.path \in {"page", "shell"}
  <2>1. e = "static"
    BY <1>4 DEF Server!Handler
  <2> HIDE DEF e
  <2>2. Server!RequestsGuarded'
    BY <1>1, <2>1 DEF Server!RequestsGuarded
  <2> QED
    BY <1>1, <2>2, StillStep DEF ServerInv, ServerType
<1>5. CASE r.path = "session"
  <2>1. e = "csrf" /\ (mode = "owner" => r.origin \in {"none", "same"})
    BY <1>1, <1>5 DEF Server!Handler, Server!Middleware, Server!SameOrigin
  <2> HIDE DEF e
  <2>2. Server!RequestsGuarded'
    BY <1>1, <2>1 DEF Server!RequestsGuarded
  <2> QED
    BY <1>1, <2>2, StillStep DEF ServerInv, ServerType
<1>6. CASE r.path = "info"
  <2>1. e = "roster" /\ (mode = "owner" => r.token = file /\ r.origin \in {"none", "same"})
    BY <1>1, <1>3, <1>6 DEF Server!Handler, Server!Middleware
  <2> HIDE DEF e
  <2>2. Server!RequestsGuarded'
    BY <1>1, <2>1 DEF Server!RequestsGuarded
  <2> QED
    BY <1>1, <2>2, StillStep DEF ServerInv, ServerType
<1>7. CASE r.path = "chat"
  <2>1. e = "chat" /\ mode # "owner" /\ r.origin # "foreign" /\ r.csrf = l
    BY <1>1, <1>7
       DEF Server!Handler, Server!Middleware, Server!ChatGuard, Server!LocalOrigin
  <2> HIDE DEF e
  <2>2. Server!RequestsGuarded'
    BY <1>1, <2>1 DEF Server!RequestsGuarded
  <2> QED
    BY <1>1, <2>2, StillStep DEF ServerInv, ServerType
<1>8. CASE r.path = "pilot_get"
  <2>1. e = "read" /\ mode = "owner" /\ r.token = file /\ r.origin \in {"none", "same"}
    BY <1>1, <1>3, <1>8 DEF Server!Handler
  <2> HIDE DEF e
  <2>2. Server!RequestsGuarded'
    BY <1>1, <2>1 DEF Server!RequestsGuarded
  <2> QED
    BY <1>1, <2>2, StillStep DEF ServerInv, ServerType
<1>9. CASE r.path = "pilot_post"
  <2>1. /\ e = "write" /\ mode = "owner" /\ r.token = file /\ r.origin \in {"none", "same"}
        /\ r.csrf = l
    BY <1>1, <1>3, <1>9 DEF Server!Handler
  <2> HIDE DEF e
  <2>2. Server!RequestsGuarded'
    BY <1>1, <2>1 DEF Server!RequestsGuarded
  <2> QED
    BY <1>1, <2>2, StillStep DEF ServerInv, ServerType
<1> QED
  BY <1>2, <1>4, <1>5, <1>6, <1>7, <1>8, <1>9 DEF Server!Paths

\* The reply is gone; the configuration file is edited.
LEMMA AnsweredOrEdited ==
    ASSUME ServerInv, Server!Answered \/ Server!Edit PROVE ServerInv'
<1>1. UNCHANGED <<mode, file, proc, open, leaked, pilot>> /\ config' \in {config, config + 1}
  BY DEF Server!Answered, Server!Edit
<1>2. config' \in Nat
  BY <1>1 DEF ServerInv, ServerType
<1>3. Server!RequestsGuarded'
  BY DEF Server!Answered, Server!Edit, ServerInv, Server!RequestsGuarded
<1> QED
  BY <1>1, <1>2, <1>3, StillStep

\* No launcher has been started.
LEMMA ServerInitial ==
    ASSUME Server!Init PROVE ServerInv
<1>1. /\ config = 1 /\ file = "absent" /\ proc = [l \in Launchers |-> Server!NewProcess]
      /\ open = [l \in Launchers |-> {}] /\ leaked = [l \in Launchers |-> {}]
      /\ pilot = [l \in Launchers |-> "off"] /\ reply = None
  BY DEF Server!Init
<1>2. /\ Server!NewProcess \in Launcher /\ Server!NewProcess.pc = "new"
      /\ Server!NewProcess.stack = <<>> /\ Server!NewProcess.token = None
      /\ Server!NewProcess.umask = "old"
  <2>1. <<>> \in Seq(Names)
    BY EmptySeq
  <2> QED
    BY <2>1 DEF Server!NewProcess, Launcher, Places
<1>3. ServerType
  BY <1>1, <1>2 DEF ServerType
<1>4. StackInv
  BY <1>1, <1>2, EmptyOk DEF StackInv
<1>5. TokenInv
  BY <1>1, <1>2 DEF TokenInv, Server!OneToken
<1>6. Server!RequestsGuarded
  BY <1>1 DEF Server!RequestsGuarded
<1> QED
  BY <1>3, <1>4, <1>5, <1>6 DEF ServerInv

\* Every step keeps the invariant of the server.
LEMMA ServerNext ==
    ASSUME ServerInv, Server!Next PROVE ServerInv'
<1>1. CASE \E l \in Launchers :
               \/ Server!Start(l) \/ Server!Refuse(l) \/ Server!OpenFails(l)
               \/ Server!TokenFails(l) \/ Server!StartLifespan(l) \/ Server!StopLifespan(l)
               \/ Server!LifespanFails(l)
  BY <1>1, ValidateStep, ServeStep, OpenStep, CreateTokenStep, WriteTokenStep,
     ReadTokenStep,
     LeavesStep, StartLifespanStep
     DEF Server!Start
<1>2. CASE \E l \in Launchers :
               \/ Server!Shutdown(l) \/ Server!Close(l, TRUE) \/ Server!Cancel(l)
               \/ Server!Crash(l)
  BY <1>2, CloseStep, EndStep, LeavesStep DEF Server!Shutdown
<1>3. CASE \E l \in Launchers, r \in Server!Requests : Server!Request(l, r)
  BY <1>3, RequestStep
<1>4. CASE Server!Answered \/ Server!Edit
  BY <1>4, AnsweredOrEdited
<1> QED
  BY <1>1, <1>2, <1>3, <1>4 DEF Server!Next

\* The inductive invariant of the server: it holds before any launcher is started, and no
\* start, fault, cancellation, cleanup or request breaks it.
THEOREM ServerInvariant == MCSpec => []ServerInv
<1>1. MCInit => ServerInv
  BY ServerInitial DEF MCInit
<1>2. ServerInv /\ [MCNext]_<<focus, vars, server, lab>> => ServerInv'
  <2> SUFFICES ASSUME ServerInv, [MCNext]_<<focus, vars, server, lab>> PROVE ServerInv'
    OBVIOUS
  <2>1. Server!Next \/ UNCHANGED server
    BY DEF MCNext
  <2>2. CASE UNCHANGED server
    <3>1. UNCHANGED <<mode, config, file, proc, open, leaked, pilot, reply>>
      BY <2>2 DEF server
    <3> QED
      BY <3>1, KeepsReply, StillStep DEF ServerInv, ServerType
  <2> QED
    BY <2>1, <2>2, ServerNext
<1> QED
  BY <1>1, <1>2, PTL DEF MCSpec

\* For any number of launchers on one data directory and any failures: the owner service
\* never runs on a closed store, whatever ends serve() leaves nothing open that could be
\* closed, all servers accept the one token of the directory, and no route leads around the
\* guards (pilot_launcher.py, app.py, owner_guard.py, pilot.py).
THEOREM ServerSoundHolds == MCSpec => []ServerSound
<1>1. ServerInv => ServerSound
  <2> SUFFICES ASSUME ServerInv PROVE Server!StopsFirst /\ Server!Released
    BY DEF ServerSound, ServerInv, TokenInv
  <2>1. Server!StopsFirst
    <3> SUFFICES ASSUME NEW l \in Launchers, pilot[l] = "on", NEW r \in Server!Stores
                 PROVE  r \in open[l]
      BY DEF Server!StopsFirst
    <3>1. Len(proc[l].stack) = 8 /\ StackOk(proc[l].stack, open[l], leaked[l])
      BY LauncherFacts
    <3> QED
      BY <3>1, ResourceFacts DEF StackOk
  <2>2. Server!Released
    <3> SUFFICES ASSUME NEW l \in Launchers, proc[l].pc \in {"refused", "done"}
                 PROVE  open[l] \subseteq leaked[l] /\ proc[l].umask = "old"
      BY DEF Server!Released
    <3>1. /\ proc[l].stack = <<>> /\ proc[l].umask = "old"
          /\ StackOk(proc[l].stack, open[l], leaked[l])
      BY LauncherFacts
    <3>2. Len(proc[l].stack) = 0
      BY <3>1, EmptySeq
    <3>3. \A r \in open[l] : r \in leaked[l]
      BY <3>1, <3>2 DEF StackOk
    <3> QED
      BY <3>1, <3>3
  <2> QED
    BY <2>1, <2>2
<1> QED
  BY <1>1, ServerInvariant, PTL

-----------------------------------------------------------------------------
(***************************************************************************)
(* Butler's conversations (ButlerTurns).                                    *)
(***************************************************************************)

USE TurnsAssumption

Stands ==
    {"idle", "request", "command", "recall", "route_intent", "route", "execute_intent",
     "executing", "execute", "handle", "mirror"}

ContextRecord ==
    [thread : Threads \cup {None}, at : Nat, summary : SUBSET Nat, window : SUBSET Nat,
     recall : SUBSET Nat]
CallRecord ==
    [op : Ops \cup {"none"}, owner : Owners \cup {None}, thread : Threads \cup {None}, turn : Nat,
     epoch : Nat, context : ContextRecord, acks : SUBSET Stands]
Message  == [thread : Threads, turn : Nat, role : {"user", "assistant"}]
Summary  == [upto : Nat, text : SUBSET Nat]
ThreadRows == [Threads -> Row \cup {None}]

TurnsType ==
    /\ thread \in ThreadRows /\ active \in [Owners -> Threads \cup {None}]
    /\ msgs \in Seq(Message) /\ summary \in [Threads -> Summary]
    /\ recall \in [Threads \cup Owners -> SUBSET Nat]
    /\ epoch \in Nat /\ turns \in Nat
    /\ pc \in [Tasks -> Stands] /\ call \in [Tasks -> CallRecord]

\* The following speak of the rows th of the threads and of the messages m.
Owns(th, o, i) == th[i] # None /\ th[i].owner = o

Remembered(m, i, turn) == \E r \in DOMAIN m : m[r].turn = turn /\ m[r].thread = i

\* The messages of a thread among the first n.
First(m, n, i) == {r \in 1 .. n : m[r].thread = i}

\* A context tells of the last messages that its thread had, and of what a summary of the
\* other ones keeps.
Exact(c, m) ==
    /\ c.at <= Len(m)
    /\ c.window \subseteq First(m, c.at, c.thread)
    /\ \A r \in First(m, c.at, c.thread) \ c.window : \A q \in c.window : r < q
    /\ c.summary \in Clipped(First(m, c.at, c.thread) \ c.window)
    /\ Cardinality(c.window) <= Window
    /\ c.summary # {} => c.window # {}

\* A summary is one of the messages up to a boundary, and there are later ones.
SummaryOk(s, i, m) ==
    /\ s.upto <= Len(m)
    /\ s.text \in Clipped(First(m, s.upto, i))
    /\ s.text # {} => \E r \in 1 .. Len(m) : m[r].thread = i /\ r > s.upto

\* A reply follows its request.
Paired(m) ==
    \A r \in DOMAIN m : m[r].role = "assistant" =>
        r > 1 /\ m[r - 1] = [m[r] EXCEPT !.role = "user"]

\* The entries that were acknowledged to a call when it stands somewhere.
AuditTrail(place, c) ==
    /\ place \notin {"idle", "request", "command"} => "request" \in c.acks
    /\ place \in {"route", "execute_intent", "executing", "execute", "handle", "mirror"} =>
           "route_intent" \in c.acks
    /\ place \in {"execute_intent", "executing", "execute", "handle", "mirror"} =>
           "route" \in c.acks
    /\ place = "executing" => "execute_intent" \in c.acks \/ c.op = "isolated"
    /\ place = "mirror" => "handle" \in c.acks

\* What a call that stands somewhere can rely on.
CallOk(place, c, m, th) ==
    /\ place # "idle" => c.op \in Ops /\ c.owner \in Owners
    /\ Exact(c.context, m)
    /\ c.thread # None =>
           /\ Owns(th, c.owner, c.thread)
           /\ \A turn \in c.context.recall : Remembered(m, c.thread, turn)
    /\ c.thread # None /\ place = "mirror" => Remembered(m, c.thread, c.turn)
    /\ AuditTrail(place, c)

StoreInv ==
    /\ \A i \in Threads : SummaryOk(summary[i], i, msgs)
    /\ \A i \in Threads : \A turn \in recall[i] : Remembered(msgs, i, turn)
    /\ \A o \in Owners : active[o] # None => Owns(thread, o, active[o])
    /\ \A i \in Threads : thread[i] # None /\ thread[i].parent # None =>
           Owns(thread, thread[i].owner, thread[i].parent)
    /\ Paired(msgs)

TurnsInv == TurnsType /\ StoreInv /\ \A t \in Tasks : CallOk(pc[t], call[t], msgs, thread)

\* A set of numbers has a least one, and if it is bounded a greatest one.
LEMMA LeastNumber ==
    ASSUME NEW S, S \subseteq Nat, S # {}
    PROVE  \E m \in S : \A k \in S : m <= k
<1> DEFINE R == OpToRel(<, Nat)
<1>1. IsWellFoundedOn(R, Nat)
  BY NatLessThanWellFounded
<1>2. \A x, y \in Nat : x < y => <<x, y>> \in R
  BY DEF OpToRel
<1> HIDE DEF R
<1>3. PICK x \in S : \A y \in S : ~(<<y, x>> \in R)
  BY <1>1, WFMin
<1>4. ASSUME NEW k \in S PROVE x <= k
  <2>1. k \in Nat /\ x \in Nat /\ ~(k < x)
    BY <1>2, <1>3
  <2> QED
    BY <2>1
<1> QED
  BY <1>4

\* A bounded set of numbers has a greatest one.
LEMMA GreatestNumber ==
    ASSUME NEW n \in Nat, NEW S, S \subseteq 1 .. n, S # {}
    PROVE  \E m \in S : \A k \in S : k <= m
<1> DEFINE D == {n - r : r \in S}
<1>0. PICK s \in S : TRUE
  OBVIOUS
<1>1. D \subseteq Nat /\ n - s \in D
  OBVIOUS
<1> HIDE DEF D
<1>2. PICK d \in D : \A k \in D : d <= k
  BY <1>1, LeastNumber
<1>3. PICK m \in S : d = n - m
  BY DEF D
<1>4. ASSUME NEW k \in S PROVE k <= m
  <2>1. n - k \in D
    BY DEF D
  <2>2. n - m <= n - k
    BY <1>2, <1>3, <2>1
  <2> QED
    BY <2>2
<1> QED
  BY <1>4

\* Numbers each of which has fewer than n later ones: AllBut(n, _) leaves none of them,
\* and there are at most n.
LEMMA FewLater ==
    ASSUME NEW n \in Nat, NEW S, S \subseteq Nat, IsFiniteSet(S),
           \A r \in S : Cardinality({q \in S : q > r}) < n
    PROVE  AllBut(n, S) = {} /\ Cardinality(S) <= n
<1>1. \A r \in S : Cardinality({q \in S : q > r}) \in Nat
  <2> TAKE r \in S
  <2>1. {q \in S : q > r} \subseteq S
    OBVIOUS
  <2> QED
    BY <2>1, FS_Subset, FS_CardinalityType
<1>2. AllBut(n, S) = {}
  <2> SUFFICES ASSUME NEW r \in S, Cardinality({q \in S : q > r}) >= n PROVE FALSE
    BY DEF AllBut
  <2> QED
    BY <1>1
<1>3. CASE S = {}
  BY <1>2, <1>3, FS_EmptySet
<1>4. CASE S # {}
  <2>1. PICK m \in S : \A k \in S : m <= k
    BY <1>4, LeastNumber
  <2>2. S \ {m} = {q \in S : q > m}
    <3>1. \A q \in S : q # m <=> q > m
      BY <2>1
    <3> QED
      BY <3>1
  <2>3. Cardinality(S \ {m}) = Cardinality(S) - 1
    BY FS_RemoveElement
  <2>4. Cardinality({q \in S : q > m}) < n
    OBVIOUS
  <2>5. Cardinality(S) \in Nat
    BY FS_CardinalityType
  <2> QED
    BY <1>2, <2>2, <2>3, <2>4, <2>5
<1> QED
  BY <1>3, <1>4

\* A summary tells of some of the rows it was made of; what it does not tell of is older than
\* what it tells of, and then it has its least number of lines.
LEMMA ClippedFacts ==
    ASSUME NEW S, S \subseteq Nat, IsFiniteSet(S), NEW K \in Clipped(S)
    PROVE  /\ K \subseteq S
           /\ \A r \in S \ K : \A q \in K : r < q
           /\ S # K => Cardinality(K) >= Lines
<1>1. CASE K = S
  BY <1>1
<1>2. CASE K # S
  <2>1. PICK f \in AllBut(Lines - 1, S) : K = {r \in S : r >= f}
    BY <1>2 DEF Clipped
  <2>2. f \in S /\ Cardinality({q \in S : q > f}) >= Lines - 1
    BY <2>1 DEF AllBut
  <2> DEFINE L == {q \in S : q > f}
  <2>3. K = L \cup {f} /\ f \notin L
    <3>1. \A r \in S : r \in Nat
      OBVIOUS
    <3>2. \A r \in S : r >= f <=> r > f \/ r = f
      BY <2>2, <3>1
    <3>3. ~(f > f)
      BY <2>2, <3>1
    <3> QED
      BY <2>1, <2>2, <3>2, <3>3
  <2>4. IsFiniteSet(L)
    <3>1. L \subseteq S
      OBVIOUS
    <3> QED
      BY <3>1, FS_Subset
  <2>5. Cardinality(L) \in Nat /\ Cardinality(L) >= Lines - 1
    BY <2>2, <2>4, FS_CardinalityType
  <2> HIDE DEF L
  <2>6. Cardinality(K) = Cardinality(L) + 1
    BY <2>3, <2>4, FS_AddElement
  <2>7. Cardinality(K) >= Lines
    BY <2>5, <2>6
  <2>8. \A r \in S \ K : \A q \in K : r < q
    BY <2>1, <2>2
  <2> QED
    BY <2>1, <2>7, <2>8
<1> QED
  BY <1>1, <1>2

\* There is always a summary of no messages, the one that no thread begins with.
LEMMA ClippedNothing == {} \in Clipped({})
  BY DEF Clipped

\* The rows of a thread, and those behind the verbatim window.
LEMMA RowFacts ==
    ASSUME TurnsType, NEW i \in Threads
    PROVE  /\ Len(msgs) \in Nat /\ Rows(i) \subseteq 1 .. Len(msgs) /\ IsFiniteSet(Rows(i))
           /\ Behind(i) \subseteq Rows(i)
<1>1. Len(msgs) \in Nat
  BY LenProperties DEF TurnsType
<1>2. IsFiniteSet(1 .. Len(msgs))
  <2>1. 1 \in Int /\ Len(msgs) \in Int
    BY <1>1
  <2> QED
    BY <2>1, FS_Interval
<1>3. Rows(i) \subseteq 1 .. Len(msgs)
  BY DEF Rows
<1> QED
  BY <1>1, <1>2, <1>3, FS_Subset DEF Behind, AllBut

\* The last of the messages behind the window.
LEMMA LastBehind ==
    ASSUME TurnsType, NEW i \in Threads, Behind(i) # {}
    PROVE  Last(Behind(i)) \in Behind(i) /\ \A q \in Behind(i) : q <= Last(Behind(i))
<1>1. Behind(i) \subseteq 1 .. Len(msgs) /\ Len(msgs) \in Nat
  BY RowFacts
<1>2. \E m \in Behind(i) : \A k \in Behind(i) : k <= m
  BY <1>1, GreatestNumber
<1> QED
  BY <1>2 DEF Last

\* A summary that is extended to the messages behind the window leaves later ones.
LEMMA SummarizedOk ==
    ASSUME TurnsType, NEW i \in Threads, Behind(i) # {},
           NEW sum \in Summarized(i, Last(Behind(i)))
    PROVE  /\ SummaryOk(sum[i], i, msgs) /\ sum[i].upto = Last(Behind(i))
           /\ \A j \in Threads \ {i} : sum[j] = summary[j]
           /\ sum \in [Threads -> Summary]
<1> DEFINE u == Last(Behind(i))
<1>1. /\ u \in 1 .. Len(msgs) /\ u \in Behind(i) /\ Len(msgs) \in Nat
      /\ Rows(i) \subseteq 1 .. Len(msgs) /\ IsFiniteSet(Rows(i))
  BY LastBehind, RowFacts
<1>2. Cardinality({q \in Rows(i) : q > u}) >= Window
  BY <1>1 DEF Behind, AllBut
<1>a. PICK text \in Clipped({r \in Rows(i) : r <= u}) :
          sum = [summary EXCEPT ![i] = [upto |-> u, text |-> text]]
  BY DEF Summarized
<1> HIDE DEF u
<1>3. {q \in Rows(i) : q > u} # {}
  <2>1. CASE {q \in Rows(i) : q > u} = {}
    <3>1. Cardinality({q \in Rows(i) : q > u}) = 0
      BY <2>1, FS_EmptySet
    <3> QED
      BY <1>2, <3>1
  <2> QED
    BY <2>1
<1>5. \E r \in 1 .. Len(msgs) : msgs[r].thread = i /\ r > u
  BY <1>3 DEF Rows
<1>6. {r \in Rows(i) : r <= u} = First(msgs, u, i)
  BY <1>1 DEF Rows, First
<1>4. text \subseteq Nat
  <2>1. {r \in Rows(i) : r <= u} \subseteq Rows(i) /\ \A r \in Rows(i) : r \in Nat
    BY <1>1
  <2>2. {r \in Rows(i) : r <= u} \subseteq Nat /\ IsFiniteSet({r \in Rows(i) : r <= u})
    BY <1>1, <2>1, FS_Subset
  <2>3. text \subseteq {r \in Rows(i) : r <= u}
    BY <1>a, <2>2, ClippedFacts
  <2> QED
    BY <2>2, <2>3
<1> DEFINE s == [upto |-> u, text |-> text]
<1>7. s \in Summary /\ s.upto = u /\ s.text = text
  BY <1>1, <1>4 DEF Summary
<1>9. sum = [summary EXCEPT ![i] = s] /\ summary \in [Threads -> Summary]
  BY <1>a DEF TurnsType
<1> HIDE DEF s
<1>8. SummaryOk(s, i, msgs)
  <2>1. s.text \in Clipped(First(msgs, s.upto, i))
    BY <1>a, <1>6, <1>7, Zenon
  <2> QED
    BY <1>1, <1>5, <1>7, <2>1 DEF SummaryOk
<1> QED
  BY <1>7, <1>8, <1>9 DEF u

\* The context that assemble() returns, when the summary reaches the verbatim window.
LEMMA ContextExactly ==
    ASSUME TurnsType, NEW i \in Threads, NEW s \in Summary, SummaryOk(s, i, msgs),
           \A r \in Behind(i) : r <= s.upto
    PROVE  Context(i, s) \in ContextRecord /\ Exact(Context(i, s), msgs)
<1> DEFINE new == {r \in Rows(i) : r > s.upto}
           w == new \ AllBut(Window, new)
<1>1. /\ Len(msgs) \in Nat /\ Rows(i) \subseteq 1 .. Len(msgs) /\ IsFiniteSet(Rows(i))
      /\ s.upto \in Nat /\ s.text \subseteq Nat /\ Window \in Nat
  BY RowFacts DEF Summary
<1>2. new \subseteq Nat /\ IsFiniteSet(new)
  BY <1>1, FS_Subset
<1>3. ASSUME NEW r \in new PROVE Cardinality({q \in new : q > r}) < Window
  <2>1. {q \in new : q > r} = {q \in Rows(i) : q > r}
    BY <1>1
  <2>2. r \in Rows(i) /\ ~(r <= s.upto)
    BY <1>1
  <2>3. ~(Cardinality({q \in Rows(i) : q > r}) >= Window)
    BY <2>2 DEF Behind, AllBut
  <2>4. Cardinality({q \in Rows(i) : q > r}) \in Nat
    <3>1. {q \in Rows(i) : q > r} \subseteq Rows(i)
      OBVIOUS
    <3> QED
      BY <1>1, <3>1, FS_Subset, FS_CardinalityType
  <2>5. \A k \in Nat : ~(k >= Window) => k < Window
    BY <1>1
  <2> HIDE DEF new
  <2>6. Cardinality({q \in Rows(i) : q > r}) < Window
    BY <2>3, <2>4, <2>5
  <2> QED
    BY <2>1, <2>6, Zenon
<1>4. AllBut(Window, new) = {} /\ Cardinality(new) <= Window
  <2> HIDE DEF new
  <2> QED
    BY <1>1, <1>2, <1>3, FewLater
<1>5. w = new
  BY <1>4
<1>6. Context(i, s) = [thread |-> i, at |-> Len(msgs), summary |-> s.text, window |-> new,
                       recall |-> {}]
  BY <1>5 DEF Context
<1>7. /\ First(msgs, Len(msgs), i) = Rows(i) /\ new \subseteq Rows(i)
      /\ Rows(i) \ new = First(msgs, s.upto, i)
      /\ \A r \in Rows(i) \ new : \A q \in new : r < q
  <2>1. First(msgs, Len(msgs), i) = Rows(i) /\ new \subseteq Rows(i)
    BY DEF First, Rows
  <2>2. s.upto <= Len(msgs)
    BY DEF SummaryOk
  <2>3. \A r \in Rows(i) \ new : r <= s.upto
    BY <1>1
  <2>4. Rows(i) \ new = First(msgs, s.upto, i)
    BY <1>1, <2>2 DEF First, Rows
  <2>5. \A r \in Rows(i) \ new : \A q \in new : r < q
    BY <1>1, <2>3
  <2> QED
    BY <2>1, <2>4, <2>5
<1>8. s.text \in Clipped(Rows(i) \ new)
  BY <1>7 DEF SummaryOk
<1>9. s.text # {} => new # {}
  BY DEF SummaryOk, Rows
<1> HIDE DEF new
<1> DEFINE x == [thread |-> i, at |-> Len(msgs), summary |-> s.text, window |-> new,
                 recall |-> {}]
<1>10. /\ x.at = Len(msgs) /\ x.thread = i /\ x.summary = s.text /\ x.window = new
       /\ x \in ContextRecord
  BY <1>1, <1>2 DEF ContextRecord
<1> HIDE DEF x
<1>11. Exact(x, msgs)
  BY <1>1, <1>4, <1>7, <1>8, <1>9, <1>10 DEF Exact
<1> QED
  BY <1>6, <1>10, <1>11 DEF x

\* Messages are only appended, and the row of a thread never changes.
Grown(m, n) == Len(m) <= Len(n) /\ \A r \in 1 .. Len(m) : n[r] = m[r]

Kept(th, tk) == \A i \in Threads : th[i] # None => tk[i] = th[i]

\* The messages are numbered from 1.
LEMMA Lengths == ASSUME NEW m \in Seq(Message) PROVE Len(m) \in Nat /\ DOMAIN m = 1 .. Len(m)
  BY LenProperties

\* A turn that is remembered stays so when messages are appended,
LEMMA RememberedGrows ==
    ASSUME NEW m \in Seq(Message), NEW n \in Seq(Message), Grown(m, n), NEW i, NEW turn,
           Remembered(m, i, turn)
    PROVE  Remembered(n, i, turn)
<1>1. PICK r \in DOMAIN m : m[r].turn = turn /\ m[r].thread = i
  BY DEF Remembered
<1>2. r \in 1 .. Len(m) /\ r \in 1 .. Len(n) /\ n[r] = m[r]
  BY Lengths DEF Grown
<1>3. r \in DOMAIN n
  BY <1>2, Lengths
<1> QED
  BY <1>1, <1>2, <1>3 DEF Remembered

\* a context stays exact, being about the messages that were there,
LEMMA ExactGrows ==
    ASSUME NEW m \in Seq(Message), NEW n \in Seq(Message), Grown(m, n), NEW c \in ContextRecord,
           Exact(c, m)
    PROVE  Exact(c, n)
<1>1. Len(m) \in Nat /\ Len(n) \in Nat /\ c.at \in Nat
  BY Lengths DEF ContextRecord
<1>2. c.at <= Len(m) /\ Len(m) <= Len(n)
  BY DEF Exact, Grown
<1>3. \A r \in 1 .. c.at : r \in 1 .. Len(m)
  BY <1>1, <1>2
<1>4. First(m, c.at, c.thread) = First(n, c.at, c.thread)
  BY <1>3 DEF Grown, First
<1>5. c.at <= Len(n)
  BY <1>1, <1>2
<1> QED
  BY <1>4, <1>5 DEF Exact

\* and a summary stays the summary of the messages up to its boundary.
LEMMA SummaryGrows ==
    ASSUME NEW m \in Seq(Message), NEW n \in Seq(Message), Grown(m, n), NEW s \in Summary,
           NEW i, SummaryOk(s, i, m)
    PROVE  SummaryOk(s, i, n)
<1>1. Len(m) \in Nat /\ Len(n) \in Nat /\ s.upto \in Nat
  BY Lengths DEF Summary
<1>2. s.upto <= Len(m) /\ Len(m) <= Len(n)
  BY DEF SummaryOk, Grown
<1>3. \A r \in 1 .. Len(m) : r \in 1 .. Len(n) /\ n[r] = m[r]
  BY <1>1, <1>2 DEF Grown
<1>4. \A r \in 1 .. s.upto : r \in 1 .. Len(m)
  BY <1>1, <1>2
<1>5. First(m, s.upto, i) = First(n, s.upto, i)
  BY <1>3, <1>4 DEF First
<1>6. s.text # {} => \E r \in 1 .. Len(n) : n[r].thread = i /\ r > s.upto
  BY <1>3 DEF SummaryOk
<1>7. s.upto <= Len(n)
  BY <1>1, <1>2
<1> QED
  BY <1>5, <1>6, <1>7 DEF SummaryOk

\* Who owns a thread keeps it.
LEMMA OwnsKept ==
    ASSUME NEW th, NEW tk, Kept(th, tk), NEW o, NEW i \in Threads, Owns(th, o, i)
    PROVE  Owns(tk, o, i)
  BY DEF Kept, Owns

\* What a call can rely on survives the messages and threads of others.
LEMMA CallKept ==
    ASSUME NEW m \in Seq(Message), NEW n \in Seq(Message), Grown(m, n),
           NEW th, NEW tk, Kept(th, tk), NEW place, NEW c \in CallRecord,
           CallOk(place, c, m, th)
    PROVE  CallOk(place, c, n, tk)
<1>1. c.context \in ContextRecord /\ c.thread \in Threads \cup {None}
  BY DEF CallRecord
<1>2. Exact(c.context, n)
  BY <1>1, ExactGrows DEF CallOk
<1>3. c.thread # None => Owns(tk, c.owner, c.thread)
  BY <1>1, OwnsKept DEF CallOk
<1>4. c.thread # None => \A turn \in c.context.recall : Remembered(n, c.thread, turn)
  BY RememberedGrows DEF CallOk
<1>5. c.thread # None /\ place = "mirror" => Remembered(n, c.thread, c.turn)
  BY RememberedGrows DEF CallOk
<1> QED
  BY <1>2, <1>3, <1>4, <1>5 DEF CallOk

\* A call that has not begun, or is over.
LEMMA NoCallOk ==
    /\ NoCall \in CallRecord /\ NoContext \in ContextRecord
    /\ \A m \in Seq(Message) : Exact(NoContext, m)
    /\ \A th : \A m \in Seq(Message) : CallOk("idle", NoCall, m, th)
<1>1. NoContext \in ContextRecord
  BY DEF NoContext, ContextRecord
<1>2. NoCall \in CallRecord
  BY <1>1 DEF NoCall, CallRecord
<1>3. ASSUME NEW m \in Seq(Message) PROVE Exact(NoContext, m)
  <2>1. Len(m) \in Nat /\ Window \in Nat /\ Cardinality({}) = 0
    BY Lengths, FS_EmptySet
  <2>2. /\ NoContext.at = 0 /\ NoContext.summary = {} /\ NoContext.window = {}
        /\ NoContext.thread = None
    BY DEF NoContext
  <2>3. First(m, 0, None) = {} /\ {} \ {} = {}
    BY DEF First
  <2>4. {} \in Clipped(First(m, 0, None) \ {})
    BY <2>3, ClippedNothing
  <2> QED
    BY <2>1, <2>2, <2>3, <2>4 DEF Exact
<1>4. NoCall.context = NoContext /\ NoCall.thread = None
  BY DEF NoCall
<1>5. AuditTrail("idle", NoCall)
  BY DEF AuditTrail
<1>6. ASSUME NEW m \in Seq(Message), NEW th PROVE CallOk("idle", NoCall, m, th)
  BY <1>3, <1>4, <1>5 DEF CallOk
<1> QED
  BY <1>1, <1>2, <1>3, <1>6

\* A step of one call: what it makes of the store is in order, and so is where it stands.
LEMMA CallStep ==
    ASSUME TurnsInv, NEW t \in Tasks, NEW place \in Stands, NEW c \in CallRecord,
           Go(t, place, c), thread' \in ThreadRows, active' \in [Owners -> Threads \cup {None}],
           msgs' \in Seq(Message), summary' \in [Threads -> Summary],
           recall' \in [Threads \cup Owners -> SUBSET Nat], epoch' \in Nat, turns' \in Nat,
           Kept(thread, thread'), Grown(msgs, msgs'), StoreInv',
           place # "idle" => CallOk(place, c, msgs', thread')
    PROVE  TurnsInv'
<1> DEFINE d == IF place = "idle" THEN NoCall ELSE c
<1>1. d \in CallRecord /\ CallOk(place, d, msgs', thread')
  BY NoCallOk
<1>2. /\ pc' = [pc EXCEPT ![t] = place] /\ call' = [call EXCEPT ![t] = d]
      /\ pc \in [Tasks -> Stands] /\ call \in [Tasks -> CallRecord] /\ msgs \in Seq(Message)
  BY DEF Go, TurnsInv, TurnsType
<1> HIDE DEF d
<1>3. pc' \in [Tasks -> Stands] /\ call' \in [Tasks -> CallRecord]
  BY <1>1, <1>2
<1>4. ASSUME NEW s \in Tasks PROVE CallOk(pc'[s], call'[s], msgs', thread')
  <2>1. CASE s = t
    BY <1>1, <1>2, <2>1
  <2>2. CASE s # t
    <3>1. pc'[s] = pc[s] /\ call'[s] = call[s] /\ call[s] \in CallRecord
      BY <1>2, <2>2
    <3>2. CallOk(pc[s], call[s], msgs, thread)
      BY DEF TurnsInv
    <3> QED
      BY <1>2, <3>1, <3>2, CallKept
  <2> QED
    BY <2>1, <2>2
<1>5. TurnsType'
  BY <1>3 DEF TurnsType
<1> QED
  BY <1>4, <1>5 DEF TurnsInv

\* The invariant of the store speaks of some of its variables.
LEMMA StoreSame ==
    ASSUME StoreInv, UNCHANGED <<thread, active, msgs, summary, recall>> PROVE StoreInv'
  BY DEF StoreInv

\* Nothing appended is a case of appending,
LEMMA Same == \A m : m \in Seq(Message) => Grown(m, m)
  BY Lengths DEF Grown

\* and no new thread one of keeping all threads.
LEMMA SameRows == \A th : Kept(th, th)
  BY DEF Kept

\* A call that goes on and leaves the store alone.
LEMMA QuietStep ==
    ASSUME TurnsInv, NEW t \in Tasks, NEW place \in Stands, NEW c \in CallRecord,
           Go(t, place, c), UNCHANGED store, epoch' \in Nat, turns' \in Nat,
           place # "idle" => CallOk(place, c, msgs, thread)
    PROVE  TurnsInv'
<1>1. UNCHANGED <<thread, active, msgs, summary, recall>>
  BY DEF store
<1>2. StoreInv'
  BY <1>1, StoreSame DEF TurnsInv
<1>3. Kept(thread, thread') /\ Grown(msgs, msgs')
  BY <1>1, Same, SameRows DEF TurnsInv, TurnsType
<1>4. place # "idle" => CallOk(place, c, msgs', thread')
  BY <1>1
<1>5. /\ thread' \in ThreadRows /\ active' \in [Owners -> Threads \cup {None}]
      /\ msgs' \in Seq(Message) /\ summary' \in [Threads -> Summary]
      /\ recall' \in [Threads \cup Owners -> SUBSET Nat]
  BY <1>1 DEF TurnsInv, TurnsType
<1> QED
  BY <1>2, <1>3, <1>4, <1>5, CallStep

\* What is known of a call under way, and of the entry that is acknowledged to it.
LEMMA CallFacts ==
    ASSUME TurnsInv, NEW t \in Tasks
    PROVE  /\ pc[t] \in Stands /\ call[t] \in CallRecord
           /\ CallOk(pc[t], call[t], msgs, thread) /\ AuditTrail(pc[t], call[t])
           /\ pc[t] # "idle" => call[t].op \in Ops /\ call[t].owner \in Owners
           /\ msgs \in Seq(Message) /\ thread \in ThreadRows /\ epoch \in Nat /\ turns \in Nat
           /\ summary \in [Threads -> Summary] /\ active \in [Owners -> Threads \cup {None}]
           /\ recall \in [Threads \cup Owners -> SUBSET Nat]
<1>1. TurnsType /\ CallOk(pc[t], call[t], msgs, thread)
  BY DEF TurnsInv
<1>2. /\ AuditTrail(pc[t], call[t])
      /\ pc[t] # "idle" => call[t].op \in Ops /\ call[t].owner \in Owners
  BY <1>1 DEF CallOk
<1> QED
  BY <1>1, <1>2 DEF TurnsType

\* An acknowledged entry changes nothing else of its call.
LEMMA AckedFacts ==
    ASSUME TurnsInv, NEW t \in Tasks
    PROVE  /\ Acked(t) \in CallRecord /\ Acked(t).acks = call[t].acks \cup {pc[t]}
           /\ Acked(t).op = call[t].op /\ Acked(t).owner = call[t].owner
           /\ Acked(t).thread = call[t].thread /\ Acked(t).turn = call[t].turn
           /\ Acked(t).context = call[t].context
<1>1. pc[t] \in Stands /\ call[t] \in CallRecord
  BY CallFacts
<1>2. Acked(t) = [call[t] EXCEPT !.acks = call[t].acks \cup {pc[t]}]
  BY DEF Acked
<1>3. call[t].acks \cup {pc[t]} \in SUBSET Stands
  BY <1>1 DEF CallRecord
<1> DEFINE c == call[t]
           a == call[t].acks \cup {pc[t]}
           d == Acked(t)
<1>4. c \in CallRecord /\ a \in SUBSET Stands /\ d = [c EXCEPT !.acks = a]
  BY <1>1, <1>2, <1>3
<1> HIDE DEF c, a, d
<1>5. /\ d \in CallRecord /\ d.acks = a /\ d.op = c.op /\ d.owner = c.owner
      /\ d.thread = c.thread /\ d.turn = c.turn /\ d.context = c.context
  BY <1>4 DEF CallRecord
<1> QED
  BY <1>5 DEF c, a, d

\* A call that got the entry it waited for may stand where it stands next.
LEMMA AckedOk ==
    ASSUME TurnsInv, NEW t \in Tasks, pc[t] # "idle", NEW place, AuditTrail(place, Acked(t)),
           place = "mirror" => call[t].thread = None
    PROVE  CallOk(place, Acked(t), msgs, thread)
<1>1. CallOk(pc[t], call[t], msgs, thread) /\ call[t].op \in Ops /\ call[t].owner \in Owners
  BY CallFacts
<1> QED
  BY <1>1, AckedFacts DEF CallOk

\* An entry is acknowledged and nothing else happens.
LEMMA AckedStep ==
    ASSUME TurnsInv, NEW t \in Tasks, NEW action, NEW place \in Stands, pc[t] = action,
           action # "idle", Acknowledged(t, action, place), UNCHANGED <<store, service>>,
           place # "idle" => AuditTrail(place, Acked(t)),
           place = "mirror" => call[t].thread = None
    PROVE  TurnsInv'
<1>1. Go(t, place, Acked(t)) /\ UNCHANGED store /\ epoch' \in Nat /\ turns' \in Nat
  BY CallFacts DEF Acknowledged, service
<1>2. place # "idle" => CallOk(place, Acked(t), msgs, thread)
  BY AckedOk
<1> QED
  BY <1>1, <1>2, AckedFacts, QuietStep

\* The steps that an entry starts and that write nothing keep the invariant.
LEMMA AcknowledgedSteps ==
    ASSUME TurnsInv, NEW t \in Tasks,
           \/ CommandOnlyReplies(t) \/ CommandEnds(t) \/ AssembleNothing(t) \/ Route(t)
           \/ Routed(t) \/ Execute(t) \/ ResultAudited(t) \/ StoreNothing(t)
    PROVE  TurnsInv'
<1>1. AuditTrail(pc[t], call[t])
  BY CallFacts
<1>2. Acked(t).acks = call[t].acks \cup {pc[t]} /\ Acked(t).op = call[t].op
  BY AckedFacts
<1>3. CASE CommandOnlyReplies(t)
  <2>1. Acknowledged(t, "request", "command") /\ pc[t] = "request" /\ UNCHANGED <<store, service>>
    BY <1>3 DEF CommandOnlyReplies, Acknowledged
  <2>2. AuditTrail("command", Acked(t)) /\ "command" \in Stands
    BY DEF AuditTrail, Stands
  <2> QED
    BY <2>1, <2>2, AckedStep
<1>4. CASE CommandEnds(t)
  <2>1. Acknowledged(t, "command", "idle") /\ pc[t] = "command" /\ UNCHANGED <<store, service>>
    BY <1>4 DEF CommandEnds, Acknowledged
  <2>2. "idle" \in Stands
    BY DEF Stands
  <2> QED
    BY <2>1, <2>2, AckedStep
<1>5. CASE AssembleNothing(t)
  <2> DEFINE place == IF call[t].op = "message" THEN "recall" ELSE "route_intent"
  <2>1. Acknowledged(t, "request", place) /\ pc[t] = "request" /\ UNCHANGED <<store, service>>
    BY <1>5 DEF AssembleNothing, Acknowledged
  <2>2. AuditTrail(place, Acked(t)) /\ place \in Stands /\ place # "mirror"
    BY <1>2, <2>1 DEF AuditTrail, Stands
  <2> HIDE DEF place
  <2> QED
    BY <2>1, <2>2, AckedStep
<1>6. CASE Route(t)
  <2>1. /\ Acknowledged(t, "route_intent", "route") /\ pc[t] = "route_intent"
        /\ UNCHANGED <<store, service>>
    BY <1>6 DEF Route, Acknowledged
  <2>2. AuditTrail("route", Acked(t)) /\ "route" \in Stands
    BY <1>1, <1>2, <2>1 DEF AuditTrail, Stands
  <2> QED
    BY <2>1, <2>2, AckedStep
<1>7. CASE Routed(t)
  <2> DEFINE place == IF call[t].op = "isolated" THEN "executing" ELSE "execute_intent"
  <2>1. Acknowledged(t, "route", place) /\ pc[t] = "route" /\ UNCHANGED <<store, service>>
    BY <1>7 DEF Routed, Acknowledged
  <2>2. AuditTrail(place, Acked(t)) /\ place \in Stands /\ place # "mirror"
    BY <1>1, <1>2, <2>1 DEF AuditTrail, Stands
  <2> HIDE DEF place
  <2> QED
    BY <2>1, <2>2, AckedStep
<1>8. CASE Execute(t)
  <2>1. /\ Acknowledged(t, "execute_intent", "executing") /\ pc[t] = "execute_intent"
        /\ UNCHANGED <<store, service>>
    BY <1>8 DEF Execute, Acknowledged
  <2>2. AuditTrail("executing", Acked(t)) /\ "executing" \in Stands
    BY <1>1, <1>2, <2>1 DEF AuditTrail, Stands
  <2> QED
    BY <2>1, <2>2, AckedStep
<1>9. CASE ResultAudited(t)
  <2>1. Acknowledged(t, "execute", "handle") /\ pc[t] = "execute" /\ UNCHANGED <<store, service>>
    BY <1>9 DEF ResultAudited, Acknowledged
  <2>2. AuditTrail("handle", Acked(t)) /\ "handle" \in Stands
    BY <1>1, <1>2, <2>1 DEF AuditTrail, Stands
  <2> QED
    BY <2>1, <2>2, AckedStep
<1>10. CASE StoreNothing(t)
  <2> DEFINE place == IF call[t].op = "message" THEN "mirror" ELSE "idle"
  <2>1. /\ Acknowledged(t, "handle", place) /\ pc[t] = "handle" /\ UNCHANGED <<store, service>>
        /\ call[t].thread = None
    BY <1>10 DEF StoreNothing, Acknowledged
  <2>2. (place # "idle" => AuditTrail(place, Acked(t))) /\ place \in Stands
    BY <1>1, <1>2, <2>1 DEF AuditTrail, Stands
  <2> HIDE DEF place
  <2> QED
    BY <2>1, <2>2, AckedStep
<1> QED
  BY <1>3, <1>4, <1>5, <1>6, <1>7, <1>8, <1>9, <1>10

\* A call arrives: an explicit thread is the sender's.
LEMMA ReceiveStep ==
    ASSUME TurnsInv, NEW t \in Tasks, NEW op \in Ops, NEW o \in Owners,
           NEW i \in Threads \cup {None}, Receive(t, op, o, i)
    PROVE  TurnsInv'
<1> DEFINE n == turns + 1
           c == [NoCall EXCEPT !.op = op, !.owner = o, !.thread = i, !.turn = n]
<1>1. /\ turns \in Nat /\ epoch \in Nat /\ msgs \in Seq(Message)
      /\ i # None => Owns(thread, o, i)
  BY CallFacts DEF Receive, Authorized, Owns
<1>2. Go(t, "request", c) /\ UNCHANGED store /\ turns' = n /\ epoch' = epoch
  BY DEF Receive
<1>3. n \in Nat
  BY <1>1
<1> HIDE DEF n
<1>4. c = [op |-> op, owner |-> o, thread |-> i, turn |-> n, epoch |-> 0,
           context |-> NoContext, acks |-> {}]
  <2> DEFINE a == [NoCall EXCEPT !.op = op]
             b == [a EXCEPT !.owner = o]
  <2>1. b = [op |-> op, owner |-> o, thread |-> None, turn |-> 0, epoch |-> 0,
             context |-> NoContext, acks |-> {}]
    <3>1. a = [op |-> op, owner |-> None, thread |-> None, turn |-> 0, epoch |-> 0,
               context |-> NoContext, acks |-> {}]
      BY DEF NoCall
    <3> HIDE DEF a
    <3> QED
      BY <3>1
  <2>2. c = [b EXCEPT !.thread = i, !.turn = n]
    OBVIOUS
  <2> HIDE DEF b, c
  <2> QED
    BY <2>1, <2>2
<1> HIDE DEF c
<1>5. /\ c \in CallRecord /\ c.op = op /\ c.owner = o /\ c.thread = i /\ c.context = NoContext
  <2>1. NoContext \in ContextRecord
    BY NoCallOk
  <2>2. c \in CallRecord
    BY <1>3, <1>4, <2>1 DEF CallRecord
  <2> QED
    BY <1>4, <2>2
<1>6. NoContext.recall = {} /\ AuditTrail("request", c) /\ "request" \in Stands
  BY DEF NoContext, AuditTrail, Stands
<1>7. CallOk("request", c, msgs, thread)
  BY <1>1, <1>5, <1>6, NoCallOk DEF CallOk
<1> QED
  BY <1>1, <1>2, <1>3, <1>5, <1>6, <1>7, QuietStep

\* A call goes on, or it ends, and keeps its locals.
LEMMA GotoPlace ==
    ASSUME TurnsInv, NEW t \in Tasks, NEW place \in Stands, pc[t] # "idle", Goto(t, place),
           UNCHANGED <<store, service>>, place # "mirror",
           place # "idle" => AuditTrail(place, call[t])
    PROVE  TurnsInv'
<1>1. /\ Go(t, place, call[t]) /\ UNCHANGED store /\ epoch' \in Nat /\ turns' \in Nat
      /\ call[t] \in CallRecord
  BY CallFacts DEF Goto, service
<1>2. place # "idle" => CallOk(place, call[t], msgs, thread)
  <2>1. CallOk(pc[t], call[t], msgs, thread) /\ call[t].op \in Ops /\ call[t].owner \in Owners
    BY CallFacts
  <2> QED
    BY <2>1 DEF CallOk
<1> QED
  BY <1>1, <1>2, QuietStep

\* The execution ends or times out; a call is abandoned.
LEMMA GotoSteps ==
    ASSUME TurnsInv, NEW t \in Tasks, ExecuteEnds(t) \/ TimesOut(t) \/ Abandon(t)
    PROVE  TurnsInv'
<1>1. AuditTrail(pc[t], call[t]) /\ "idle" \in Stands /\ "handle" \in Stands /\ "execute" \in Stands
  BY CallFacts DEF Stands
<1>2. CASE ExecuteEnds(t)
  <2>1. /\ pc[t] = "executing" /\ UNCHANGED <<store, service>>
        /\ Goto(t, "handle") \/ Goto(t, "execute")
    BY <1>2 DEF ExecuteEnds
  <2>2. AuditTrail("handle", call[t]) /\ AuditTrail("execute", call[t])
    BY <1>1, <2>1 DEF AuditTrail
  <2> QED
    BY <1>1, <2>1, <2>2, GotoPlace
<1>3. CASE TimesOut(t)
  <2>1. /\ pc[t] \in {"execute_intent", "executing", "execute"} /\ Goto(t, "handle")
        /\ UNCHANGED <<store, service>>
    BY <1>3 DEF TimesOut
  <2>2. AuditTrail("handle", call[t])
    BY <1>1, <2>1 DEF AuditTrail
  <2> QED
    BY <1>1, <2>1, <2>2, GotoPlace
<1>4. CASE Abandon(t)
  <2>1. pc[t] # "idle" /\ Goto(t, "idle") /\ UNCHANGED <<store, service>>
    BY <1>4 DEF Abandon
  <2> QED
    BY <1>1, <2>1, GotoPlace
<1> QED
  BY <1>2, <1>3, <1>4

\* The memory recalls turns of the call's thread.
LEMMA RecallStep ==
    ASSUME TurnsInv, NEW t \in Tasks, Recall(t) PROVE TurnsInv'
<1> DEFINE x == call[t].context
<1>1. PICK found \in {{}, recall[Place(t)]} :
          Go(t, "route_intent", [call[t] EXCEPT !.context = [x EXCEPT !.recall = found]])
  BY DEF Recall
<1> DEFINE y == [x EXCEPT !.recall = found]
           c == [call[t] EXCEPT !.context = y]
<1>2. /\ pc[t] = "recall" /\ UNCHANGED store /\ epoch' \in Nat /\ turns' \in Nat
      /\ call[t] \in CallRecord /\ CallOk(pc[t], call[t], msgs, thread)
      /\ call[t].op \in Ops /\ call[t].owner \in Owners /\ AuditTrail(pc[t], call[t])
      /\ recall \in [Threads \cup Owners -> SUBSET Nat]
  BY CallFacts DEF Recall, service
<1>3. Place(t) \in Threads \cup Owners /\ (call[t].thread # None => Place(t) = call[t].thread)
  BY <1>2 DEF Place, CallRecord
<1>4. found \in SUBSET Nat
  BY <1>2, <1>3
<1>5. call[t].thread # None => \A turn \in found : Remembered(msgs, call[t].thread, turn)
  <2>1. call[t].thread \in Threads \cup {None}
    BY <1>2 DEF CallRecord
  <2>2. \A j \in Threads : \A turn \in recall[j] : Remembered(msgs, j, turn)
    BY DEF TurnsInv, StoreInv
  <2> QED
    BY <1>3, <2>1, <2>2
<1>6. x \in ContextRecord
  BY <1>2 DEF CallRecord
<1>7. /\ y \in ContextRecord /\ y.recall = found /\ y.at = x.at /\ y.thread = x.thread
      /\ y.summary = x.summary /\ y.window = x.window
  <2> HIDE DEF x
  <2> QED
    BY <1>4, <1>6 DEF ContextRecord
<1>8. Exact(y, msgs)
  <2>1. Exact(x, msgs)
    BY <1>2 DEF CallOk
  <2> HIDE DEF x, y
  <2> QED
    BY <1>7, <2>1 DEF Exact
<1>9. /\ c \in CallRecord /\ c.context = y /\ c.op = call[t].op /\ c.owner = call[t].owner
      /\ c.thread = call[t].thread /\ c.turn = call[t].turn /\ c.acks = call[t].acks
  <2> DEFINE b == call[t]
  <2>1. b \in CallRecord
    BY <1>2
  <2> HIDE DEF b, y
  <2>2. \A z : z = [b EXCEPT !.context = y] =>
            /\ z \in CallRecord /\ z.context = y /\ z.op = b.op /\ z.owner = b.owner
            /\ z.thread = b.thread /\ z.turn = b.turn /\ z.acks = b.acks
    BY <1>7, <2>1 DEF CallRecord
  <2> QED
    BY <2>2 DEF b
<1>10. Go(t, "route_intent", c)
  BY <1>1
<1> HIDE DEF c, y
<1>11. AuditTrail("route_intent", c) /\ "route_intent" \in Stands
  BY <1>2, <1>9 DEF AuditTrail, Stands
<1>12. CallOk("route_intent", c, msgs, thread)
  BY <1>2, <1>5, <1>7, <1>8, <1>9, <1>11 DEF CallOk
<1> QED
  BY <1>2, <1>9, <1>10, <1>11, <1>12, QuietStep

\* What the store says stays true when messages are appended and threads created.
LEMMA StoreGrows ==
    ASSUME TurnsInv, NEW n \in Seq(Message), Grown(msgs, n), NEW tk \in ThreadRows,
           Kept(thread, tk)
    PROVE  /\ \A i \in Threads : SummaryOk(summary[i], i, n)
           /\ \A i \in Threads : \A turn \in recall[i] : Remembered(n, i, turn)
           /\ \A o \in Owners : active[o] # None => Owns(tk, o, active[o])
           /\ \A i \in Threads : thread[i] # None /\ tk[i].parent # None =>
                  Owns(tk, tk[i].owner, tk[i].parent)
<1>1. /\ msgs \in Seq(Message) /\ summary \in [Threads -> Summary]
      /\ active \in [Owners -> Threads \cup {None}] /\ thread \in ThreadRows
  BY DEF TurnsInv, TurnsType
<1>2. ASSUME NEW i \in Threads PROVE SummaryOk(summary[i], i, n)
  <2>1. summary[i] \in Summary /\ SummaryOk(summary[i], i, msgs)
    BY <1>1 DEF TurnsInv, StoreInv
  <2> QED
    BY <1>1, <2>1, SummaryGrows
<1>3. ASSUME NEW i \in Threads, NEW turn \in recall[i] PROVE Remembered(n, i, turn)
  <2>1. Remembered(msgs, i, turn)
    BY DEF TurnsInv, StoreInv
  <2> QED
    BY <1>1, <2>1, RememberedGrows
<1>4. ASSUME NEW o \in Owners, active[o] # None PROVE Owns(tk, o, active[o])
  <2>1. Owns(thread, o, active[o]) /\ active[o] \in Threads
    BY <1>1, <1>4 DEF TurnsInv, StoreInv
  <2> QED
    BY <2>1, OwnsKept
<1>5. ASSUME NEW i \in Threads, thread[i] # None, tk[i].parent # None
      PROVE  Owns(tk, tk[i].owner, tk[i].parent)
  <2>1. tk[i] = thread[i] /\ thread[i] \in Row
    BY <1>1, <1>5 DEF Kept, ThreadRows
  <2>2. thread[i].parent \in Threads
    BY <1>5, <2>1 DEF Row
  <2>3. Owns(thread, thread[i].owner, thread[i].parent)
    BY <1>5, <2>1 DEF TurnsInv, StoreInv
  <2> QED
    BY <2>1, <2>2, <2>3, OwnsKept
<1> QED
  BY <1>2, <1>3, <1>4, <1>5

\* A new thread, or a branch of an own one.
LEMMA ThreadAdded ==
    ASSUME TurnsInv, NEW i \in Threads, thread[i] = None, NEW r \in Row,
           r.parent # None => Owns(thread, r.owner, r.parent), NEW tk,
           tk = [thread EXCEPT ![i] = r]
    PROVE  /\ tk \in ThreadRows /\ Kept(thread, tk) /\ Owns(tk, r.owner, i)
           /\ \A j \in Threads : tk[j] # None /\ tk[j].parent # None =>
                  Owns(tk, tk[j].owner, tk[j].parent)
<1>1. thread \in ThreadRows /\ r # None /\ r.parent \in Threads \cup {None} /\ msgs \in Seq(Message)
  BY DEF TurnsInv, TurnsType, Row
<1>2. tk \in ThreadRows /\ tk[i] = r /\ \A j \in Threads \ {i} : tk[j] = thread[j]
  BY <1>1 DEF ThreadRows
<1>3. Kept(thread, tk) /\ Owns(tk, r.owner, i)
  BY <1>1, <1>2 DEF Kept, Owns
<1>4. ASSUME NEW j \in Threads, tk[j] # None, tk[j].parent # None
      PROVE  Owns(tk, tk[j].owner, tk[j].parent)
  <2>1. CASE j = i
    <3>1. r.parent \in Threads /\ Owns(thread, r.owner, r.parent)
      BY <1>1, <1>2, <1>4, <2>1
    <3> QED
      BY <1>2, <1>3, <2>1, <3>1, OwnsKept
  <2>2. CASE j # i
    <3>1. thread[j] # None
      BY <1>2, <1>4, <2>2
    <3> QED
      BY <1>1, <1>2, <1>3, <1>4, <3>1, Same, StoreGrows
  <2> QED
    BY <2>1, <2>2
<1> QED
  BY <1>2, <1>3, <1>4

\* A step of no call: no message is appended.
LEMMA OtherStep ==
    ASSUME TurnsInv, UNCHANGED <<active, msgs, summary, recall, pc, call>>, epoch' \in Nat,
           turns' \in Nat, thread' \in ThreadRows, Kept(thread, thread'),
           \A i \in Threads : thread'[i] # None /\ thread'[i].parent # None =>
               Owns(thread', thread'[i].owner, thread'[i].parent)
    PROVE  TurnsInv'
<1>1. msgs \in Seq(Message) /\ Grown(msgs, msgs)
  BY Same DEF TurnsInv, TurnsType
<1>2. StoreInv'
  <2>1. /\ \A i \in Threads : SummaryOk(summary[i], i, msgs)
        /\ \A i \in Threads : \A turn \in recall[i] : Remembered(msgs, i, turn)
        /\ \A o \in Owners : active[o] # None => Owns(thread', o, active[o])
    BY <1>1, StoreGrows
  <2>2. Paired(msgs)
    BY DEF TurnsInv, StoreInv
  <2> QED
    BY <2>1, <2>2 DEF StoreInv
<1>3. TurnsType'
  BY DEF TurnsInv, TurnsType
<1>4. ASSUME NEW t \in Tasks PROVE CallOk(pc[t], call[t], msgs, thread')
  <2>1. CallOk(pc[t], call[t], msgs, thread) /\ call[t] \in CallRecord
    BY CallFacts
  <2> QED
    BY <1>1, <2>1, CallKept
<1> QED
  BY <1>2, <1>3, <1>4 DEF TurnsInv

\* A trusted caller creates a workspace or a thread.
LEMMA CreateSteps ==
    ASSUME TurnsInv,
           \/ \E o \in Owners : CreateWorkspace(o)
           \/ \E o \in Owners, i \in Threads, s \in 1 .. Spaces, p \in Threads \cup {None} :
                 CreateThread(o, i, s, p)
    PROVE  TurnsInv'
<1>1. thread \in ThreadRows /\ epoch \in Nat /\ turns \in Nat
  BY DEF TurnsInv, TurnsType
<1>2. CASE \E o \in Owners : CreateWorkspace(o)
  <2>1. /\ UNCHANGED <<active, msgs, summary, recall, pc, call>> /\ thread' = thread
        /\ epoch' = epoch /\ turns' = turns
    BY <1>2 DEF CreateWorkspace, service
  <2>2. \A i \in Threads : thread[i] # None /\ thread[i].parent # None =>
            Owns(thread, thread[i].owner, thread[i].parent)
    BY DEF TurnsInv, StoreInv
  <2> QED
    BY <1>1, <2>1, <2>2, SameRows, OtherStep
<1>3. ASSUME NEW o \in Owners, NEW i \in Threads, NEW s \in 1 .. Spaces,
             NEW p \in Threads \cup {None}, CreateThread(o, i, s, p)
      PROVE  TurnsInv'
  <2> DEFINE r == [owner |-> o, space |-> s, parent |-> p]
  <2>1. /\ UNCHANGED <<active, msgs, summary, recall, pc, call>> /\ thread[i] = None
        /\ epoch' = epoch /\ turns' = turns /\ thread' = [thread EXCEPT ![i] = r]
        /\ p # None => Owns(thread, o, p)
    BY <1>3 DEF CreateThread, service, Authorized, Owns
  <2>2. r \in Row /\ r.owner = o /\ r.parent = p
    BY DEF Row
  <2> HIDE DEF r
  <2> QED
    BY <1>1, <2>1, <2>2, ThreadAdded, OtherStep
<1> QED
  BY <1>2, <1>3

\* The service stops, or it is killed and all calls with it.
LEMMA StopSteps ==
    ASSUME TurnsInv, Stop \/ Kill PROVE TurnsInv'
<1>1. /\ epoch' \in Nat /\ turns' \in Nat /\ UNCHANGED <<thread, active, msgs, summary, recall>>
      /\ thread \in ThreadRows /\ msgs \in Seq(Message)
  BY DEF Stop, Kill, store, TurnsInv, TurnsType
<1>2. CASE Stop
  <2>1. UNCHANGED <<pc, call>>
    BY <1>2 DEF Stop
  <2>2. \A i \in Threads : thread[i] # None /\ thread[i].parent # None =>
            Owns(thread, thread[i].owner, thread[i].parent)
    BY DEF TurnsInv, StoreInv
  <2> QED
    BY <1>1, <2>1, <2>2, SameRows, OtherStep
<1>3. CASE Kill
  <2>1. pc' = [t \in Tasks |-> "idle"] /\ call' = [t \in Tasks |-> NoCall]
    BY <1>3 DEF Kill
  <2>2. TurnsType'
    BY <1>1, <2>1, NoCallOk DEF TurnsInv, TurnsType, Stands
  <2>3. StoreInv'
    BY <1>1, StoreSame DEF TurnsInv
  <2>4. \A t \in Tasks : CallOk(pc'[t], call'[t], msgs', thread')
    BY <1>1, <2>1, NoCallOk
  <2> QED
    BY <2>2, <2>3, <2>4 DEF TurnsInv
<1> QED
  BY <1>2, <1>3

\* /new and /switch activate a thread of the sender.
LEMMA ActivateStep ==
    ASSUME TurnsInv, NEW t \in Tasks, NEW i \in Threads, Acknowledged(t, "request", "command"),
           active' = [active EXCEPT ![call[t].owner] = i],
           UNCHANGED <<msgs, summary, recall, service>>, thread' \in ThreadRows,
           Kept(thread, thread'), Owns(thread', call[t].owner, i),
           \A j \in Threads : thread'[j] # None /\ thread'[j].parent # None =>
               Owns(thread', thread'[j].owner, thread'[j].parent)
    PROVE  TurnsInv'
<1>1. /\ pc[t] = "request" /\ Go(t, "command", Acked(t)) /\ epoch' \in Nat /\ turns' \in Nat
      /\ msgs \in Seq(Message) /\ summary \in [Threads -> Summary]
      /\ active \in [Owners -> Threads \cup {None}] /\ call[t].owner \in Owners
      /\ recall \in [Threads \cup Owners -> SUBSET Nat] /\ UNCHANGED <<msgs, summary, recall>>
  BY CallFacts DEF Acknowledged, service
<1>2. "command" \in Stands /\ Acked(t) \in CallRecord /\ Grown(msgs, msgs)
  BY <1>1, AckedFacts, Same DEF Stands
<1>3. CallOk("command", Acked(t), msgs', thread')
  <2>1. AuditTrail("command", Acked(t))
    BY DEF AuditTrail
  <2>2. CallOk("command", Acked(t), msgs, thread)
    BY <1>1, <2>1, AckedOk
  <2> QED
    BY <1>1, <1>2, <2>2, CallKept
<1>4. active' \in [Owners -> Threads \cup {None}]
  BY <1>1
<1>5. StoreInv'
  <2>1. /\ \A j \in Threads : SummaryOk(summary[j], j, msgs)
        /\ \A j \in Threads : \A turn \in recall[j] : Remembered(msgs, j, turn)
        /\ \A o \in Owners : active[o] # None => Owns(thread', o, active[o])
    BY <1>1, <1>2, StoreGrows
  <2>2. \A o \in Owners : active'[o] # None => Owns(thread', o, active'[o])
    BY <1>1, <2>1
  <2>3. Paired(msgs)
    BY DEF TurnsInv, StoreInv
  <2> QED
    BY <1>1, <2>1, <2>2, <2>3 DEF StoreInv
<1> QED
  BY <1>1, <1>2, <1>3, <1>4, <1>5, CallStep

\* So do the commands that create a thread or switch to one.
LEMMA CommandSteps ==
    ASSUME TurnsInv, NEW t \in Tasks, NEW i \in Threads, CommandNew(t, i) \/ CommandSwitch(t, i)
    PROVE  TurnsInv'
<1>1. CASE CommandNew(t, i)
  <2> DEFINE r == [owner |-> call[t].owner, space |-> 1, parent |-> None]
  <2>1. /\ thread[i] = None /\ pc[t] = "request" /\ thread' = [thread EXCEPT ![i] = r]
        /\ Acknowledged(t, "request", "command")
        /\ active' = [active EXCEPT ![call[t].owner] = i]
        /\ UNCHANGED <<msgs, summary, recall, service>>
    BY <1>1 DEF CommandNew, Acknowledged
  <2>2. call[t].owner \in Owners /\ 1 \in 1 .. Spaces
    BY <2>1, CallFacts
  <2>3. r \in Row /\ r.parent = None /\ r.owner = call[t].owner
    BY <2>2 DEF Row
  <2> HIDE DEF r
  <2>4. /\ thread' \in ThreadRows /\ Kept(thread, thread') /\ Owns(thread', call[t].owner, i)
        /\ \A j \in Threads : thread'[j] # None /\ thread'[j].parent # None =>
               Owns(thread', thread'[j].owner, thread'[j].parent)
    BY <2>1, <2>3, ThreadAdded
  <2> QED
    BY <2>1, <2>4, ActivateStep
<1>2. CASE CommandSwitch(t, i)
  <2>1. /\ Owns(thread, call[t].owner, i) /\ Acknowledged(t, "request", "command")
        /\ thread' = thread /\ active' = [active EXCEPT ![call[t].owner] = i]
        /\ UNCHANGED <<msgs, summary, recall, service>>
    BY <1>2 DEF CommandSwitch, Authorized, Owns
  <2>2. thread \in ThreadRows
    BY DEF TurnsInv, TurnsType
  <2>3. \A j \in Threads : thread[j] # None /\ thread[j].parent # None =>
            Owns(thread, thread[j].owner, thread[j].parent)
    BY DEF TurnsInv, StoreInv
  <2> QED
    BY <2>1, <2>2, <2>3, SameRows, ActivateStep
<1> QED
  BY <1>1, <1>2

\* assemble() returns the context of a thread of the sender.
LEMMA AssembleStep ==
    ASSUME TurnsInv, NEW t \in Tasks, AssembleThread(t) PROVE TurnsInv'
<1> DEFINE i == CurrentThread(t)
           new == summary'
           x == Context(i, new[i])
           c == [Acked(t) EXCEPT !.context = x, !.thread = i, !.epoch = epoch]
<1>1. /\ pc[t] = "request" /\ i # None /\ Go(t, "recall", c)
      /\ summary' = new /\ new \in IF Lags(i) THEN Summarized(i, Last(Behind(i))) ELSE {summary}
      /\ UNCHANGED <<thread, active, msgs, recall>> /\ epoch' = epoch /\ turns' = turns
  BY DEF AssembleThread, service
<1>2. /\ TurnsType /\ call[t] \in CallRecord /\ CallOk(pc[t], call[t], msgs, thread)
      /\ msgs \in Seq(Message) /\ thread \in ThreadRows /\ epoch \in Nat /\ turns \in Nat
      /\ summary \in [Threads -> Summary] /\ active \in [Owners -> Threads \cup {None}]
      /\ recall \in [Threads \cup Owners -> SUBSET Nat]
      /\ call[t].op \in Ops /\ call[t].owner \in Owners
      /\ \A j \in Threads : SummaryOk(summary[j], j, msgs)
  BY <1>1, CallFacts DEF TurnsInv, StoreInv
<1>3. i \in Threads /\ Owns(thread, call[t].owner, i)
  <2>1. CASE call[t].thread # None \/ call[t].op # "message"
    <3>1. i = call[t].thread
      BY <2>1 DEF CurrentThread
    <3> QED
      BY <1>1, <1>2, <3>1 DEF CallOk, CallRecord
  <2>2. CASE ~(call[t].thread # None \/ call[t].op # "message")
    <3>1. i = active[call[t].owner]
      BY <2>2 DEF CurrentThread
    <3>2. i \in Threads
      BY <1>1, <1>2, <3>1
    <3> QED
      BY <1>1, <1>2, <3>1, <3>2 DEF TurnsInv, StoreInv
  <2> QED
    BY <2>1, <2>2
<1> HIDE DEF i
<1>4. /\ new \in [Threads -> Summary] /\ \A j \in Threads : SummaryOk(new[j], j, msgs)
      /\ \A r \in Behind(i) : r <= new[i].upto
  <2>1. CASE Lags(i)
    <3>1. Behind(i) # {} /\ new \in Summarized(i, Last(Behind(i)))
      BY <1>1, <2>1 DEF Lags
    <3>2. /\ new \in [Threads -> Summary] /\ SummaryOk(new[i], i, msgs)
          /\ new[i].upto = Last(Behind(i))
          /\ \A j \in Threads \ {i} : new[j] = summary[j]
      BY <1>2, <1>3, <3>1, SummarizedOk
    <3>3. \A r \in Behind(i) : r <= Last(Behind(i))
      BY <1>2, <1>3, <3>1, LastBehind
    <3> HIDE DEF new
    <3> QED
      BY <1>2, <3>2, <3>3
  <2>2. CASE ~Lags(i)
    <3>1. new = summary
      BY <1>1, <2>2
    <3>2. \A r \in Behind(i) : r <= summary[i].upto
      <4> SUFFICES ASSUME NEW r \in Behind(i) PROVE r <= summary[i].upto
        OBVIOUS
      <4>1. ~(summary[i].upto < Last(Behind(i)))
        BY <2>2 DEF Lags
      <4>2. /\ Last(Behind(i)) \in Behind(i) /\ r <= Last(Behind(i))
        BY <1>2, <1>3, LastBehind
      <4>3. Behind(i) \subseteq 1 .. Len(msgs) /\ Len(msgs) \in Nat
        BY <1>2, <1>3, RowFacts
      <4>4. summary[i].upto \in Nat
        BY <1>2, <1>3 DEF Summary
      <4> QED
        BY <4>1, <4>2, <4>3, <4>4
    <3> HIDE DEF new
    <3> QED
      BY <1>2, <3>1, <3>2
  <2> QED
    BY <2>1, <2>2
<1> HIDE DEF new
<1>5. x \in ContextRecord /\ Exact(x, msgs) /\ x.recall = {}
  <2>1. new[i] \in Summary /\ SummaryOk(new[i], i, msgs)
    BY <1>3, <1>4
  <2>2. x \in ContextRecord /\ Exact(x, msgs)
    BY <1>2, <1>3, <1>4, <2>1, ContextExactly
  <2>3. x.recall = {}
    BY DEF Context
  <2> QED
    BY <2>2, <2>3
<1> HIDE DEF x
<1>6. /\ c \in CallRecord /\ c.context = x /\ c.thread = i /\ c.op = call[t].op
      /\ c.owner = call[t].owner /\ c.acks = call[t].acks \cup {pc[t]}
  <2> DEFINE a == Acked(t)
             b == [a EXCEPT !.context = x]
             d == [b EXCEPT !.thread = i]
  <2>1. /\ a \in CallRecord /\ a.op = call[t].op /\ a.owner = call[t].owner
        /\ a.acks = call[t].acks \cup {pc[t]}
    BY AckedFacts
  <2>2. c = [d EXCEPT !.epoch = epoch]
    OBVIOUS
  <2> HIDE DEF a, c
  <2>3. b \in CallRecord /\ b.context = x /\ b.op = a.op /\ b.owner = a.owner /\ b.acks = a.acks
    BY <1>5, <2>1 DEF CallRecord
  <2> HIDE DEF b
  <2>4. /\ d \in CallRecord /\ d.context = x /\ d.op = b.op /\ d.owner = b.owner
        /\ d.acks = b.acks /\ d.thread = i
    BY <1>3, <2>3 DEF CallRecord
  <2> HIDE DEF d
  <2>5. /\ c \in CallRecord /\ c.context = x /\ c.op = d.op /\ c.owner = d.owner
        /\ c.acks = d.acks /\ c.thread = i
    BY <1>2, <2>2, <2>4 DEF CallRecord
  <2> QED
    BY <2>1, <2>3, <2>4, <2>5
<1> HIDE DEF c
<1>7. AuditTrail("recall", c) /\ "recall" \in Stands
  BY <1>1, <1>6 DEF AuditTrail, Stands
<1>8. CallOk("recall", c, msgs', thread')
  BY <1>1, <1>2, <1>3, <1>5, <1>6, <1>7 DEF CallOk
<1>9. StoreInv'
  BY <1>1, <1>4 DEF TurnsInv, StoreInv
<1>10. Kept(thread, thread') /\ Grown(msgs, msgs')
  BY <1>1, <1>2, Same, SameRows
<1> QED
  BY <1>1, <1>2, <1>4, <1>6, <1>7, <1>8, <1>9, <1>10, CallStep

\* A message after those of m.
After(m, n, x) == n \in Seq(Message) /\ Len(n) = Len(m) + 1 /\ n[Len(n)] = x /\ Grown(m, n)

\* A request at the end leaves requests and replies paired,
LEMMA RequestAppended ==
    ASSUME NEW m \in Seq(Message), Paired(m), NEW n, NEW x, After(m, n, x), x.role = "user"
    PROVE  Paired(n)
<1> SUFFICES ASSUME NEW r \in DOMAIN n, n[r].role = "assistant"
             PROVE  r > 1 /\ n[r - 1] = [n[r] EXCEPT !.role = "user"]
  BY DEF Paired
<1>1. /\ n \in Seq(Message) /\ Len(m) \in Nat /\ DOMAIN m = 1 .. Len(m) /\ Len(n) = Len(m) + 1
      /\ DOMAIN n = 1 .. Len(n) /\ n[Len(n)] = x /\ \A k \in 1 .. Len(m) : n[k] = m[k]
  BY Lengths DEF After, Grown
<1>2. r # Len(n)
  BY <1>1
<1>3. r \in 1 .. Len(m)
  BY <1>1, <1>2
<1>4. r > 1 /\ m[r - 1] = [m[r] EXCEPT !.role = "user"]
  BY <1>1, <1>3 DEF Paired
<1>5. r - 1 \in 1 .. Len(m)
  BY <1>1, <1>3, <1>4
<1> QED
  BY <1>1, <1>3, <1>4, <1>5

\* and so does the reply of the request that is last.
LEMMA ReplyAppended ==
    ASSUME NEW m \in Seq(Message), Paired(m), NEW n, NEW x, After(m, n, x),
           Len(m) > 0, m[Len(m)] = [x EXCEPT !.role = "user"]
    PROVE  Paired(n)
<1> SUFFICES ASSUME NEW r \in DOMAIN n, n[r].role = "assistant"
             PROVE  r > 1 /\ n[r - 1] = [n[r] EXCEPT !.role = "user"]
  BY DEF Paired
<1>1. /\ n \in Seq(Message) /\ Len(m) \in Nat /\ DOMAIN m = 1 .. Len(m) /\ Len(n) = Len(m) + 1
      /\ DOMAIN n = 1 .. Len(n) /\ n[Len(n)] = x /\ \A k \in 1 .. Len(m) : n[k] = m[k]
  BY Lengths DEF After, Grown
<1>2. CASE r = Len(n)
  <2>1. r - 1 = Len(m) /\ r > 1 /\ Len(m) \in 1 .. Len(m)
    BY <1>1, <1>2
  <2>2. n[Len(m)] = [n[r] EXCEPT !.role = "user"]
    BY <1>1, <1>2, <2>1
  <2> QED
    BY <2>1, <2>2
<1>3. CASE r # Len(n)
  <2>1. r \in 1 .. Len(m)
    BY <1>1, <1>3
  <2>2. r > 1 /\ m[r - 1] = [m[r] EXCEPT !.role = "user"]
    BY <1>1, <2>1 DEF Paired
  <2>3. r - 1 \in 1 .. Len(m)
    BY <1>1, <2>1, <2>2
  <2> QED
    BY <1>1, <2>1, <2>2, <2>3
<1> QED
  BY <1>2, <1>3

Continues(n, m, e) ==
    /\ n \in Seq(Message) /\ Len(n) = Len(m) + Len(e)
    /\ \A r \in 1 .. Len(m) : n[r] = m[r]
    /\ \A d \in 1 .. Len(e) : n[Len(m) + d] = e[d]

\* Two sequences of messages, one after the other.
LEMMA Concatenated ==
    ASSUME NEW m \in Seq(Message), NEW e \in Seq(Message) PROVE Continues(m \o e, m, e)
<1> DEFINE n == m \o e
<1>1. Len(m) \in Nat /\ Len(e) \in Nat
  BY Lengths
<1>2. /\ n \in Seq(Message) /\ Len(n) = Len(m) + Len(e)
      /\ \A k \in 1 .. Len(m) + Len(e) : n[k] = IF k <= Len(m) THEN m[k] ELSE e[k - Len(m)]
  BY ConcatProperties
<1>3. \A r \in 1 .. Len(m) : r \in 1 .. Len(m) + Len(e) /\ r <= Len(m)
  BY <1>1
<1>4. \A d \in 1 .. Len(e) : /\ Len(m) + d \in 1 .. Len(m) + Len(e)
                             /\ ~(Len(m) + d <= Len(m)) /\ (Len(m) + d) - Len(m) = d
  BY <1>1
<1> HIDE DEF n
<1> QED
  BY <1>2, <1>3, <1>4 DEF Continues, n

\* What StoreTurn and StoreFails append.
LEMMA AppendedFacts ==
    ASSUME TurnsInv, NEW i \in Threads, NEW turn \in Nat
    PROVE  /\ Appended(i, turn, <<"user">>) \in Seq(Message)
           /\ Grown(msgs, Appended(i, turn, <<"user">>)) /\ Paired(Appended(i, turn, <<"user">>))
           /\ Appended(i, turn, <<"user", "assistant">>) \in Seq(Message)
           /\ Grown(msgs, Appended(i, turn, <<"user", "assistant">>))
           /\ Paired(Appended(i, turn, <<"user", "assistant">>))
           /\ Remembered(Appended(i, turn, <<"user", "assistant">>), i, turn)
<1> DEFINE x == [thread |-> i, turn |-> turn, role |-> "user"]
           y == [thread |-> i, turn |-> turn, role |-> "assistant"]
           a == Appended(i, turn, <<"user">>)
           b == Appended(i, turn, <<"user", "assistant">>)
           A == [k \in 1 .. Len(<<"user">>) |->
                    [thread |-> i, turn |-> turn, role |-> <<"user">>[k]]]
           B == [k \in 1 .. Len(<<"user", "assistant">>) |->
                    [thread |-> i, turn |-> turn, role |-> <<"user", "assistant">>[k]]]
<1>1. a = msgs \o A /\ b = msgs \o B
  BY DEF Appended
<1>2. msgs \in Seq(Message) /\ Paired(msgs) /\ Len(msgs) \in Nat
  BY Lengths DEF TurnsInv, TurnsType, StoreInv
<1>3. /\ x \in Message /\ y \in Message /\ x.role = "user" /\ x = [y EXCEPT !.role = "user"]
      /\ x.thread = i /\ x.turn = turn
  BY DEF Message
<1>4. A = <<x>>
  OBVIOUS
<1>5. B = <<x, y>>
  OBVIOUS
<1> HIDE DEF a, b, x, y, A, B
<1>6. /\ A \in Seq(Message) /\ Len(A) = 1 /\ A[1] = x
      /\ B \in Seq(Message) /\ Len(B) = 2 /\ B[1] = x /\ B[2] = y
  BY <1>3, <1>4, <1>5
<1>7. /\ a \in Seq(Message) /\ Len(a) = Len(msgs) + 1
      /\ \A r \in 1 .. Len(msgs) : a[r] = msgs[r]
      /\ a[Len(msgs) + 1] = x
  <2>1. Continues(a, msgs, A)
    BY <1>1, <1>2, <1>6, Concatenated, Zenon
  <2> QED
    BY <1>6, <2>1 DEF Continues
<1>8. /\ b \in Seq(Message) /\ Len(b) = Len(msgs) + 2
      /\ \A r \in 1 .. Len(msgs) : b[r] = msgs[r]
      /\ b[Len(msgs) + 1] = x /\ b[Len(msgs) + 2] = y
  <2>1. Continues(b, msgs, B)
    BY <1>1, <1>2, <1>6, Concatenated, Zenon
  <2> QED
    BY <1>6, <2>1 DEF Continues
<1>9. After(msgs, a, x)
  BY <1>2, <1>7 DEF After, Grown
<1>10. After(a, b, y)
  <2>1. \A r \in 1 .. Len(a) : r \in 1 .. Len(msgs) \/ r = Len(msgs) + 1
    BY <1>2, <1>7
  <2>2. \A r \in 1 .. Len(a) : b[r] = a[r]
    BY <1>7, <1>8, <2>1
  <2>3. Len(b) = Len(a) + 1 /\ b[Len(b)] = y /\ Len(a) <= Len(b)
    BY <1>2, <1>7, <1>8
  <2> QED
    BY <1>8, <2>2, <2>3 DEF After, Grown
<1>11. Paired(a)
  BY <1>2, <1>3, <1>9, RequestAppended
<1>12. Paired(b)
  <2>1. Len(a) > 0 /\ a[Len(a)] = x
    BY <1>2, <1>7
  <2> QED
    BY <1>3, <1>7, <1>10, <1>11, <2>1, ReplyAppended
<1>13. Grown(msgs, a) /\ Grown(msgs, b)
  BY <1>2, <1>7, <1>8 DEF Grown
<1>14. Remembered(b, i, turn)
  <2>1. Len(msgs) + 1 \in DOMAIN b
    BY <1>2, <1>8, Lengths
  <2> QED
    BY <1>3, <1>8, <2>1 DEF Remembered
<1> QED
  BY <1>7, <1>8, <1>11, <1>12, <1>13, <1>14 DEF a, b

\* A call stores its turn, or the request only.
LEMMA MessagesStep ==
    ASSUME TurnsInv, NEW t \in Tasks, call[t].thread # None, NEW place \in {"mirror", "idle"},
           Acknowledged(t, "handle", place), msgs' \in Seq(Message), Grown(msgs, msgs'),
           Paired(msgs'), UNCHANGED <<thread, active, summary, recall, service>>,
           place = "mirror" => Remembered(msgs', call[t].thread, call[t].turn)
    PROVE  TurnsInv'
<1>1. /\ pc[t] = "handle" /\ Go(t, place, Acked(t)) /\ epoch' \in Nat /\ turns' \in Nat
      /\ UNCHANGED <<thread, active, summary, recall>>
      /\ call[t] \in CallRecord /\ CallOk(pc[t], call[t], msgs, thread)
      /\ AuditTrail(pc[t], call[t]) /\ call[t].op \in Ops /\ call[t].owner \in Owners
      /\ msgs \in Seq(Message) /\ thread \in ThreadRows
      /\ summary \in [Threads -> Summary] /\ active \in [Owners -> Threads \cup {None}]
      /\ recall \in [Threads \cup Owners -> SUBSET Nat]
  BY CallFacts DEF Acknowledged, service
<1>2. Kept(thread, thread) /\ place \in Stands /\ Acked(t) \in CallRecord
  BY SameRows, AckedFacts DEF Stands
<1>3. StoreInv'
  <2>1. /\ \A j \in Threads : SummaryOk(summary[j], j, msgs')
        /\ \A j \in Threads : \A turn \in recall[j] : Remembered(msgs', j, turn)
    BY <1>1, <1>2, StoreGrows
  <2>2. /\ \A o \in Owners : active[o] # None => Owns(thread, o, active[o])
        /\ \A j \in Threads : thread[j] # None /\ thread[j].parent # None =>
               Owns(thread, thread[j].owner, thread[j].parent)
    BY DEF TurnsInv, StoreInv
  <2> QED
    BY <1>1, <2>1, <2>2 DEF StoreInv
<1>4. place # "idle" => CallOk(place, Acked(t), msgs', thread)
  <2> SUFFICES ASSUME place = "mirror" PROVE CallOk("mirror", Acked(t), msgs', thread)
    OBVIOUS
  <2>1. CallOk(pc[t], call[t], msgs', thread)
    BY <1>1, <1>2, CallKept
  <2>2. AuditTrail("mirror", Acked(t))
    BY <1>1, AckedFacts DEF AuditTrail
  <2> QED
    BY <1>1, <2>1, <2>2, AckedFacts DEF CallOk
<1> QED
  BY <1>1, <1>2, <1>3, <1>4, CallStep

\* Storing a turn, both its messages or only the first, keeps the invariant.
LEMMA StoreSteps ==
    ASSUME TurnsInv, NEW t \in Tasks, StoreTurn(t) \/ StoreFails(t) PROVE TurnsInv'
<1> DEFINE i == call[t].thread
           u == call[t].turn
<1>1. i # None /\ call[t] \in CallRecord /\ msgs \in Seq(Message)
  BY CallFacts DEF StoreTurn, StoreFails
<1>2. i \in Threads /\ u \in Nat
  BY <1>1 DEF CallRecord
<1>3. UNCHANGED <<thread, active, summary, recall, service>>
  BY DEF StoreTurn, StoreFails
<1>4. CASE StoreTurn(t)
  <2>1. PICK place \in {"mirror", "idle"} : Acknowledged(t, "handle", place)
    BY <1>4 DEF StoreTurn, StoresAfter
  <2>2. msgs' = Appended(i, u, <<"user", "assistant">>)
    BY <1>4 DEF StoreTurn
  <2>3. /\ msgs' \in Seq(Message) /\ Grown(msgs, msgs') /\ Paired(msgs')
        /\ Remembered(msgs', i, u)
    BY <1>2, <2>2, AppendedFacts
  <2> QED
    BY <1>1, <1>3, <2>1, <2>3, MessagesStep
<1>5. CASE StoreFails(t)
  <2>1. Acknowledged(t, "handle", "idle") /\ msgs' \in {msgs, Appended(i, u, <<"user">>)}
    BY <1>5 DEF StoreFails, StoresAfter
  <2>2. Grown(msgs, msgs) /\ Paired(msgs)
    BY <1>1, Same DEF TurnsInv, StoreInv
  <2>3. /\ Appended(i, u, <<"user">>) \in Seq(Message) /\ Grown(msgs, Appended(i, u, <<"user">>))
        /\ Paired(Appended(i, u, <<"user">>))
    BY <1>2, AppendedFacts
  <2>4. msgs' \in Seq(Message) /\ Grown(msgs, msgs') /\ Paired(msgs')
    BY <1>1, <2>1, <2>2, <2>3
  <2> QED
    BY <1>1, <1>3, <2>1, <2>4, MessagesStep
<1> QED
  BY <1>4, <1>5

\* A turn that was stored is remembered under its thread, and the prefix is summarized.
LEMMA RememberStep ==
    ASSUME TurnsInv, NEW t \in Tasks, Remember(t) PROVE TurnsInv'
<1> DEFINE i == call[t].thread
           p == Place(t)
<1>1. PICK new \in {{}, {call[t].turn}} : recall' = [recall EXCEPT ![p] = @ \cup new]
  BY DEF Remember
<1>2. /\ pc[t] = "mirror" /\ Go(t, "idle", call[t]) /\ Summarize(i)
      /\ UNCHANGED <<thread, active, msgs>> /\ epoch' \in Nat /\ turns' \in Nat
      /\ call[t] \in CallRecord /\ CallOk(pc[t], call[t], msgs, thread)
      /\ call[t].owner \in Owners
      /\ msgs \in Seq(Message) /\ thread \in ThreadRows
      /\ summary \in [Threads -> Summary] /\ active \in [Owners -> Threads \cup {None}]
      /\ recall \in [Threads \cup Owners -> SUBSET Nat]
  BY CallFacts DEF Remember, Goto, service
<1>3. i \in Threads \cup {None} /\ call[t].turn \in Nat /\ "idle" \in Stands
  BY <1>2 DEF CallRecord, Stands
<1>4. p \in Threads \cup Owners /\ (p \in Threads => i # None /\ p = i)
  BY <1>2, <1>3 DEF Place
<1> HIDE DEF p
<1>5. recall' \in [Threads \cup Owners -> SUBSET Nat]
  <2>1. recall[p] \cup new \in SUBSET Nat
    BY <1>2, <1>3, <1>4
  <2> QED
    BY <1>1, <1>2, <2>1
<1>6. ASSUME NEW j \in Threads, NEW turn \in recall'[j] PROVE Remembered(msgs, j, turn)
  <2>1. turn \in recall[j] \/ (j = p /\ turn \in new)
    BY <1>1, <1>2, <1>4, <1>6
  <2>2. CASE turn \in recall[j]
    BY <2>2 DEF TurnsInv, StoreInv
  <2>3. CASE j = p /\ turn \in new
    <3>1. i # None /\ j = i /\ turn = call[t].turn
      BY <1>4, <2>3
    <3> QED
      BY <1>2, <3>1 DEF CallOk
  <2> QED
    BY <2>1, <2>2, <2>3
<1>7. summary' \in [Threads -> Summary] /\ \A j \in Threads : SummaryOk(summary'[j], j, msgs)
  <2>1. \A j \in Threads : SummaryOk(summary[j], j, msgs)
    BY DEF TurnsInv, StoreInv
  <2>2. CASE UNCHANGED summary
    BY <1>2, <2>1, <2>2
  <2>3. CASE i # None /\ Behind(i) # {} /\ summary' \in Summarized(i, Last(Behind(i)))
    <3>1. i \in Threads /\ TurnsType
      BY <1>3, <2>3 DEF TurnsInv
    <3>2. /\ summary' \in [Threads -> Summary] /\ SummaryOk(summary'[i], i, msgs)
          /\ \A j \in Threads \ {i} : summary'[j] = summary[j]
      BY <2>3, <3>1, SummarizedOk
    <3> QED
      BY <2>1, <3>2
  <2> QED
    BY <1>2, <2>2, <2>3 DEF Summarize
<1>8. StoreInv'
  <2>1. Paired(msgs)
    BY DEF TurnsInv, StoreInv
  <2>2. /\ \A o \in Owners : active[o] # None => Owns(thread, o, active[o])
        /\ \A j \in Threads : thread[j] # None /\ thread[j].parent # None =>
               Owns(thread, thread[j].owner, thread[j].parent)
    BY DEF TurnsInv, StoreInv
  <2> QED
    BY <1>2, <1>6, <1>7, <2>1, <2>2 DEF StoreInv
<1>9. Kept(thread, thread') /\ Grown(msgs, msgs')
  BY <1>2, Same, SameRows
<1> QED
  BY <1>2, <1>3, <1>5, <1>7, <1>8, <1>9, CallStep

\* The file is new, or holds a thread whose turns are not summarized yet.
LEMMA TurnsInitial ==
    ASSUME Init PROVE TurnsInv
<1>1. /\ active = [o \in Owners |-> None]
      /\ summary = [j \in Threads |-> [upto |-> 0, text |-> {}]]
      /\ recall = [x \in Threads \cup Owners |-> {}] /\ epoch = 0 /\ turns = 0
      /\ pc = [t \in Tasks |-> "idle"] /\ call = [t \in Tasks |-> NoCall]
  BY DEF Init
<1>2. /\ thread \in ThreadRows /\ msgs \in Seq(Message) /\ Paired(msgs)
      /\ \A j \in Threads : thread[j] # None => thread[j].parent = None
  <2>1. CASE thread = [j \in Threads |-> None] /\ msgs = <<>>
    <3>1. msgs \in Seq(Message) /\ Len(msgs) = 0 /\ DOMAIN msgs = {}
      BY <2>1
    <3> QED
      BY <2>1, <3>1 DEF ThreadRows, Paired
  <2>2. ASSUME NEW o \in Owners, NEW i \in Threads, NEW n \in 1 .. Past,
               thread = [x \in Threads |-> IF x # i THEN None ELSE
                            [owner |-> o, space |-> 1, parent |-> None]],
               msgs = [k \in 1 .. 2 * n |-> [thread |-> i, turn |-> 0,
                            role |-> IF k % 2 = 1 THEN "user" ELSE "assistant"]]
        PROVE  /\ thread \in ThreadRows /\ msgs \in Seq(Message) /\ Paired(msgs)
               /\ \A j \in Threads : thread[j] # None => thread[j].parent = None
    <3> DEFINE r == [owner |-> o, space |-> 1, parent |-> None]
    <3>1. r \in Row /\ r.parent = None
      <4>1. 1 \in 1 .. Spaces
        OBVIOUS
      <4> QED
        BY <4>1 DEF Row
    <3>2. thread = [x \in Threads |-> IF x # i THEN None ELSE r]
      BY <2>2
    <3> HIDE DEF r
    <3>3. /\ thread \in ThreadRows
          /\ \A j \in Threads : thread[j] # None => thread[j].parent = None
      BY <3>1, <3>2 DEF ThreadRows
    <3>4. 2 * n \in Nat /\ \A k \in 1 .. 2 * n : k \in Nat
      OBVIOUS
    <3>5. /\ DOMAIN msgs = 1 .. 2 * n
          /\ \A k \in 1 .. 2 * n : msgs[k] = [thread |-> i, turn |-> 0,
                 role |-> IF k % 2 = 1 THEN "user" ELSE "assistant"]
      BY <2>2
    <3>6. msgs \in [1 .. 2 * n -> Message]
      BY <2>2 DEF Message
    <3>7. msgs \in Seq(Message)
      BY <3>4, <3>6
    <3>8. ASSUME NEW k \in DOMAIN msgs, msgs[k].role = "assistant"
          PROVE  k > 1 /\ msgs[k - 1] = [msgs[k] EXCEPT !.role = "user"]
      <4>1. k % 2 # 1 /\ k \in 1 .. 2 * n
        BY <3>5, <3>8
      <4>2. k > 1 /\ (k - 1) % 2 = 1 /\ k - 1 \in 1 .. 2 * n
        BY <4>1, <3>4
      <4>3. /\ msgs[k] = [thread |-> i, turn |-> 0, role |-> "assistant"]
            /\ msgs[k - 1] = [thread |-> i, turn |-> 0, role |-> "user"]
        BY <3>5, <4>1, <4>2
      <4> QED
        BY <4>2, <4>3
    <3> QED
      BY <3>3, <3>7, <3>8 DEF Paired
  <2> QED
    BY <2>1, <2>2 DEF Init
<1>3. TurnsType
  <2>1. summary \in [Threads -> Summary]
    <3>1. [upto |-> 0, text |-> {}] \in Summary
      BY DEF Summary
    <3> QED
      BY <1>1, <3>1
  <2> QED
    BY <1>1, <1>2, <2>1, NoCallOk DEF TurnsType, Stands
<1>4. StoreInv
  <2>1. ASSUME NEW j \in Threads PROVE SummaryOk(summary[j], j, msgs)
    <3>1. summary[j].upto = 0 /\ summary[j].text = {}
      BY <1>1
    <3>2. Len(msgs) \in Nat
      BY <1>2, Lengths
    <3>3. First(msgs, 0, j) = {}
      BY DEF First
    <3>4. summary[j].text \in Clipped(First(msgs, summary[j].upto, j))
      BY <3>1, <3>3, ClippedNothing, Zenon
    <3> QED
      BY <3>1, <3>2, <3>4 DEF SummaryOk
  <2> QED
    BY <1>1, <1>2, <2>1 DEF StoreInv
<1>5. \A t \in Tasks : CallOk(pc[t], call[t], msgs, thread)
  BY <1>1, <1>2, NoCallOk
<1> QED
  BY <1>3, <1>4, <1>5 DEF TurnsInv

\* Every step keeps the invariant.
LEMMA TurnsNext ==
    ASSUME TurnsInv, Next PROVE TurnsInv'
<1>1. ASSUME NEW t \in Tasks, Step(t) PROVE TurnsInv'
  <2>1. CASE \E op \in Ops, o \in Owners, i \in Threads \cup {None} : Receive(t, op, o, i)
    BY <2>1, ReceiveStep
  <2>2. CASE \E i \in Threads : CommandNew(t, i) \/ CommandSwitch(t, i)
    BY <2>2, CommandSteps
  <2>3. CASE \/ CommandOnlyReplies(t) \/ CommandEnds(t) \/ AssembleNothing(t) \/ Route(t)
             \/ Routed(t) \/ Execute(t) \/ ResultAudited(t) \/ StoreNothing(t)
    BY <2>3, AcknowledgedSteps
  <2>4. CASE ExecuteEnds(t) \/ TimesOut(t) \/ Abandon(t)
    BY <2>4, GotoSteps
  <2>5. CASE AssembleThread(t) \/ Recall(t) \/ Remember(t)
    BY <2>5, AssembleStep, RecallStep, RememberStep
  <2>6. CASE StoreTurn(t) \/ StoreFails(t)
    BY <2>6, StoreSteps
  <2> QED
    BY <1>1, <2>1, <2>2, <2>3, <2>4, <2>5, <2>6 DEF Step
<1>2. CASE \/ \E o \in Owners : CreateWorkspace(o)
           \/ \E o \in Owners, i \in Threads, s \in 1 .. Spaces, p \in Threads \cup {None} :
                 CreateThread(o, i, s, p)
  BY <1>2, CreateSteps
<1>3. CASE Stop \/ Kill
  BY <1>3, StopSteps
<1> QED
  BY <1>1, <1>2, <1>3 DEF Next

\* The inductive invariant of the conversations: it holds of a new file and of one with
\* earlier turns, and no call, command, failure, stop or crash breaks it.
THEOREM TurnsInvariant == MCSpec => []TurnsInv
<1>1. MCInit => TurnsInv
  BY TurnsInitial DEF MCInit
<1>2. TurnsInv /\ [MCNext]_<<focus, vars, server, lab>> => TurnsInv'
  <2> SUFFICES ASSUME TurnsInv, [MCNext]_<<focus, vars, server, lab>> PROVE TurnsInv'
    OBVIOUS
  <2>1. Next \/ UNCHANGED vars
    BY DEF MCNext
  <2>2. CASE UNCHANGED vars
    <3>1. UNCHANGED <<thread, active, msgs, summary, recall, epoch, turns, pc, call>>
      BY <2>2 DEF vars, store, service
    <3>2. TurnsType' /\ StoreInv'
      BY <3>1, StoreSame DEF TurnsInv, TurnsType
    <3> QED
      BY <3>1, <3>2 DEF TurnsInv
  <2> QED
    BY <2>1, <2>2, TurnsNext
<1> QED
  BY <1>1, <1>2, PTL DEF MCSpec

\* Only a call whose outcome is acknowledged next appends messages, and only a call whose
\* outcome was acknowledged touches the memory.
LEMMA Writers ==
    ASSUME Next
    PROVE  /\ msgs' # msgs => \E t \in Tasks : pc[t] = "handle"
           /\ recall' # recall => \E t \in Tasks : pc[t] = "mirror"
<1>1. ASSUME NEW t \in Tasks, Step(t)
      PROVE  (msgs' = msgs \/ pc[t] = "handle") /\ (recall' = recall \/ pc[t] = "mirror")
  <2>1. CASE \/ \E op \in Ops, o \in Owners, i \in Threads \cup {None} : Receive(t, op, o, i)
             \/ \E i \in Threads : CommandNew(t, i) \/ CommandSwitch(t, i)
    BY <2>1 DEF Receive, CommandNew, CommandSwitch, store
  <2>2. CASE \/ CommandOnlyReplies(t) \/ CommandEnds(t) \/ AssembleNothing(t) \/ Route(t)
             \/ Routed(t) \/ Execute(t) \/ ResultAudited(t) \/ StoreNothing(t)
    BY <2>2 DEF CommandOnlyReplies, CommandEnds, AssembleNothing, Route, Routed, Execute,
                ResultAudited, StoreNothing, store
  <2>3. CASE \/ ExecuteEnds(t) \/ TimesOut(t) \/ Abandon(t) \/ Recall(t)
    BY <2>3 DEF ExecuteEnds, TimesOut, Abandon, Recall, store
  <2>4. CASE AssembleThread(t)
    BY <2>4 DEF AssembleThread
  <2>5. CASE StoreTurn(t) \/ StoreFails(t)
    BY <2>5 DEF StoreTurn, StoreFails, Acknowledged, StoresAfter
  <2>6. CASE Remember(t)
    BY <2>6 DEF Remember
  <2> QED
    BY <1>1, <2>1, <2>2, <2>3, <2>4, <2>5, <2>6 DEF Step
<1>2. CASE \/ \E o \in Owners : CreateWorkspace(o)
           \/ \E o \in Owners, i \in Threads, s \in 1 .. Spaces, p \in Threads \cup {None} :
                 CreateThread(o, i, s, p)
           \/ Stop \/ Kill
  BY <1>2 DEF CreateWorkspace, CreateThread, Stop, Kill, store
<1> QED
  BY <1>1, <1>2 DEF Next

\* A step that executes, stores or remembers has its entries in the log.
LEMMA AuditedStep ==
    ASSUME TurnsInv, TurnsInv', Next PROVE Audited
<1> DEFINE early == {"request", "route_intent", "route"}
<1>1. ASSUME NEW t \in Tasks, pc'[t] = "executing"
      PROVE  early \subseteq call'[t].acks
                /\ ("execute_intent" \in call'[t].acks \/ call'[t].op = "isolated")
  <2>1. AuditTrail(pc'[t], call'[t])
    BY DEF TurnsInv, CallOk
  <2> QED
    BY <1>1, <2>1 DEF AuditTrail
<1>2. ASSUME NEW t \in Tasks, pc[t] = "handle" PROVE early \subseteq call[t].acks
  <2>1. AuditTrail(pc[t], call[t])
    BY CallFacts
  <2> QED
    BY <1>2, <2>1 DEF AuditTrail
<1>3. ASSUME NEW t \in Tasks, pc[t] = "mirror" PROVE "handle" \in call[t].acks
  <2>1. AuditTrail(pc[t], call[t])
    BY CallFacts
  <2> QED
    BY <1>3, <2>1 DEF AuditTrail
<1>4. msgs' # msgs => \E t \in Tasks : pc[t] = "handle" /\ early \subseteq call[t].acks
  BY <1>2, Writers
<1>5. recall' # recall => \E t \in Tasks : "handle" \in call[t].acks
  BY <1>3, Writers
<1> QED
  BY <1>1, <1>4, <1>5 DEF Audited

\* What the invariant says of the contexts, and of the owners.
LEMMA ContextsExact == ASSUME TurnsInv PROVE ContextExact
<1> SUFFICES ASSUME NEW t \in Tasks, NEW c, c = call[t].context,
                    NEW all, all = {r \in 1 .. c.at : msgs[r].thread = c.thread}
             PROVE  /\ c.summary \cup c.window \subseteq all /\ c.summary \cap c.window = {}
                    /\ \A r \in all \ (c.summary \cup c.window) :
                           \A q \in c.summary \cup c.window : r < q
                    /\ all # c.summary \cup c.window => Cardinality(c.summary) >= Lines
                    /\ Cardinality(c.window) <= Window
                    /\ c.summary # {} => c.window # {}
  BY DEF ContextExact
<1> DEFINE rest == all \ c.window
<1>1. Exact(c, msgs) /\ c \in ContextRecord
  BY CallFacts DEF CallOk, CallRecord
<1>2. all = First(msgs, c.at, c.thread)
  BY DEF First
<1>3. c.at \in Nat
  BY <1>1 DEF ContextRecord
<1>4. rest \subseteq Nat /\ IsFiniteSet(rest)
  <2>1. rest \subseteq 1 .. c.at /\ IsFiniteSet(1 .. c.at)
    <3>1. 1 \in Int /\ c.at \in Int
      BY <1>3
    <3> QED
      BY <3>1, FS_Interval
  <2> QED
    BY <1>3, <2>1, FS_Subset
<1>5. c.summary \in Clipped(rest)
  BY <1>1, <1>2 DEF Exact
<1>6. /\ c.window \subseteq all /\ \A r \in rest : \A q \in c.window : r < q
      /\ Cardinality(c.window) <= Window
      /\ c.summary # {} => c.window # {}
  BY <1>1, <1>2 DEF Exact
<1>7. /\ c.summary \subseteq rest /\ \A r \in rest \ c.summary : \A q \in c.summary : r < q
      /\ rest # c.summary => Cardinality(c.summary) >= Lines
  <2> DEFINE kept == c.summary
  <2>1. rest \subseteq Nat /\ IsFiniteSet(rest) /\ kept \in Clipped(rest)
    BY <1>4, <1>5
  <2> HIDE DEF rest, kept
  <2>2. /\ kept \subseteq rest /\ \A r \in rest \ kept : \A q \in kept : r < q
        /\ rest # kept => Cardinality(kept) >= Lines
    BY ONLY <2>1, ClippedFacts, Zenon
  <2> QED
    BY <2>2, Zenon DEF kept
<1>8. /\ c.summary \cup c.window \subseteq all /\ c.summary \cap c.window = {}
      /\ all \ (c.summary \cup c.window) = rest \ c.summary
      /\ all # c.summary \cup c.window => rest # c.summary
  BY <1>6, <1>7
<1>9. \A r \in all \ (c.summary \cup c.window) : \A q \in c.summary \cup c.window : r < q
  BY <1>6, <1>7, <1>8
<1>10. all # c.summary \cup c.window => Cardinality(c.summary) >= Lines
  BY <1>7, <1>8
<1> QED
  BY <1>6, <1>8, <1>9, <1>10

\* The invariant keeps owners apart, and replies with their requests.
LEMMA OwnersApart == ASSUME TurnsInv PROVE OwnersIsolated
<1>1. ASSUME NEW t \in Tasks, call[t].thread # None
      PROVE  /\ Authorized(call[t].owner, call[t].thread)
             /\ \A turn \in call[t].context.recall :
                    \E r \in DOMAIN msgs : msgs[r].turn = turn /\ msgs[r].thread = call[t].thread
  <2>1. CallOk(pc[t], call[t], msgs, thread)
    BY CallFacts
  <2> QED
    BY <1>1, <2>1 DEF CallOk, Authorized, Owns, Remembered
<1>2. \A o \in Owners : active[o] # None => thread[active[o]].owner = o
  BY DEF TurnsInv, StoreInv, Owns
<1>3. \A i \in Threads : thread[i] # None /\ thread[i].parent # None =>
          thread[thread[i].parent].owner = thread[i].owner
  BY DEF TurnsInv, StoreInv, Owns
<1>4. \A r \in DOMAIN msgs : msgs[r].role = "assistant" =>
          r > 1 /\ msgs[r - 1] = [msgs[r] EXCEPT !.role = "user"]
  BY DEF TurnsInv, StoreInv, Paired
<1> QED
  BY <1>1, <1>2, <1>3, <1>4 DEF OwnersIsolated

\* For any owners, threads, calls and window, and whatever calls, commands, failures, stops
\* and crashes interleave: the context of a turn tells of no message twice, and of all that
\* its thread then had but the oldest ones, if the cap of the summary cut them off; owners
\* stay apart and replies with their requests, and nothing is executed, stored or remembered
\* before its entries are in the audit log (context.py, service.py, threads.py).
THEOREM TurnsSoundHolds == MCSpec => TurnsSound
<1>1. TurnsInv => (focus = "butler" => ContextExact /\ OwnersIsolated)
  BY ContextsExact, OwnersApart
<1>2. TurnsInv /\ TurnsInv' /\ [MCNext]_<<focus, vars, server, lab>>
          => [focus = "butler" => Audited]_vars
  <2> SUFFICES ASSUME TurnsInv, TurnsInv', [MCNext]_<<focus, vars, server, lab>>
               PROVE  [focus = "butler" => Audited]_vars
    OBVIOUS
  <2>1. Next \/ UNCHANGED vars
    BY DEF MCNext
  <2>2. CASE Next
    BY <2>2, AuditedStep
  <2> QED
    BY <2>1, <2>2
<1> QED
  BY <1>1, <1>2, TurnsInvariant, PTL DEF MCSpec, TurnsSound

-----------------------------------------------------------------------------
(* The laboratory.                                                         *)

Txs == {"v4", "v5", "v6", "restored"}

\* The instruction that sends a transaction.
SentAt == [v4 |-> 8, v5 |-> 13, v6 |-> 23, restored |-> 29]

\* Transaction tx is in block h.
Block(tx, h) == h \in 1 .. Len(chain) /\ chain[h] = tx

LabType ==
    /\ sound \in BOOLEAN /\ chain \in Seq(Txs \cup {Nothing})
    /\ height \in [Validators -> Nat] /\ pool \subseteq Txs
    /\ child \in [Validators -> {"none", "up", "dead"}] /\ deaths \in Nat
    /\ at \in 1 .. 34 /\ mark \in Nat /\ (at >= 23 => first \in [{0, 1} -> Nat])
    /\ seen \in BOOLEAN /\ failed \in BOOLEAN /\ stuck \subseteq Validators
    /\ status \in {Nothing, "PASS", "FAIL"} /\ moved \in BOOLEAN

\* A transaction is sent once, waits in the pool, and is in one block at most.
ChainInv ==
    /\ \A n \in Validators : height[n] <= Len(chain)
    /\ \A tx \in pool : at > SentAt[tx]
    /\ \A tx \in Txs, h \in 1 .. Len(chain) :
          chain[h] = tx => at > SentAt[tx] /\ tx \notin pool
    /\ \A tx \in Txs, h, k \in 1 .. Len(chain) : chain[h] = tx /\ chain[k] = tx => h = k

\* What the harness has seen of the chain when it is at an instruction: its mark is the
\* block of the last transaction it saw committed, and all nodes were past it before two
\* of them were stopped.
MarkInv ==
    /\ at \in 10 .. 14 => Block("v4", mark)
    /\ at \in 15 .. 25 => Block("v5", mark)
    /\ at >= 15 => \E h, k \in 1 .. Len(chain) : Block("v4", h) /\ Block("v5", k) /\ h < k
    /\ at \in 19 .. 25 => \A n \in Validators : height[n] > mark

\* The baseline of the watched pair: both transactions are below it, the third is above it
\* if anywhere, and who moved since then shows it at the end of the window.
WatchInv ==
    /\ at >= 23 =>
          \A n \in {0, 1} :
              /\ first[n] <= height[n]
              /\ \E h \in 1 .. Len(chain) : Block("v5", h) /\ h <= first[n]
              /\ \A h \in 1 .. Len(chain) : chain[h] = "v6" => h > first[n]
    /\ at \in 26 .. 30 =>
          /\ first[0] <= mark /\ first[1] <= mark /\ mark \in {first[0], first[1]}
    /\ at >= 31 =>
          \E h \in 1 .. Len(chain) : Block("restored", h) /\ h > first[0] /\ h > first[1]
    /\ moved => at \in {23, 24} /\ \E n \in {0, 1} : height[n] > first[n]

\* Who reports has nothing more to do.
EndInv ==
    /\ status # Nothing => failed \/ at = 34
    /\ status = "PASS" => ~failed /\ Up = {}

LabInv == LabType /\ ChainInv /\ MarkInv /\ WatchInv /\ EndInv

\* The plan has 33 instructions.
LEMMA PlanLength == Len(Plan) = 33
BY DEF Plan, PhaseVersion, PhaseTestnet, PhaseStart4, PhaseTx4, PhaseStop1Commit3,
       PhaseRestartCatchup, PhaseQuorumLoss, PhaseRestore, Do

\* The instructions of the harness, by their index.
LEMMA PlanTable ==
    /\ Plan[1] = Do("command", {}, Nothing) /\ Plan[2] = Do("command", {}, Nothing)
    /\ Plan[3] = Do("start", {0}, Nothing) /\ Plan[4] = Do("start", {1}, Nothing)
    /\ Plan[5] = Do("start", {2}, Nothing) /\ Plan[6] = Do("start", {3}, Nothing)
    /\ Plan[7] = Do("heights", Validators, Nothing)
    /\ Plan[8] = Do("send", {0}, "v4") /\ Plan[9] = Do("commit", {0}, "v4")
    /\ Plan[10] = Do("value", Validators, "v4") /\ Plan[11] = Do("heights", Validators, Nothing)
    /\ Plan[12] = Do("stop", {3}, Nothing)
    /\ Plan[13] = Do("send", {0}, "v5") /\ Plan[14] = Do("commit", {0}, "v5")
    /\ Plan[15] = Do("value", {0, 1, 2}, "v5") /\ Plan[16] = Do("heights", {0, 1, 2}, Nothing)
    /\ Plan[17] = Do("start", {3}, Nothing) /\ Plan[18] = Do("heights", Validators, Nothing)
    /\ Plan[19] = Do("check", {3}, "v5")
    /\ Plan[20] = Do("stop", {2}, Nothing) /\ Plan[21] = Do("stop", {3}, Nothing)
    /\ Plan[22] = Do("baseline", {0, 1}, Nothing) /\ Plan[23] = Do("send", {0}, "v6")
    /\ Plan[24] = Do("observe", {0, 1}, "v6")
    /\ Plan[25] = Do("final", {0}, Nothing) /\ Plan[26] = Do("final", {1}, Nothing)
    /\ Plan[27] = Do("start", {2}, Nothing) /\ Plan[28] = Do("start", {3}, Nothing)
    /\ Plan[29] = Do("send", {0}, "restored") /\ Plan[30] = Do("commit", {0}, "restored")
    /\ Plan[31] = Do("heights", Validators, Nothing)
    /\ Plan[32] = Do("value", Validators, "restored") /\ Plan[33] = Do("late", {0}, "v6")
BY DEF Plan, PhaseVersion, PhaseTestnet, PhaseStart4, PhaseTx4, PhaseStop1Commit3,
       PhaseRestartCatchup, PhaseQuorumLoss, PhaseRestore

\* Where the harness is when it executes an instruction of a kind.
LEMMA Sites ==
    ASSUME Running, at \in 1 .. 34
    PROVE  /\ at \in 1 .. 33 /\ ~failed
           /\ Plan[at].do = "send" =>
                 /\ at \in {8, 13, 23, 29} /\ Plan[at].tx \in Txs
                 /\ SentAt[Plan[at].tx] = at
           /\ Plan[at].do = "commit" =>
                 /\ <<at, Plan[at].tx>> \in {<<9, "v4">>, <<14, "v5">>, <<30, "restored">>}
                 /\ Plan[at].nodes = {0}
           /\ Plan[at].do = "baseline" => at = 22 /\ Plan[at].nodes = {0, 1}
           /\ Plan[at].do = "observe" => at = 24 /\ Plan[at].nodes = {0, 1}
           /\ Plan[at].do = "final" => at \in {25, 26}
           /\ Plan[at].do = "heights" => at \in {7, 11, 16, 18, 31}
           /\ at = 18 => Plan[at].nodes = Validators
           /\ Plan[at].do = "command" => at \in {1, 2}
           /\ Plan[at].do = "start" => at \in {3, 4, 5, 6, 17, 27, 28}
           /\ Plan[at].do = "stop" => at \in {12, 20, 21}
           /\ Plan[at].do = "value" \/ Plan[at].do = "check" => at \in {10, 15, 19, 32}
           /\ Plan[at].do = "late" => at = 33
           /\ Plan[at].do = "stop" /\ Plan[at].nodes = {2} => at = 20
           /\ Watching => at \in {23, 24}
           /\ at \in {23, 24} => Watching
<1>1. at \in 1 .. 33 /\ ~failed
  BY PlanLength DEF Running
<1>2. Plan[at].do = "send" =>
                 /\ at \in {8, 13, 23, 29} /\ Plan[at].tx \in Txs
                 /\ SentAt[Plan[at].tx] = at
  BY <1>1, PlanTable DEF Do, SentAt, Txs
<1>3. Plan[at].do = "commit" =>
                 /\ <<at, Plan[at].tx>> \in {<<9, "v4">>, <<14, "v5">>, <<30, "restored">>}
                 /\ Plan[at].nodes = {0}
  BY <1>1, PlanTable DEF Do
<1>4. /\ Plan[at].do = "baseline" => at = 22 /\ Plan[at].nodes = {0, 1}
      /\ Plan[at].do = "observe" => at = 24 /\ Plan[at].nodes = {0, 1}
      /\ Plan[at].do = "final" => at \in {25, 26}
  BY <1>1, PlanTable DEF Do
<1>5. /\ Plan[at].do = "heights" => at \in {7, 11, 16, 18, 31}
      /\ at = 18 => Plan[at].nodes = Validators
      /\ Plan[at].do = "command" => at \in {1, 2}
      /\ Plan[at].do = "start" => at \in {3, 4, 5, 6, 17, 27, 28}
      /\ Plan[at].do = "stop" => at \in {12, 20, 21}
  BY <1>1, PlanTable DEF Do
<1>6. /\ Plan[at].do = "value" \/ Plan[at].do = "check" => at \in {10, 15, 19, 32}
      /\ Plan[at].do = "late" => at = 33
      /\ Watching => at \in {23, 24}
      /\ at \in {23, 24} => Watching
  BY <1>1, PlanTable DEF Do, Watching
<1>7. Plan[at].do = "stop" /\ Plan[at].nodes = {2} => at = 20
  <2>1. Plan[12].nodes = {3} /\ Plan[21].nodes = {3} /\ {2} # {3}
    BY PlanTable DEF Do
  <2> QED
    BY <1>1, <1>5, <2>1
<1> QED
  BY <1>1, <1>2, <1>3, <1>4, <1>5, <1>6, <1>7

\* As long as the harness runs there is no report.
LEMMA NoReport ==
    ASSUME LabInv, Running, UNCHANGED status
    PROVE  EndInv'
<1>1. status = Nothing /\ Nothing # "PASS"
  BY PlanLength, LabAssumption DEF LabInv, EndInv, Running
<1> QED
  BY <1>1 DEF EndInv

\* The harness goes on, having learned nothing that it keeps.
LEMMA WalkStep ==
    ASSUME LabInv, Running, at' = at + 1, at \notin {9, 14, 18, 22, 24, 25, 30},
           child' \in [Validators -> {"none", "up", "dead"}],
           UNCHANGED <<sound, chain, height, pool, deaths, mark, first, seen, failed, stuck,
                       status, moved>>
    PROVE  LabInv'
<1>1. at \in 1 .. 33 /\ at' \in 1 .. 34
  BY PlanLength DEF LabInv, LabType, Running
<1>2. LabType'
  <2>1. at' >= 23 => at >= 23
    BY <1>1
  <2> QED
    BY <1>1, <2>1 DEF LabInv, LabType
<1>3. ChainInv'
  <2>1. \A tx \in Txs : SentAt[tx] \in Nat
    BY DEF SentAt, Txs
  <2> QED
    BY SMTT(30), <1>1, <2>1 DEF LabInv, LabType, ChainInv
<1>4. MarkInv'
  BY <1>1 DEF LabInv, MarkInv, Block
<1>5. WatchInv'
  <2>1. moved' => at' \in {23, 24} /\ \E n \in {0, 1} : height'[n] > first'[n]
    <3>1. at # 24
      OBVIOUS
    <3> QED
      BY <1>1, <3>1 DEF LabInv, WatchInv
  <2>2. at' >= 23 => at >= 23
    BY <1>1
  <2>3. at' \in 26 .. 30 => at \in 26 .. 30
    BY <1>1
  <2>4. at' >= 31 => at >= 31
    BY <1>1
  <2> QED
    BY <2>1, <2>2, <2>3, <2>4 DEF LabInv, WatchInv, Block
<1> QED
  BY <1>2, <1>3, <1>4, <1>5, NoReport DEF LabInv

\* The commands, starts, stops and polls among them.
LEMMA WalksStep ==
    ASSUME LabInv, Command \/ StartNode \/ StopNode \/ RequireValue \/ LateCommit
    PROVE  LabInv'
<1>1. /\ Running /\ at \in 1 .. 34 /\ at' = at + 1
      /\ Plan[at].do \in {"command", "start", "stop", "value", "check", "late"}
  BY DEF Command, StartNode, StopNode, RequireValue, LateCommit, Executes, Advance, LabInv,
         LabType
<1>2. at \notin {9, 14, 18, 22, 24, 25, 30}
  BY <1>1, Sites
<1>3. /\ child' \in [Validators -> {"none", "up", "dead"}]
      /\ UNCHANGED <<sound, chain, height, pool, deaths, mark, first, seen, failed, stuck,
                     status, moved>>
  BY DEF Command, StartNode, StopNode, RequireValue, LateCommit, LabInv, LabType, engine
<1> QED
  BY <1>1, <1>2, <1>3, WalkStep

\* All nodes are past the mark, from the restart on.
LEMMA HeightsStep ==
    ASSUME LabInv, WaitHeights
    PROVE  LabInv'
<1>1. /\ Running /\ at \in 1 .. 34 /\ at' = at + 1 /\ Plan[at].do = "heights"
      /\ UNCHANGED <<sound, chain, height, pool, child, deaths, mark, first, seen, failed,
                     stuck, status, moved>>
  BY DEF WaitHeights, Executes, Advance, LabInv, LabType, engine
<1>2. child \in [Validators -> {"none", "up", "dead"}]
  BY DEF LabInv, LabType
<1>3. CASE at # 18
  BY <1>1, <1>2, <1>3, Sites, WalkStep
<1>4. CASE at = 18
  <2>1. \A n \in Validators : height[n] > mark
    BY <1>1, <1>4, Sites DEF WaitHeights, Reaches, LabInv, LabType
  <2>2. LabType'
    BY <1>1, <1>4 DEF LabInv, LabType
  <2>3. ChainInv'
    <3>1. \A tx \in Txs : SentAt[tx] \in Nat
      BY DEF SentAt, Txs
    <3> QED
      BY <1>1, <1>4, <3>1 DEF LabInv, LabType, ChainInv
  <2>4. MarkInv'
    BY <1>1, <1>4, <2>1 DEF LabInv, MarkInv, Block
  <2>5. WatchInv'
    BY <1>1, <1>4 DEF LabInv, WatchInv
  <2> QED
    BY <1>1, <2>2, <2>3, <2>4, <2>5, NoReport DEF LabInv
<1> QED
  BY <1>3, <1>4

\* Every transaction is sent by one of the instructions.
LEMMA SentNumbers == \A tx \in Txs : SentAt[tx] \in Nat
BY DEF SentAt, Txs

\* Two transactions are not sent by one instruction.
LEMMA SentOnce == \A t, u \in Txs : SentAt[t] = SentAt[u] => t = u
BY DEF SentAt, Txs

\* Sending a transaction keeps the invariant.
LEMMA SendStep ==
    ASSUME LabInv, Send
    PROVE  LabInv'
<1>1. /\ Running /\ at \in 1 .. 34 /\ at' = at + 1 /\ Plan[at].do = "send"
      /\ pool' = pool \cup {Plan[at].tx}
      /\ UNCHANGED <<sound, chain, height, child, deaths, mark, first, seen, failed,
                     stuck, status, moved>>
  BY DEF Send, Executes, Advance, LabInv, LabType
<1>2. at \in {8, 13, 23, 29} /\ Plan[at].tx \in Txs /\ SentAt[Plan[at].tx] = at
  BY <1>1, Sites
<1>3. LabType'
  <2>1. at' \in 1 .. 34 /\ (at' >= 23 => at >= 23)
    BY <1>1, <1>2
  <2>2. pool' \subseteq Txs
    BY <1>1, <1>2 DEF LabInv, LabType
  <2> QED
    BY <1>1, <2>1, <2>2 DEF LabInv, LabType
<1>4. ChainInv'
  <2>1. \A n \in Validators : height'[n] <= Len(chain')
    BY <1>1 DEF LabInv, ChainInv
  <2>2. \A tx \in pool' : at' > SentAt[tx]
    BY <1>1, <1>2, SentNumbers DEF LabInv, LabType, ChainInv
  <2>3. ASSUME NEW tx \in Txs, NEW h \in 1 .. Len(chain'), chain'[h] = tx
        PROVE  at' > SentAt[tx] /\ tx \notin pool'
    <3>1. at > SentAt[tx] /\ tx \notin pool
      BY <1>1, <2>3 DEF LabInv, ChainInv
    <3>2. SentAt[tx] \in Nat
      BY SentNumbers
    <3>3. tx # Plan[at].tx
      BY <1>2, <3>1, <3>2
    <3> QED
      BY <1>1, <1>2, <3>1, <3>2, <3>3
  <2>4. \A tx \in Txs, h, k \in 1 .. Len(chain') : chain'[h] = tx /\ chain'[k] = tx => h = k
    BY <1>1 DEF LabInv, ChainInv
  <2> QED
    BY <2>1, <2>2, <2>3, <2>4 DEF ChainInv
<1>5. MarkInv'
  BY <1>1, <1>2 DEF LabInv, MarkInv, Block
<1>6. WatchInv'
  <2>1. moved' => at' \in {23, 24} /\ \E n \in {0, 1} : height'[n] > first'[n]
    BY <1>1, <1>2 DEF LabInv, WatchInv
  <2>2. /\ at' >= 23 => at >= 23
        /\ at' \in 26 .. 30 => at \in 26 .. 30
        /\ at' >= 31 => at >= 31
    BY <1>1, <1>2
  <2> QED
    BY <1>1, <2>1, <2>2 DEF LabInv, WatchInv, Block
<1> QED
  BY <1>1, <1>3, <1>4, <1>5, <1>6, NoReport DEF LabInv

\* A transaction that is in the chain has one height.
LEMMA HeightFact ==
    ASSUME LabInv, NEW tx \in Txs, NEW h \in 1 .. Len(chain), chain[h] = tx
    PROVE  HeightOf(tx) = h
<1>1. \A k \in 1 .. Len(chain) : chain[k] = tx => k = h
  BY DEF LabInv, ChainInv
<1>2. HeightOf(tx) \in 1 .. Len(chain) /\ chain[HeightOf(tx)] = tx
  BY DEF HeightOf
<1> QED
  BY <1>1, <1>2

\* The harness takes the height of the transaction that node 0 has executed, if it is
\* higher than the mark.
LEMMA CommitStep ==
    ASSUME LabInv, AwaitCommit
    PROVE  LabInv'
<1>1. /\ Running /\ at \in 1 .. 34 /\ at' = at + 1 /\ Plan[at].do = "commit"
      /\ \A n \in Plan[at].nodes : Found(n, Plan[at].tx)
      /\ mark' = HeightOf(Plan[at].tx) /\ mark' > mark
      /\ UNCHANGED <<sound, chain, height, pool, child, deaths, first, seen, failed,
                     stuck, status, moved>>
  BY DEF AwaitCommit, Executes, Advance, LabInv, LabType, engine
<1>2. /\ <<at, Plan[at].tx>> \in {<<9, "v4">>, <<14, "v5">>, <<30, "restored">>}
      /\ Plan[at].nodes = {0}
  BY <1>1, Sites
<1>3. Plan[at].tx \in Txs
  BY <1>2 DEF Txs
<1>4. PICK h \in 1 .. height[0] : chain[h] = Plan[at].tx
  BY <1>1, <1>2 DEF Found, Committed
<1>5. height[0] \in Nat /\ height[0] <= Len(chain) /\ Len(chain) \in Nat
  BY DEF LabInv, LabType, ChainInv, Validators
<1>6. h \in 1 .. Len(chain)
  BY <1>5
<1>7. mark' = h
  BY <1>1, <1>3, <1>4, <1>6, HeightFact
<1>8. Block(Plan[at].tx, mark') /\ mark' \in Nat /\ mark \in Nat
  BY <1>4, <1>6, <1>7 DEF Block, LabInv, LabType
<1>9. LabType'
  BY <1>1, <1>2, <1>8 DEF LabInv, LabType
<1>10. ChainInv'
  BY <1>1, SentNumbers DEF LabInv, LabType, ChainInv
<1>11. CASE at = 9
  <2>1. MarkInv'
    BY <1>1, <1>2, <1>8, <1>11 DEF MarkInv, Block
  <2>2. WatchInv'
    BY <1>1, <1>11 DEF LabInv, WatchInv
  <2> QED
    BY <1>1, <1>9, <1>10, <2>1, <2>2, NoReport DEF LabInv
<1>12. CASE at = 14
  <2>1. Block("v4", mark) /\ Block("v5", mark')
    BY <1>2, <1>8, <1>12 DEF LabInv, MarkInv
  <2>2. MarkInv'
    BY <1>1, <1>8, <1>12, <2>1 DEF MarkInv, Block
  <2>3. WatchInv'
    BY <1>1, <1>12 DEF LabInv, WatchInv
  <2> QED
    BY <1>1, <1>9, <1>10, <2>2, <2>3, NoReport DEF LabInv
<1>13. CASE at = 30
  <2>1. MarkInv'
    BY <1>1, <1>13 DEF LabInv, MarkInv, Block
  <2>2. first[0] <= mark /\ first[1] <= mark /\ first[0] \in Nat /\ first[1] \in Nat
    BY <1>13 DEF LabInv, LabType, WatchInv
  <2>3. chain[mark'] = "restored" /\ mark' \in 1 .. Len(chain)
    BY <1>2, <1>8, <1>13 DEF Block
  <2>4. mark' > first[0] /\ mark' > first[1]
    BY <1>1, <1>8, <2>2
  <2>5. WatchInv'
    BY <1>1, <1>13, <2>3, <2>4 DEF LabInv, WatchInv, Block
  <2> QED
    BY <1>1, <1>9, <1>10, <2>1, <2>5, NoReport DEF LabInv
<1> QED
  BY <1>2, <1>11, <1>12, <1>13

\* The heights of the watched pair before the quorum is lost: both are past the mark, and
\* the transaction that is not to be committed has not been sent.
LEMMA BaselineStep ==
    ASSUME LabInv, Baseline
    PROVE  LabInv'
<1>1. /\ Running /\ at \in 1 .. 34 /\ at' = at + 1 /\ Plan[at].do = "baseline"
      /\ first' = [n \in Plan[at].nodes |-> height[n]]
      /\ UNCHANGED <<sound, chain, height, pool, child, deaths, mark, seen, failed,
                     stuck, status, moved>>
  BY DEF Baseline, Executes, Advance, LabInv, LabType, engine
<1>2. at = 22 /\ at' = 23 /\ first' = [n \in {0, 1} |-> height[n]]
  BY <1>1, Sites
<1>3. height \in [Validators -> Nat] /\ {0, 1} \subseteq Validators
  BY DEF LabInv, LabType, Validators
<1>4. LabType'
  BY <1>1, <1>2, <1>3 DEF LabInv, LabType
<1>5. ChainInv'
  BY <1>1, SentNumbers DEF LabInv, LabType, ChainInv
<1>6. MarkInv'
  BY <1>1, <1>2 DEF LabInv, MarkInv, Block
<1>7. WatchInv'
  <2>1. ~moved /\ Block("v5", mark) /\ mark \in Nat
    BY <1>2 DEF LabInv, LabType, WatchInv, MarkInv
  <2>2. \A h \in 1 .. Len(chain) : chain[h] # "v6"
    <3>1. SentAt["v6"] = 23 /\ "v6" \in Txs
      BY DEF SentAt, Txs
    <3> QED
      BY <1>2, <3>1 DEF LabInv, ChainInv
  <2>3. ASSUME NEW n \in {0, 1}
        PROVE  /\ first'[n] <= height'[n]
               /\ \E h \in 1 .. Len(chain') : Block("v5", h)' /\ h <= first'[n]
    <3>1. first'[n] = height[n] /\ height[n] \in Nat /\ height[n] > mark
      BY <1>2, <1>3, <2>3 DEF LabInv, MarkInv
    <3>2. mark \in 1 .. Len(chain') /\ Block("v5", mark)'
      BY <1>1, <2>1 DEF Block
    <3>3. mark <= first'[n]
      BY <2>1, <3>1
    <3> QED
      BY <1>1, <3>1, <3>2, <3>3
  <2> QED
    BY <1>1, <1>2, <2>1, <2>2, <2>3 DEF WatchInv
<1> QED
  BY <1>1, <1>4, <1>5, <1>6, <1>7, NoReport DEF LabInv

\* Whoever of the pair has executed a block since then has another height.
LEMMA ObserveStep ==
    ASSUME LabInv, Observe
    PROVE  LabInv'
<1>1. /\ Running /\ at \in 1 .. 34 /\ at' \in {at, at + 1} /\ Plan[at].do = "observe"
      /\ \A n \in Plan[at].nodes : height[n] = first[n] /\ n \in Up
      /\ seen' \in BOOLEAN
      /\ UNCHANGED <<sound, chain, height, pool, child, deaths, mark, first, failed,
                     stuck, status, moved>>
  BY DEF Observe, Executes, Unchanged, LabInv, LabType, engine
<1>2. at = 24 /\ at' \in {24, 25} /\ Plan[at].nodes = {0, 1}
  BY <1>1, Sites
<1>3. LabType'
  BY <1>1, <1>2 DEF LabInv, LabType
<1>4. ChainInv'
  <2>1. at' >= at
    BY <1>2
  <2> QED
    BY <1>1, <1>2, <2>1, SentNumbers DEF LabInv, LabType, ChainInv
<1>5. MarkInv'
  BY <1>1, <1>2 DEF LabInv, MarkInv, Block
<1>6. WatchInv'
  <2>1. ~moved
    <3>1. \A n \in {0, 1} : height[n] = first[n] /\ height[n] \in Nat
      BY <1>1, <1>2 DEF LabInv, LabType, Validators
    <3> QED
      BY <3>1 DEF LabInv, WatchInv
  <2> QED
    BY <1>1, <1>2, <2>1 DEF LabInv, WatchInv, Block
<1> QED
  BY <1>1, <1>3, <1>4, <1>5, <1>6, NoReport DEF LabInv

\* The greater of two numbers.
LEMMA MaxFact ==
    ASSUME NEW S, NEW a \in Nat, NEW b \in Nat, S = {a, b}
    PROVE  Max(S) \in {a, b} /\ a <= Max(S) /\ b <= Max(S)
<1>1. \E x \in S : \A y \in S : x >= y
  <2>1. CASE a >= b
    BY <2>1
  <2>2. CASE b >= a
    BY <2>2
  <2> QED
    BY <2>1, <2>2
<1>2. Max(S) \in S /\ \A y \in S : Max(S) >= y
  BY <1>1 DEF Max
<1> QED
  BY <1>2

\* The higher baseline.
LEMMA FloorFact ==
    ASSUME LabInv, at >= 23
    PROVE  LET floor == Max({first[n] : n \in {0, 1}})
           IN  /\ floor \in {first[0], first[1]} /\ floor \in Nat
               /\ first[0] <= floor /\ first[1] <= floor
<1>1. first[0] \in Nat /\ first[1] \in Nat
  BY DEF LabInv, LabType
<1>2. {first[n] : n \in {0, 1}} = {first[0], first[1]}
  OBVIOUS
<1> QED
  BY <1>1, <1>2, MaxFact

\* The final read keeps the invariant.
LEMMA FinalStep ==
    ASSUME LabInv, FinalRead
    PROVE  LabInv'
<1>1. /\ Running /\ at \in 1 .. 34 /\ at' = at + 1 /\ Plan[at].do = "final"
      /\ mark' = Max({first[n] : n \in {0, 1}})
      /\ UNCHANGED <<sound, chain, height, pool, child, deaths, first, seen, failed,
                     stuck, status, moved>>
  BY DEF FinalRead, Executes, Advance, LabInv, LabType, engine
<1>2. at \in {25, 26} /\ at' \in {26, 27}
  BY <1>1, Sites
<1>3. /\ mark' \in {first[0], first[1]} /\ mark' \in Nat
      /\ first[0] <= mark' /\ first[1] <= mark'
  BY <1>1, <1>2, FloorFact
<1>4. LabType'
  BY <1>1, <1>2, <1>3 DEF LabInv, LabType
<1>5. ChainInv'
  BY <1>1, SentNumbers DEF LabInv, LabType, ChainInv
<1>6. MarkInv'
  BY <1>1, <1>2 DEF LabInv, MarkInv, Block
<1>7. WatchInv'
  BY SMTT(30), <1>1, <1>2, <1>3 DEF LabInv, WatchInv, Block
<1> QED
  BY <1>1, <1>4, <1>5, <1>6, <1>7, NoReport DEF LabInv

\* A failure ends the scenario, and nothing is claimed of what was observed.
LEMMA FailStep ==
    ASSUME LabInv, Fail
    PROVE  LabInv'
<1>1. /\ Running /\ failed' = TRUE /\ chain' = <<>> /\ height' = [n \in Validators |-> 0]
      /\ pool' = {} /\ at' = 1 /\ mark' = 0 /\ first' = Nothing
      /\ seen' = FALSE /\ moved' = FALSE /\ UNCHANGED <<sound, deaths, child, stuck, status>>
  BY DEF Fail
<1>2. LabType'
  <2>1. chain' \in Seq(Txs \cup {Nothing}) /\ height' \in [Validators -> Nat]
    BY <1>1
  <2>2. 1 \in 1 .. 34 /\ ~(1 >= 23)
    OBVIOUS
  <2> QED
    BY <1>1, <2>1, <2>2 DEF LabInv, LabType
<1>3. ChainInv'
  <2>1. Len(chain') = 0
    BY <1>1
  <2> QED
    BY <1>1, <2>1 DEF ChainInv
<1>4. MarkInv' /\ WatchInv'
  BY <1>1 DEF MarkInv, WatchInv
<1> QED
  BY <1>1, <1>2, <1>3, <1>4, NoReport DEF LabInv

\* A block more: the transaction in it was sent and has left the pool.
LEMMA DecideStep ==
    ASSUME LabInv, NEW tx \in {"v4", "v5", "v6", "restored", Nothing}, Decide(tx)
    PROVE  LabInv'
<1> DEFINE last == Len(chain) + 1
<1>1. /\ Running /\ tx \in pool \cup {Nothing} /\ chain' = Append(chain, tx)
      /\ pool' = pool \ {tx}
      /\ UNCHANGED <<sound, height, child, deaths, at, mark, first, seen, failed,
                     stuck, status, moved>>
  BY DEF Decide, harness
<1>2. /\ chain \in Seq(Txs \cup {Nothing}) /\ tx \in Txs \cup {Nothing} /\ Nothing \notin Txs
      /\ Len(chain) \in Nat
  BY LabAssumption DEF LabInv, LabType, Txs
<1>3. /\ chain' \in Seq(Txs \cup {Nothing}) /\ Len(chain') = last /\ chain'[last] = tx
      /\ \A h \in 1 .. Len(chain) : chain'[h] = chain[h]
  BY <1>1, <1>2
<1>4. \A t, h : Block(t, h) => Block(t, h)'
  BY <1>2, <1>3 DEF Block
<1>5. \A h \in 1 .. Len(chain') : h \in 1 .. Len(chain) \/ h = last
  BY <1>2, <1>3
<1>6. 1 .. Len(chain) \subseteq 1 .. Len(chain')
  BY <1>2, <1>3
<1> HIDE DEF last
<1>7. LabType'
  BY <1>1, <1>3 DEF LabInv, LabType
<1>8. tx # Nothing => tx \in pool /\ at > SentAt[tx]
  BY <1>1 DEF LabInv, ChainInv
<1>9. ChainInv'
  <2>1. \A n \in Validators : height'[n] <= Len(chain')
    BY <1>1, <1>2, <1>3 DEF LabInv, LabType, ChainInv, last
  <2>2. \A t \in pool' : at' > SentAt[t]
    BY <1>1 DEF LabInv, ChainInv
  <2>3. ASSUME NEW t \in Txs, NEW h \in 1 .. Len(chain'), chain'[h] = t
        PROVE  at' > SentAt[t] /\ t \notin pool'
    <3>1. CASE h \in 1 .. Len(chain)
      BY <1>1, <1>3, <2>3, <3>1 DEF LabInv, ChainInv
    <3>2. CASE h = last
      BY <1>1, <1>2, <1>3, <1>8, <2>3, <3>2
    <3> QED
      BY <1>5, <3>1, <3>2
  <2>4. ASSUME NEW t \in Txs, NEW h \in 1 .. Len(chain'), NEW k \in 1 .. Len(chain'),
               chain'[h] = t, chain'[k] = t
        PROVE  h = k
    <3>1. CASE h \in 1 .. Len(chain) /\ k \in 1 .. Len(chain)
      BY <1>3, <2>4, <3>1 DEF LabInv, ChainInv
    <3>2. CASE h = last /\ k = last
      BY <3>2
    <3>3. ASSUME NEW i \in 1 .. Len(chain), chain'[i] = t, t = tx
          PROVE  FALSE
      BY <1>2, <1>3, <1>8, <3>3 DEF LabInv, ChainInv
    <3> QED
      BY <1>3, <1>5, <2>4, <3>1, <3>2, <3>3
  <2> QED
    BY <2>1, <2>2, <2>3, <2>4 DEF ChainInv
<1>10. MarkInv'
  BY <1>1, <1>4, <1>6 DEF LabInv, MarkInv
<1>11. WatchInv'
  <2>1. ASSUME at >= 23, NEW n \in {0, 1}
        PROVE  /\ first[n] <= height[n]
               /\ \E h \in 1 .. Len(chain') : Block("v5", h)' /\ h <= first[n]
               /\ \A h \in 1 .. Len(chain') : chain'[h] = "v6" => h > first[n]
    <3>1. PICK h \in 1 .. Len(chain) : Block("v5", h) /\ h <= first[n]
      BY <2>1 DEF LabInv, WatchInv
    <3>2. first[n] \in Nat /\ height[n] \in Nat /\ height[n] <= Len(chain)
      BY <2>1 DEF LabInv, LabType, ChainInv, Validators
    <3>3. first[n] <= height[n]
      BY <2>1 DEF LabInv, WatchInv
    <3>4. last > first[n]
      BY <1>2, <3>2, <3>3 DEF last
    <3>5. \A k \in 1 .. Len(chain') : chain'[k] = "v6" => k > first[n]
      BY <1>3, <1>5, <2>1, <3>4 DEF LabInv, WatchInv
    <3> QED
      BY <1>4, <1>6, <3>1, <3>3, <3>5
  <2>2. at >= 31 =>
            \E h \in 1 .. Len(chain') : Block("restored", h)' /\ h > first[0] /\ h > first[1]
    BY <1>4, <1>6 DEF LabInv, WatchInv
  <2> QED
    BY <1>1, <2>1, <2>2 DEF LabInv, WatchInv
<1> QED
  BY <1>1, <1>7, <1>9, <1>10, <1>11, NoReport DEF LabInv

\* A node executes a block: one of the pair in the window is now above its baseline.
LEMMA ExecuteStep ==
    ASSUME LabInv, NEW n \in Validators, ExecuteBlock(n)
    PROVE  LabInv'
<1>1. /\ Running /\ height[n] < Len(chain) /\ height' = [height EXCEPT ![n] = @ + 1]
      /\ moved' = (moved \/ (Watching /\ n \in {0, 1}))
      /\ UNCHANGED <<sound, chain, pool, child, deaths, at, mark, first, seen, failed,
                     stuck, status>>
  BY DEF ExecuteBlock, harness
<1>2. /\ height \in [Validators -> Nat] /\ Len(chain) \in Nat /\ at \in 1 .. 34
      /\ {0, 1} \subseteq Validators /\ mark \in Nat /\ moved \in BOOLEAN
  BY DEF LabInv, LabType, Validators
<1>3. /\ height' \in [Validators -> Nat] /\ height'[n] = height[n] + 1
      /\ \A k \in Validators : height'[k] >= height[k]
      /\ \A k \in Validators : height'[k] <= Len(chain)
  BY <1>1, <1>2 DEF LabInv, ChainInv
<1>4. moved' \in BOOLEAN
  BY <1>1, <1>2 DEF Watching, Running
<1>5. LabType'
  BY <1>1, <1>3, <1>4 DEF LabInv, LabType
<1>6. ChainInv'
  BY <1>1, <1>3 DEF LabInv, ChainInv
<1>7. MarkInv'
  <2>1. at \in 19 .. 25 => \A k \in Validators : height'[k] > mark
    BY <1>2, <1>3 DEF LabInv, MarkInv
  <2> QED
    BY <1>1, <2>1 DEF LabInv, MarkInv, Block
<1>8. WatchInv'
  <2>1. ASSUME at >= 23 PROVE \A k \in {0, 1} : first[k] \in Nat /\ first[k] <= height'[k]
    BY SMTT(30), <1>2, <1>3, <2>1 DEF LabInv, LabType, WatchInv
  <2>2. ASSUME moved'
        PROVE  at \in {23, 24} /\ \E k \in {0, 1} : height'[k] > first[k]
    <3>1. CASE moved
      <4>1. PICK k \in {0, 1} : height[k] > first[k]
        BY <3>1 DEF LabInv, WatchInv
      <4>2. at \in {23, 24}
        BY <3>1 DEF LabInv, WatchInv
      <4>3. height'[k] > first[k]
        BY SMTT(30), <1>2, <1>3, <2>1, <4>1, <4>2
      <4> QED
        BY <4>2, <4>3
    <3>2. CASE Watching /\ n \in {0, 1}
      <4>1. at \in {23, 24}
        BY <1>1, <1>2, <3>2, Sites
      <4>2. first[n] <= height[n] /\ first[n] \in Nat /\ height[n] \in Nat
        BY <1>2, <3>2, <4>1 DEF LabInv, LabType, WatchInv
      <4>3. height'[n] > first[n]
        BY <1>3, <4>2
      <4> QED
        BY <3>2, <4>1, <4>3
    <3> QED
      BY <1>1, <2>2, <3>1, <3>2
  <2> QED
    BY <1>1, <2>1, <2>2 DEF LabInv, WatchInv, Block
<1> QED
  BY <1>1, <1>5, <1>6, <1>7, <1>8, NoReport DEF LabInv

\* The death of a node keeps the invariant.
LEMMA DieStep ==
    ASSUME LabInv, NEW n \in Validators, Die(n)
    PROVE  LabInv'
<1>1. /\ Running /\ deaths' = deaths + 1 /\ child' = [child EXCEPT ![n] = "dead"]
      /\ pool' \in {pool, {}}
      /\ UNCHANGED <<sound, chain, height, moved, at, mark, first, seen, failed, stuck,
                     status>>
  BY DEF Die, harness
<1>2. LabType' /\ ChainInv' /\ MarkInv' /\ WatchInv'
  BY <1>1 DEF LabInv, LabType, ChainInv, MarkInv, WatchInv, Block
<1> QED
  BY <1>1, <1>2, NoReport DEF LabInv

\* What is stopped stays stopped, and there is no report yet.
LEMMA CleanUpStep ==
    ASSUME LabInv, NEW n \in Validators, NEW ok \in BOOLEAN, CleanUp(n, ok)
    PROVE  LabInv'
<1>1. /\ status = Nothing /\ child' \in [Validators -> {"none", "up", "dead"}]
      /\ stuck' \subseteq Validators
      /\ UNCHANGED <<sound, chain, height, pool, deaths, at, mark, first, seen, failed,
                     status, moved>>
  BY DEF CleanUp, Scenario, LabInv, LabType, engine
<1>2. LabType' /\ ChainInv' /\ MarkInv' /\ WatchInv'
  BY <1>1 DEF LabInv, LabType, ChainInv, MarkInv, WatchInv, Block
<1>3. EndInv'
  BY <1>1, LabAssumption DEF EndInv
<1> QED
  BY <1>2, <1>3 DEF LabInv

\* A report says PASS if nothing failed and every child is stopped.
LEMMA ReportStep ==
    ASSUME LabInv, Report
    PROVE  LabInv'
<1>1. /\ ~Running /\ Up \subseteq stuck /\ status' = ReportStatus
      /\ UNCHANGED <<sound, chain, height, pool, child, deaths, at, mark, first, seen, failed,
                     stuck, moved>>
  BY DEF Report, Scenario, engine
<1>2. LabType' /\ ChainInv' /\ MarkInv' /\ WatchInv'
  <2>1. status' \in {Nothing, "PASS", "FAIL"}
    BY <1>1 DEF ReportStatus
  <2>2. LabType'
    BY <1>1, <2>1 DEF LabInv, LabType
  <2>3. ChainInv'
    BY <1>1 DEF LabInv, ChainInv
  <2>4. MarkInv'
    BY <1>1 DEF LabInv, MarkInv, Block
  <2>5. WatchInv'
    BY <1>1 DEF LabInv, WatchInv, Block
  <2> QED
    BY <2>2, <2>3, <2>4, <2>5
<1>3. failed \/ at = 34
  <2>1. at \in 1 .. 34
    BY DEF LabInv, LabType
  <2> QED
    BY <1>1, <2>1, PlanLength DEF Running
<1>4. status' = "PASS" => ~failed /\ stuck = {}
  BY <1>1 DEF ReportStatus
<1>5. Up' = Up
  BY <1>1 DEF Up
<1> QED
  BY <1>1, <1>2, <1>3, <1>4, <1>5 DEF LabInv, EndInv

\* Every step of the laboratory keeps the invariant.
LEMMA LabNextStep ==
    ASSUME LabInv, LabNext
    PROVE  LabInv'
<1>1. CASE \E tx \in {"v4", "v5", "v6", "restored", Nothing} : Decide(tx)
  BY <1>1, DecideStep
<1>2. CASE \E n \in Validators : ExecuteBlock(n) \/ Die(n)
  BY <1>2, ExecuteStep, DieStep
<1>3. CASE HarnessStep
  BY <1>3, WalksStep, HeightsStep, SendStep, CommitStep, BaselineStep, ObserveStep, FinalStep,
     FailStep, CleanUpStep, ReportStep DEF HarnessStep
<1> QED
  BY <1>1, <1>2, <1>3 DEF LabNext

\* The invariant holds initially.
LEMMA LabInitial == LabInit => LabInv
<1> SUFFICES ASSUME LabInit PROVE LabInv
  OBVIOUS
<1>1. LabType
  <2>1. chain \in Seq(Txs \cup {Nothing}) /\ height \in [Validators -> Nat]
    BY DEF LabInit
  <2>2. 1 \in 1 .. 34 /\ ~(1 >= 23)
    OBVIOUS
  <2>3. child \in [Validators -> {"none", "up", "dead"}]
    BY DEF LabInit
  <2> QED
    BY <2>1, <2>2, <2>3 DEF LabInit, LabType
<1>2. ChainInv
  <2>1. Len(chain) = 0
    BY DEF LabInit
  <2> QED
    BY <2>1 DEF LabInit, ChainInv
<1>3. MarkInv /\ WatchInv
  BY DEF LabInit, MarkInv, WatchInv
<1>4. EndInv
  BY LabAssumption DEF LabInit, EndInv
<1> QED
  BY <1>1, <1>2, <1>3, <1>4 DEF LabInv

\* A step of another part keeps the invariant.
LEMMA LabStill ==
    ASSUME LabInv, UNCHANGED lab
    PROVE  LabInv'
<1>1. UNCHANGED <<sound, chain, height, pool, child, deaths, at, mark, first, seen, failed,
                  stuck, status, moved>>
  BY DEF lab
<1>2. LabType' /\ ChainInv' /\ MarkInv' /\ WatchInv'
  BY <1>1 DEF LabInv, LabType, ChainInv, MarkInv, WatchInv, Block
<1>3. EndInv'
  BY <1>1 DEF LabInv, EndInv, Up
<1> QED
  BY <1>2, <1>3 DEF LabInv

\* The invariant makes a PASS true,
LEMMA PassTrue == LabInv => PassIsTrue
<1> SUFFICES ASSUME LabInv, status = "PASS" PROVE PassIsTrue
  BY DEF PassIsTrue
<1> DEFINE floor == Max({first[n] : n \in {0, 1}})
<1>1. at = 34 /\ Up = {}
  BY LabAssumption DEF LabInv, EndInv
<1>2. /\ floor \in Nat /\ first[0] <= floor /\ first[1] <= floor
      /\ floor \in {first[0], first[1]} /\ first[0] \in Nat /\ first[1] \in Nat
  BY <1>1, FloorFact DEF LabInv, LabType
<1> HIDE DEF floor
<1>3. PICK h \in 1 .. Len(chain), k \in 1 .. Len(chain) :
          Block("v4", h) /\ Block("v5", k) /\ h < k
  BY <1>1 DEF LabInv, MarkInv
<1>4. HeightOf("v4") = h /\ HeightOf("v5") = k
  BY <1>3, HeightFact DEF Txs, Block
<1>5. PICK f \in 1 .. Len(chain) : Block("v5", f) /\ f <= first[0]
  BY <1>1 DEF LabInv, WatchInv
<1>6. HeightOf("v5") <= floor
  <2>1. HeightOf("v5") = f
    BY <1>5, HeightFact DEF Txs, Block
  <2> QED
    BY <1>2, <1>5, <2>1
<1>7. PICK r \in 1 .. Len(chain) : Block("restored", r) /\ r > first[0] /\ r > first[1]
  BY <1>1 DEF LabInv, WatchInv
<1>8. HeightOf("restored") > floor
  <2>1. HeightOf("restored") = r
    BY <1>7, HeightFact DEF Txs, Block
  <2> QED
    BY <1>2, <1>7, <2>1
<1>9. \A b \in 1 .. Len(chain) : chain[b] = "v6" => b > floor
  BY <1>1, <1>2 DEF LabInv, WatchInv
<1>10. ~moved
  BY <1>1 DEF LabInv, WatchInv
<1>11. {"v4", "v5", "restored"} \subseteq {chain[b] : b \in 1 .. Len(chain)}
  BY <1>3, <1>7 DEF Block
<1> QED
  BY <1>1, <1>3, <1>4, <1>6, <1>8, <1>9, <1>10, <1>11 DEF PassIsTrue, floor

\* and the transaction of three nodes and the restart real.
LEMMA RejoinReal == LabInv => RejoinIsReal
<1> SUFFICES ASSUME LabInv, Running, Plan[at].do = "stop", Plan[at].nodes = {2},
                    NEW n \in Validators
             PROVE  HeightOf("v5") \in 1 .. height[n]
  BY DEF RejoinIsReal
<1>1. at = 20
  BY Sites DEF LabInv, LabType
<1>2. Block("v5", mark) /\ height[n] > mark /\ height[n] \in Nat
  BY <1>1 DEF LabInv, LabType, MarkInv
<1>3. HeightOf("v5") = mark
  BY <1>2, HeightFact DEF Txs, Block
<1> QED
  BY <1>2, <1>3 DEF Block

\* LabInv holds in every state, with any engine, deaths and interruptions
\* (src/agency/lab/comet_smoke.py).
THEOREM LabInvariant == MCSpec => []LabInv
<1>1. MCInit => LabInv
  BY LabInitial DEF MCInit
<1>2. LabInv /\ [MCNext]_<<focus, vars, server, lab>> => LabInv'
  <2> SUFFICES ASSUME LabInv, [MCNext]_<<focus, vars, server, lab>> PROVE LabInv'
    OBVIOUS
  <2>1. LabNext \/ UNCHANGED lab
    BY DEF MCNext
  <2> QED
    BY <2>1, LabNextStep, LabStill
<1> QED
  BY <1>1, <1>2, PTL DEF MCSpec

\* LabSound: a report of the consensus laboratory that says PASS (comet_smoke.py,
\* validate_report) is true of the engine that ran, sound or not, for any number of blocks
\* and of children that die by themselves: what the harness reads at a few moments was true
\* in between, and the restarted node had caught up before the quorum was taken away.
THEOREM LabSoundHolds == MCSpec => []LabSound
<1>1. LabInv => LabSound
  BY PassTrue, RejoinReal DEF LabSound
<1> QED
  BY <1>1, LabInvariant, PTL
=============================================================================
