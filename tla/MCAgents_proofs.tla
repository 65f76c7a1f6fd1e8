--------------------------- MODULE MCAgents_proofs ---------------------------
(***************************************************************************)
(* Proofs about the tool loops (ToolCalls), the bridges (Bridges), the forge *)
(* (Forge) and the findings with their evidence and scores (Evidence), as    *)
(* MCAgents composes them, for every number of loops, processes, callers,    *)
(* jobs, files and every budget.  Each part has an inductive invariant of    *)
(* its own, as the parts share no state: ToolsInv says what the audit log    *)
(* holds of a loop in each of its states, BridgeInv counts the probes of a   *)
(* half-open circuit, ForgeInv says what the gates of a job that nobody      *)
(* disturbed have established of the files they read, FindbookInv says what  *)
(* of the evidence and of the scores is on the connection and not on disk.   *)
(***************************************************************************)
EXTENDS MCAgents, FiniteSetTheorems, SequenceTheorems, WellFoundedInduction, TLAPS

(***************************************************************************)
(* Tool loops and the audit log they share (ToolCalls).                     *)
(***************************************************************************)

InCall  == {"generating", "recording", "running", "persist"}
Between == {"ask", "call", "claim", "completed", "max_iterations", "parse_error"}

LoopState ==
    [pc : Tools!Ended \cup InCall \cup Between \cup {"new"}, proc : Procs \cup {None},
     beta : BOOLEAN, calls : Nat, tools : Nat, fails : Nat, failed : BOOLEAN, ok : BOOLEAN]

\* A loop in progress has a process; every recorded outcome has its intent.
ToolsType ==
    /\ loop \in [Loops -> LoopState]
    /\ \A l \in Loops : loop[l].pc # "new" => loop[l].proc \in Procs
    /\ intents \subseteq Loops \X Nat /\ outcomes \subseteq intents
    /\ staged \in [Procs -> SUBSET (intents \cup {None})]

\* How many calls a loop has made, from the tool calls it has behind it and
\* the answers in a row that were not understood.
Counted(x) ==
    /\ x.calls <= Tools!MostCalls
    /\ ~x.beta => x.calls = 0
    /\ x.pc = "new" => ~x.beta /\ x.tools = 0 /\ x.fails = 0 /\ ~x.failed
    /\ x.pc \in {"ask", "generating", "recording"} => x.tools <= Budget /\ x.fails <= 1
    /\ x.pc = "ask" => x.calls <= 3 * x.tools + x.fails
    /\ x.pc \in {"generating", "recording"} => x.calls <= 3 * x.tools + x.fails + 1
    /\ x.pc \in {"call", "claim", "running", "persist"} => x.tools < Budget /\ x.fails = 0
    /\ x.pc \in {"call", "claim"} => x.calls <= 3 * x.tools + 2
    /\ x.pc \in {"running", "persist"} => x.calls <= 3 * x.tools + 3
    /\ x.pc \in {"generating", "recording", "claim", "persist"} => x.beta

CountInv == \A l \in Loops : Counted(loop[l])

\* What the log says of loop l: nothing beyond its calls while it runs; all
\* calls but the one in progress have an outcome; that one is the only open
\* call of all loops; an outcome that waits for a commit is of a loop that
\* has ended.
Logged(l) ==
    /\ loop[l].pc \notin Tools!Ended =>
           \A i \in Nat : <<l, i>> \in intents => i <= loop[l].calls
    /\ loop[l].beta /\ loop[l].pc \in Between =>
           ~loop[l].failed /\ \A i \in 1 .. loop[l].calls : <<l, i>> \in outcomes
    /\ loop[l].beta /\ loop[l].pc \in InCall =>
           /\ ~loop[l].failed /\ \A i \in 1 .. (loop[l].calls - 1) : <<l, i>> \in outcomes
           /\ Tools!Pending = {Tools!Call(l)}

LogInv ==
    /\ \A l \in Loops : Logged(l)
    /\ \A p \in Procs : \A c \in staged[p] : c # None => loop[c[1]].pc \in Tools!Ended

ToolsInv == ToolsType /\ CountInv /\ LogInv

(* One loop moves.                                                         *)

USE ToolsAssumption DEF InCall, Between, Tools!Ended

\* What a step of loop l leaves alone.
OthersKept(l) == \A m \in Loops : m # l => loop'[m] = loop[m]

\* The log is untouched and the loop goes from one state between calls to
\* another, ends, or stays in its call.
LEMMA QuietStep ==
    ASSUME ToolsInv, NEW l \in Loops, NEW y \in LoopState, loop' = [loop EXCEPT ![l] = y],
           UNCHANGED <<intents, outcomes, staged>>,
           loop[l].pc \notin Tools!Ended, y.proc \in Procs, Counted(y), y.calls = loop[l].calls,
           \/ y.pc \in Tools!Ended \ Between
           \/ ~y.beta
           \/ /\ y.beta /\ loop[l].beta /\ y.failed = loop[l].failed
              /\ y.pc \in Between <=> loop[l].pc \in Between
              /\ y.pc \in InCall <=> loop[l].pc \in InCall
           \/ /\ y.beta /\ loop[l].pc = "new" /\ ~y.failed /\ y.pc \in Between
    PROVE  ToolsInv'
<1>1. loop' \in [Loops -> LoopState] /\ loop'[l] = y /\ OthersKept(l)
  BY DEF ToolsInv, ToolsType, OthersKept
<1>2. ToolsType'
  BY <1>1 DEF ToolsInv, ToolsType, OthersKept
<1>3. CountInv'
  BY <1>1 DEF ToolsInv, CountInv, OthersKept
<1>4. LogInv'
  <2>1. ASSUME NEW m \in Loops, m # l PROVE Logged(m)'
    BY <1>1, <2>1 DEF ToolsInv, LogInv, Logged, OthersKept, Tools!Pending, Tools!Call
  <2>2. Logged(l)'
    BY <1>1 DEF ToolsInv, ToolsType, LoopState, CountInv, Counted, LogInv, Logged,
       Tools!Pending, Tools!Call
  <2>3. \A p \in Procs : \A c \in staged'[p] : c # None => loop'[c[1]].pc \in Tools!Ended
    BY <1>1 DEF ToolsInv, ToolsType, LogInv, OthersKept
  <2> QED
    BY <2>1, <2>2, <2>3 DEF LogInv
<1> QED
  BY <1>2, <1>3, <1>4 DEF ToolsInv

\* Outcomes of the loop's own call, or of loops that have ended, reach the log.
LEMMA WriteStep ==
    ASSUME ToolsInv, NEW l \in Loops, NEW y \in LoopState, loop' = [loop EXCEPT ![l] = y],
           loop[l].pc \notin Tools!Ended, y.proc \in Procs, Counted(y), y.calls = loop[l].calls,
           UNCHANGED intents, outcomes \subseteq outcomes', outcomes' \subseteq intents,
           staged' \in [Procs -> SUBSET (intents \cup {None})],
           \A c \in outcomes' \ outcomes : c = Tools!Call(l) \/ loop[c[1]].pc \in Tools!Ended,
           \A p \in Procs : \A c \in staged'[p] : c # None =>
               (c[1] = l /\ y.pc \in Tools!Ended) \/ loop[c[1]].pc \in Tools!Ended,
           \/ y.pc \in Tools!Ended \ Between
           \/ /\ y.beta /\ loop[l].beta /\ loop[l].pc \in InCall /\ ~y.failed
              /\ y.pc \in Between /\ Tools!Call(l) \in outcomes'
    PROVE  ToolsInv'
<1>1. loop' \in [Loops -> LoopState] /\ loop'[l] = y /\ OthersKept(l)
  BY DEF ToolsInv, ToolsType, OthersKept
<1>2. ToolsType'
  BY <1>1 DEF ToolsInv, ToolsType, OthersKept
<1>3. CountInv'
  BY <1>1 DEF ToolsInv, CountInv, OthersKept
<1>4. LogInv'
  <2>1. ASSUME NEW m \in Loops, m # l PROVE Logged(m)'
    <3>1. Logged(m) /\ loop'[m] = loop[m] /\ Tools!Call(m)' = Tools!Call(m)
          /\ Tools!Call(m) # Tools!Call(l)
      BY <1>1, <2>1 DEF ToolsInv, LogInv, OthersKept, Tools!Call
    <3>2. loop[m].beta /\ loop[m].pc \in InCall => Tools!Pending' = {Tools!Call(m)}
      <4> SUFFICES ASSUME loop[m].beta, loop[m].pc \in InCall
                   PROVE  Tools!Pending' = {Tools!Call(m)}
        OBVIOUS
      <4>1. Tools!Pending = {Tools!Call(m)}
        BY <3>1 DEF Logged
      <4>2. Tools!Call(m) \notin outcomes'
        BY <3>1, <4>1 DEF Tools!Call, Tools!Pending
      <4> QED
        BY <4>1, <4>2 DEF Tools!Pending
    <3> QED
      BY <3>1, <3>2 DEF Logged
  <2>2. Logged(l)'
    <3>1. CASE y.pc \in Tools!Ended \ Between
      BY <1>1, <3>1 DEF Logged
    <3>2. CASE /\ y.beta /\ loop[l].beta /\ loop[l].pc \in InCall /\ ~y.failed
               /\ y.pc \in Between /\ Tools!Call(l) \in outcomes'
      BY <1>1, <3>2 DEF ToolsInv, ToolsType, LoopState, LogInv, Logged, Tools!Call
    <3> QED
      BY <3>1, <3>2
  <2>3. \A p \in Procs : \A c \in staged'[p] : c # None => loop'[c[1]].pc \in Tools!Ended
    BY <1>1 DEF ToolsInv, ToolsType, LogInv, OthersKept
  <2> QED
    BY <2>1, <2>2, <2>3 DEF LogInv
<1> QED
  BY <1>2, <1>3, <1>4 DEF ToolsInv

\* An intent is claimed: no call of anybody was open.
LEMMA ClaimStep ==
    ASSUME ToolsInv, NEW l \in Loops, NEW y \in LoopState, loop' = [loop EXCEPT ![l] = y],
           loop[l].pc \in {"ask", "claim"}, loop[l].beta, y.proc \in Procs, Counted(y),
           Tools!Pending = {}, intents' = intents \cup {<<l, loop[l].calls + 1>>},
           UNCHANGED <<outcomes, staged>>,
           \/ y.pc \in Tools!Ended \ Between
           \/ /\ y.beta /\ y.failed = loop[l].failed /\ y.pc \in InCall
              /\ y.calls = loop[l].calls + 1
    PROVE  ToolsInv'
<1>1. loop' \in [Loops -> LoopState] /\ loop'[l] = y /\ OthersKept(l)
  BY DEF ToolsInv, ToolsType, OthersKept
<1>2. loop[l].calls \in Nat /\ Logged(l)
  BY DEF ToolsInv, ToolsType, LoopState, LogInv
<1>3. ToolsType'
  BY <1>1, <1>2 DEF ToolsInv, ToolsType, OthersKept
<1>4. CountInv'
  BY <1>1 DEF ToolsInv, CountInv, OthersKept
<1>5. LogInv'
  <2>1. ASSUME NEW m \in Loops, m # l PROVE Logged(m)'
    BY <1>1, <2>1 DEF ToolsInv, LogInv, Logged, OthersKept
  <2>2. <<l, loop[l].calls + 1>> \notin outcomes
    BY <1>2 DEF ToolsInv, ToolsType, Logged
  <2>3. Logged(l)'
    <3>1. CASE y.pc \in Tools!Ended \ Between
      BY <1>1, <3>1 DEF Logged
    <3>2. CASE /\ y.beta /\ y.failed = loop[l].failed /\ y.pc \in InCall
               /\ y.calls = loop[l].calls + 1
      <4>1. Tools!Pending' = {Tools!Call(l)'}
        BY <1>1, <2>2, <3>2 DEF Tools!Pending, Tools!Call
      <4> QED
        BY <1>1, <1>2, <3>2, <4>1 DEF Logged
    <3> QED
      BY <3>1, <3>2
  <2>4. \A p \in Procs : \A c \in staged'[p] : c # None => loop'[c[1]].pc \in Tools!Ended
    BY <1>1 DEF ToolsInv, ToolsType, LogInv, OthersKept
  <2> QED
    BY <2>1, <2>3, <2>4 DEF LogInv
<1> QED
  BY <1>3, <1>4, <1>5 DEF ToolsInv

\* The record a loop has when it moves to another state.
At(x, pc) == [x EXCEPT !.pc = pc]

\* Moving to another state leaves the rest of the record alone.
LEMMA AtFields ==
    ASSUME NEW x \in LoopState, NEW s \in Tools!Ended \cup InCall \cup Between
    PROVE  /\ At(x, s) \in LoopState /\ At(x, s).pc = s /\ At(x, s).proc = x.proc
           /\ At(x, s).beta = x.beta /\ At(x, s).calls = x.calls /\ At(x, s).tools = x.tools
           /\ At(x, s).fails = x.fails /\ At(x, s).failed = x.failed
  BY DEF At, LoopState

\* Failures in Ended that give the user no answer.
Failing == Tools!Ended \ Between

\* A loop that ends without an answer keeps its counts.
LEMMA EndFields ==
    ASSUME ToolsInv, NEW l \in Loops, loop[l].pc # "new", NEW s \in Failing, Tools!End(l, s)
    PROVE  \E y \in LoopState :
               /\ loop' = [loop EXCEPT ![l] = y] /\ y.pc = s /\ y.proc \in Procs
               /\ Counted(y) /\ y.calls = loop[l].calls
<1>1. loop[l] \in LoopState /\ loop[l].proc \in Procs /\ Counted(loop[l])
  BY DEF ToolsInv, ToolsType, CountInv
<1>2. s \in Tools!Ended
  BY DEF Failing
<1>3. loop' = [loop EXCEPT ![l] = At(loop[l], s)]
  BY DEF Tools!End, At, ToolsInv, ToolsType
<1>4. /\ At(loop[l], s) \in LoopState /\ At(loop[l], s).pc = s
      /\ At(loop[l], s).proc = loop[l].proc /\ At(loop[l], s).beta = loop[l].beta
      /\ At(loop[l], s).calls = loop[l].calls
  BY <1>1, <1>2, AtFields
<1>5. Counted(At(loop[l], s))
  BY <1>1, <1>4 DEF Counted, Failing
<1> QED
  BY <1>1, <1>3, <1>4, <1>5

\* A loop ends in a failure, and what it was writing is written, waits on its
\* connection, or is lost.
LEMMA EndUnacknowledged ==
    ASSUME ToolsInv, NEW l \in Loops, loop[l].pc \notin Tools!Ended, loop[l].pc # "new",
           NEW s \in Failing, Tools!End(l, s), NEW r, r = None \/ r = Tools!Call(l),
           r = None \/ Tools!Call(l) \in intents,
           Tools!Appended(loop[l].proc, r) \/ Tools!Unacknowledged(loop[l].proc, r),
           UNCHANGED intents
    PROVE  ToolsInv'
<1>1. PICK y \in LoopState :
          /\ loop' = [loop EXCEPT ![l] = y] /\ y.pc = s /\ y.proc \in Procs
          /\ Counted(y) /\ y.calls = loop[l].calls
  BY EndFields
<1>2. PICK p \in Procs : p = loop[l].proc
  BY DEF ToolsInv, ToolsType
<1>3. s \in Tools!Ended \ Between
  BY DEF Failing
<1>4. staged \in [Procs -> SUBSET (intents \cup {None})] /\ outcomes \subseteq intents
  BY DEF ToolsInv, ToolsType
<1>5. /\ outcomes \subseteq outcomes' /\ outcomes' \subseteq intents
      /\ staged' \in [Procs -> SUBSET (intents \cup {None})]
      /\ \A c \in outcomes' \ outcomes : c = Tools!Call(l) \/ loop[c[1]].pc \in Tools!Ended
      /\ \A q \in Procs : \A c \in staged'[q] :
             c # None => c[1] = l \/ loop[c[1]].pc \in Tools!Ended
  <2>1. CASE UNCHANGED <<outcomes, staged>>
    BY <1>4, <2>1 DEF ToolsInv, LogInv
  <2>2. CASE staged' = [staged EXCEPT ![p] = @ \cup {r}] /\ UNCHANGED outcomes
    <3>1. r # None => r[1] = l
      BY DEF Tools!Call
    <3> QED
      BY <1>4, <2>2, <3>1 DEF ToolsInv, LogInv
  <2>3. CASE Tools!Commit(p, r)
    BY <1>4, <2>3 DEF Tools!Commit, ToolsInv, LogInv
  <2> QED
    BY <1>2, <2>1, <2>2, <2>3 DEF Tools!Appended, Tools!Unacknowledged
<1> QED
  BY <1>1, <1>3, <1>5, WriteStep

\* A loop ends in a failure and writes nothing.
LEMMA EndQuietly ==
    ASSUME ToolsInv, NEW l \in Loops, loop[l].pc \notin Tools!Ended, loop[l].pc # "new",
           NEW s \in Failing, Tools!End(l, s), UNCHANGED <<intents, outcomes, staged>>
    PROVE  ToolsInv'
<1>1. PICK y \in LoopState :
          /\ loop' = [loop EXCEPT ![l] = y] /\ y.pc = s /\ y.proc \in Procs
          /\ Counted(y) /\ y.calls = loop[l].calls
  BY EndFields
<1>2. y.pc \in Tools!Ended \ Between
  BY <1>1 DEF Failing
<1> QED
  BY <1>1, <1>2, QuietStep

\* The answer of the model: the budget and the parse failures bound the loop.
LEMMA Interpreted ==
    ASSUME ToolsInv, NEW l \in Loops, loop[l].pc \in {"ask", "recording"},
           NEW answer \in Tools!Answers, Tools!Interpret(l, answer)
    PROVE  \E y \in LoopState :
               /\ loop' = [loop EXCEPT ![l] = y] /\ y.pc \in Between /\ y.proc \in Procs
               /\ Counted(y) /\ y.calls = loop[l].calls /\ y.beta = loop[l].beta
               /\ y.failed = loop[l].failed
<1> DEFINE x == loop[l]
           s == Tools!Meaning(l, answer)
           f == IF answer = "garbage" THEN x.fails + 1 ELSE 0
           y == [x EXCEPT !.pc = s, !.fails = f]
<1>1. x \in LoopState /\ x.proc \in Procs /\ Counted(x)
  BY DEF ToolsInv, ToolsType, CountInv
<1>2. x.fails \in Nat /\ x.tools \in Nat /\ x.calls \in Nat
  BY <1>1 DEF LoopState
<1>3. /\ s \in Between \ {"claim"} /\ f \in Nat
      /\ s = "call" => x.tools < Budget /\ f = 0
      /\ s = "ask" => f = x.fails + 1 /\ f <= 1
  <2>1. CASE answer = "final"
    BY <1>2, <2>1 DEF Tools!Meaning
  <2>2. CASE answer # "final" /\ Tools!Forced(l)
    BY <1>2, <2>2 DEF Tools!Meaning
  <2>3. CASE answer = "call" /\ ~Tools!Forced(l)
    BY <1>2, <2>3 DEF Tools!Meaning, Tools!Forced
  <2>4. CASE answer = "garbage" /\ ~Tools!Forced(l) /\ Tools!GivesUp(l)
    BY <1>2, <2>4 DEF Tools!Meaning
  <2>5. CASE answer = "garbage" /\ ~Tools!Forced(l) /\ ~Tools!GivesUp(l)
    <3>1. s = "ask" /\ f = x.fails + 1 /\ f <= 1
      BY <1>2, <2>5 DEF Tools!Meaning, Tools!GivesUp
    <3> QED
      BY <1>2, <3>1
  <2> QED
    BY <2>1, <2>2, <2>3, <2>4, <2>5 DEF Tools!Answers
<1>5. loop' = [loop EXCEPT ![l] = y]
  BY DEF Tools!Interpret, ToolsInv, ToolsType
<1> HIDE DEF s, f
<1>6. /\ y \in LoopState /\ y.pc = s /\ y.proc = x.proc /\ y.beta = x.beta /\ y.calls = x.calls
      /\ y.tools = x.tools /\ y.fails = f /\ y.failed = x.failed
  BY <1>1, <1>3 DEF LoopState
<1> HIDE DEF y
<1>7. Counted(y)
  <2>1. x.tools <= Budget /\ x.fails <= 1 /\ x.calls <= 3 * x.tools + x.fails + 1
    BY <1>1, <1>2 DEF Counted
  <2>2. y.calls <= Tools!MostCalls /\ (~y.beta => y.calls = 0)
    BY <1>1, <1>6 DEF Counted
  <2>3. CASE s = "call"
    BY <1>2, <1>3, <1>6, <2>1, <2>2, <2>3 DEF Counted
  <2>4. CASE s = "ask"
    BY <1>2, <1>3, <1>6, <2>1, <2>2, <2>4 DEF Counted
  <2>5. CASE s \in {"completed", "max_iterations", "parse_error"}
    BY <1>6, <2>2, <2>5 DEF Counted
  <2> QED
    BY <1>3, <2>3, <2>4, <2>5
<1> QED
  BY <1>1, <1>3, <1>5, <1>6, <1>7

(* The actions of a loop.                                                  *)

\* ToolDriver.run starts: the entry checks end the loop or it asks the model.
LEMMA StartLoop ==
    ASSUME ToolsInv, NEW l \in Loops, NEW p \in Procs, NEW principal \in BOOLEAN,
           NEW bound \in BOOLEAN, Tools!Start(l, p, principal, bound)
    PROVE  ToolsInv'
<1> DEFINE x == loop[l]
           s == IF (p \in strict) # principal \/ (principal /\ ~bound) THEN "tool_error" ELSE "ask"
           y == [x EXCEPT !.proc = p, !.beta = (p \in strict), !.pc = s]
<1>1. x \in LoopState /\ Counted(x) /\ x.pc = "new"
  BY DEF ToolsInv, ToolsType, CountInv, Tools!Start
<1>2. /\ loop' = [loop EXCEPT ![l] = y]
      /\ UNCHANGED <<intents, outcomes, staged>>
  BY DEF Tools!Start, ToolsInv, ToolsType
<1>3. s \in {"ask", "tool_error"} /\ (p \in strict) \in BOOLEAN
  OBVIOUS
<1> HIDE DEF s
<1>4. /\ y \in LoopState /\ y.pc = s /\ y.proc = p /\ y.beta = (p \in strict)
      /\ y.calls = x.calls /\ y.tools = x.tools /\ y.fails = x.fails /\ y.failed = x.failed
  BY <1>1, <1>3 DEF LoopState
<1> HIDE DEF y
<1>5. x.calls = 0 /\ x.tools = 0 /\ x.fails = 0 /\ ~x.failed
  BY <1>1 DEF Counted
<1>6. Counted(y)
  BY <1>3, <1>4, <1>5 DEF Counted, Tools!MostCalls
<1> QED
  BY <1>1, <1>2, <1>3, <1>4, <1>5, <1>6, QuietStep

\* A legacy loop asks its model.
LEMMA AskStep ==
    ASSUME ToolsInv, NEW l \in Loops, Tools!Ask(l) PROVE ToolsInv'
<1>1. /\ loop[l].pc = "ask" /\ ~loop[l].beta /\ UNCHANGED <<intents, outcomes, staged>>
  BY DEF Tools!Ask
<1>2. CASE \E answer \in Tools!Answers : Tools!Interpret(l, answer)
  <2>1. PICK y \in LoopState :
            /\ loop' = [loop EXCEPT ![l] = y] /\ y.pc \in Between /\ y.proc \in Procs
            /\ Counted(y) /\ y.calls = loop[l].calls /\ y.beta = loop[l].beta
    BY <1>1, <1>2, Interpreted
  <2> QED
    BY <1>1, <2>1, QuietStep
<1>3. CASE \E s \in {"llm_error", "raised"} : Tools!End(l, s)
  BY <1>1, <1>3, EndQuietly DEF Failing
<1> QED
  BY <1>2, <1>3 DEF Tools!Ask

\* The claim of an intent, by a model call or by a tool call.
LEMMA ClaimedStep ==
    ASSUME ToolsInv, NEW l \in Loops, loop[l].beta,
           NEW s \in {"generating", "running"},
           (loop[l].pc = "ask" /\ s = "generating") \/ (loop[l].pc = "claim" /\ s = "running"),
           Tools!Claimed(loop[l].proc, <<l, loop[l].calls + 1>>),
           loop' = [loop EXCEPT ![l].pc = s, ![l].calls = @ + 1],
           UNCHANGED <<outcomes, staged>>
    PROVE  ToolsInv'
<1> DEFINE x == loop[l]
           n == x.calls + 1
           y == [x EXCEPT !.pc = s, !.calls = n]
<1>1. x \in LoopState /\ Counted(x) /\ x.proc \in Procs
  BY DEF ToolsInv, ToolsType, CountInv
<1>2. loop' = [loop EXCEPT ![l] = y]
  BY DEF ToolsInv, ToolsType
<1>3. x.calls \in Nat /\ x.tools \in Nat /\ x.fails \in Nat
  BY <1>1 DEF LoopState
<1> n \in Nat
  BY <1>3
<1> HIDE DEF n
<1>4. /\ y \in LoopState /\ y.pc = s /\ y.proc = x.proc /\ y.beta = x.beta
      /\ y.calls = n /\ y.tools = x.tools /\ y.fails = x.fails /\ y.failed = x.failed
  BY <1>1, <1>3 DEF LoopState
<1> HIDE DEF y
<1>5. Counted(y)
  <2>1. CASE s = "generating"
    BY <1>1, <1>3, <1>4, <2>1 DEF n, Counted, Tools!MostCalls
  <2>2. CASE s = "running"
    BY <1>1, <1>3, <1>4, <2>2 DEF n, Counted, Tools!MostCalls
  <2> QED
    BY <2>1, <2>2
<1> QED
  BY <1>1, <1>2, <1>4, <1>5, ClaimStep DEF n, Tools!Claimed

\* The claim was refused, failed or was cancelled.
LEMMA UnclaimedStep ==
    ASSUME ToolsInv, NEW l \in Loops, loop[l].beta, loop[l].pc \in {"ask", "claim"},
           NEW p, NEW s \in Failing, Tools!End(l, s),
           Tools!Refused(p) \/ Tools!Unclaimed(p, <<l, loop[l].calls + 1>>),
           UNCHANGED <<outcomes, staged>>
    PROVE  ToolsInv'
<1>1. CASE UNCHANGED intents
  BY <1>1, EndQuietly
<1>2. CASE Tools!Claimed(p, <<l, loop[l].calls + 1>>)
  <2>1. PICK y \in LoopState :
            /\ loop' = [loop EXCEPT ![l] = y] /\ y.pc = s /\ y.proc \in Procs
            /\ Counted(y) /\ y.calls = loop[l].calls
    BY EndFields
  <2>2. y.pc \in Tools!Ended \ Between
    BY <2>1 DEF Failing
  <2> QED
    BY <1>2, <2>1, <2>2, ClaimStep DEF Tools!Claimed
<1> QED
  BY <1>1, <1>2 DEF Tools!Refused, Tools!Unclaimed

\* A beta loop claims the intent of a model call.
LEMMA ClaimModelStep ==
    ASSUME ToolsInv, NEW l \in Loops, Tools!ClaimModel(l) PROVE ToolsInv'
<1>1. loop[l].pc = "ask" /\ loop[l].beta /\ UNCHANGED <<outcomes, staged>>
  BY DEF Tools!ClaimModel
<1>2. CASE /\ Tools!Claimed(loop[l].proc, <<l, loop[l].calls + 1>>)
           /\ loop' = [loop EXCEPT ![l].pc = "generating", ![l].calls = @ + 1]
  BY <1>1, <1>2, ClaimedStep
<1>3. CASE /\ \/ Tools!Refused(loop[l].proc)
              \/ Tools!Unclaimed(loop[l].proc, <<l, loop[l].calls + 1>>)
           /\ Tools!End(l, "raised")
  <2>1. "raised" \in Failing
    BY DEF Failing
  <2> QED
    BY <1>1, <1>3, <2>1, UnclaimedStep
<1> QED
  BY <1>2, <1>3 DEF Tools!ClaimModel

\* A beta loop claims the intent of a tool call.
LEMMA ClaimToolStep ==
    ASSUME ToolsInv, NEW l \in Loops, Tools!ClaimTool(l) PROVE ToolsInv'
<1>1. loop[l].pc = "claim" /\ loop[l].beta /\ UNCHANGED <<outcomes, staged>>
  BY DEF Tools!ClaimTool, ToolsInv, CountInv, Counted
<1>2. CASE /\ Tools!Claimed(loop[l].proc, <<l, loop[l].calls + 1>>)
           /\ loop' = [loop EXCEPT ![l].pc = "running", ![l].calls = @ + 1]
  BY <1>1, <1>2, ClaimedStep
<1>3. CASE /\ \/ Tools!Refused(loop[l].proc)
              \/ Tools!Unclaimed(loop[l].proc, <<l, loop[l].calls + 1>>)
           /\ Tools!End(l, "raised") \/ Tools!End(l, "audit_error")
  <2>1. {"raised", "audit_error"} \subseteq Failing
    BY DEF Failing
  <2> QED
    BY <1>1, <1>3, <2>1, UnclaimedStep
<1> QED
  BY <1>2, <1>3 DEF Tools!ClaimTool

\* The provider answers, or the call is left uncertain and the loop ends.
LEMMA GenerateStep ==
    ASSUME ToolsInv, NEW l \in Loops, Tools!Generate(l) PROVE ToolsInv'
<1> DEFINE x == loop[l]
           y == At(x, "recording")
<1>1. x.pc = "generating" /\ UNCHANGED intents
  BY DEF Tools!Generate
<1>2. x \in LoopState /\ x.proc \in Procs /\ Counted(x) /\ x.beta
  BY <1>1 DEF ToolsInv, ToolsType, CountInv, Counted
<1>3. CASE loop' = [loop EXCEPT ![l].pc = "recording"] /\ UNCHANGED <<outcomes, staged>>
  <2>1. loop' = [loop EXCEPT ![l] = y]
    BY <1>3 DEF At, ToolsInv, ToolsType
  <2>2. /\ y \in LoopState /\ y.pc = "recording" /\ y.proc = x.proc /\ y.beta = x.beta
        /\ y.calls = x.calls /\ y.tools = x.tools /\ y.fails = x.fails /\ y.failed = x.failed
    BY ZenonT(60), <1>2, AtFields
  <2> HIDE DEF y
  <2>3. Counted(y)
    BY <1>1, <1>2, <2>2 DEF Counted
  <2> QED
    BY <1>1, <1>2, <1>3, <2>1, <2>2, <2>3, QuietStep
<1>4. CASE /\ Tools!End(l, "raised")
           /\ Tools!Appended(x.proc, None) \/ Tools!Unacknowledged(x.proc, None)
  <2>1. "raised" \in Failing
    BY DEF Failing
  <2> QED
    BY <1>1, <1>4, <2>1, EndUnacknowledged
<1> QED
  BY <1>3, <1>4 DEF Tools!Generate

\* A loop that is in a beta call has its intent in the log.
LEMMA CallClaimed ==
    ASSUME ToolsInv, NEW l \in Loops, loop[l].beta, loop[l].pc \in InCall
    PROVE  Tools!Call(l) \in intents
  BY DEF ToolsInv, LogInv, Logged, Tools!Pending

\* The outcome of the loop's call is acknowledged, and the loop goes on from
\* there or ends without an answer.
LEMMA AppendedStep ==
    ASSUME ToolsInv, NEW l \in Loops, loop[l].beta, loop[l].pc \in InCall,
           Tools!Appended(loop[l].proc, Tools!Call(l)), UNCHANGED intents,
           NEW y \in LoopState, loop' = [loop EXCEPT ![l] = y],
           y.proc \in Procs, Counted(y), y.calls = loop[l].calls,
           \/ y.pc \in Tools!Ended \ Between
           \/ y.beta /\ ~y.failed /\ y.pc \in Between
    PROVE  ToolsInv'
<1>1. PICK p \in Procs : p = loop[l].proc
  BY DEF ToolsInv, ToolsType
<1>2. Tools!Call(l) \in intents
  BY CallClaimed
<1>3. staged \in [Procs -> SUBSET (intents \cup {None})] /\ outcomes \subseteq intents
  BY DEF ToolsInv, ToolsType
<1>4. Tools!Call(l) # None
  BY <1>2 DEF ToolsInv, ToolsType
<1>5. Tools!Commit(p, Tools!Call(l))
  BY <1>1 DEF Tools!Appended
<1>6. /\ outcomes \subseteq outcomes' /\ outcomes' \subseteq intents
      /\ Tools!Call(l) \in outcomes'
      /\ staged' \in [Procs -> SUBSET (intents \cup {None})]
      /\ \A c \in outcomes' \ outcomes : c = Tools!Call(l) \/ loop[c[1]].pc \in Tools!Ended
      /\ \A q \in Procs : \A c \in staged'[q] : c # None => loop[c[1]].pc \in Tools!Ended
  BY <1>2, <1>3, <1>4, <1>5 DEF Tools!Commit, ToolsInv, LogInv
<1> QED
  BY ZenonT(60), <1>6, WriteStep

\* The outcome of a model call is recorded, then its text is read.
LEMMA RecordModelStep ==
    ASSUME ToolsInv, NEW l \in Loops, Tools!RecordModel(l) PROVE ToolsInv'
<1>1. /\ loop[l].pc = "recording" /\ loop[l].beta /\ ~loop[l].failed /\ UNCHANGED intents
  BY DEF Tools!RecordModel, ToolsInv, CountInv, Counted, LogInv, Logged
<1>2. CASE /\ Tools!Appended(loop[l].proc, Tools!Call(l))
           /\ \E answer \in Tools!Answers : Tools!Interpret(l, answer)
  <2>1. PICK y \in LoopState :
            /\ loop' = [loop EXCEPT ![l] = y] /\ y.pc \in Between /\ y.proc \in Procs
            /\ Counted(y) /\ y.calls = loop[l].calls /\ y.beta = loop[l].beta
            /\ y.failed = loop[l].failed
    BY <1>1, <1>2, Interpreted
  <2> QED
    BY <1>1, <1>2, <2>1, AppendedStep
<1>3. CASE Tools!Unacknowledged(loop[l].proc, Tools!Call(l)) /\ Tools!End(l, "raised")
  <2>1. "raised" \in Failing /\ Tools!Call(l) \in intents
    BY <1>1, CallClaimed DEF Failing
  <2> QED
    BY <1>1, <1>3, <2>1, EndUnacknowledged
<1> QED
  BY <1>2, <1>3 DEF Tools!RecordModel

\* A tool result the loop goes on with: it has made one more tool call.
LEMMA SteppedFields ==
    ASSUME ToolsInv, NEW l \in Loops, loop[l].pc \in {"call", "running", "persist"},
           NEW ok \in BOOLEAN, Tools!Stepped(l, ok)
    PROVE  \E y \in LoopState :
               /\ loop' = [loop EXCEPT ![l] = y] /\ y.pc = "ask" /\ y.proc \in Procs
               /\ Counted(y) /\ y.calls = loop[l].calls /\ y.beta = loop[l].beta
               /\ (ok => y.failed = loop[l].failed)
<1> DEFINE x == loop[l]
           n == x.tools + 1
           f == x.failed \/ ~ok
           y == [x EXCEPT !.pc = "ask", !.tools = n, !.failed = f, !.ok = FALSE]
<1>1. x \in LoopState /\ x.proc \in Procs /\ Counted(x)
  BY DEF ToolsInv, ToolsType, CountInv
<1>2. x.tools \in Nat /\ x.calls \in Nat /\ x.fails \in Nat /\ x.failed \in BOOLEAN
  BY <1>1 DEF LoopState
<1>3. n \in Nat /\ f \in BOOLEAN /\ (ok => f = x.failed)
  BY <1>2
<1>4. loop' = [loop EXCEPT ![l] = y]
  BY DEF Tools!Stepped, ToolsInv, ToolsType
<1> HIDE DEF n, f
<1>5. /\ y \in LoopState /\ y.pc = "ask" /\ y.proc = x.proc /\ y.beta = x.beta
      /\ y.calls = x.calls /\ y.tools = n /\ y.fails = x.fails /\ y.failed = f
  BY <1>1, <1>3 DEF LoopState
<1> HIDE DEF y
<1>6. Counted(y)
  BY <1>1, <1>2, <1>3, <1>5 DEF n, Counted
<1> QED
  BY <1>1, <1>3, <1>4, <1>5, <1>6

\* A call is denied: a beta loop ends, a legacy loop tells the model.
LEMMA DenyStep ==
    ASSUME ToolsInv, NEW l \in Loops, Tools!Deny(l) PROVE ToolsInv'
<1>1. loop[l].pc = "call" /\ UNCHANGED intents
  BY DEF Tools!Deny
<1>2. {"tool_error", "raised"} \subseteq Failing
  BY DEF Failing
<1>3. CASE loop[l].beta
  <2>1. \E s \in {"tool_error", "raised"} :
            /\ Tools!End(l, s)
            /\ Tools!Appended(loop[l].proc, None) \/ Tools!Unacknowledged(loop[l].proc, None)
    BY <1>3 DEF Tools!Deny
  <2> QED
    BY <1>1, <1>2, <2>1, EndUnacknowledged
<1>4. CASE ~loop[l].beta
  <2>1. Tools!Stepped(l, FALSE) /\ UNCHANGED <<outcomes, staged>>
    BY <1>4 DEF Tools!Deny
  <2>2. PICK y \in LoopState :
            /\ loop' = [loop EXCEPT ![l] = y] /\ y.pc = "ask" /\ y.proc \in Procs
            /\ Counted(y) /\ y.calls = loop[l].calls /\ y.beta = loop[l].beta
    BY <1>1, <2>1, SteppedFields
  <2> QED
    BY <1>1, <1>4, <2>1, <2>2, QuietStep
<1> QED
  BY <1>3, <1>4

\* A call is admitted, or refused by the latch.
LEMMA AdmitStep ==
    ASSUME ToolsInv, NEW l \in Loops, Tools!Admit(l) PROVE ToolsInv'
<1> DEFINE x == loop[l]
           s == IF ~x.beta THEN "running"
                ELSE IF suspended[x.proc] THEN "audit_error" ELSE "claim"
           y == At(x, s)
<1>1. x.pc = "call" /\ UNCHANGED <<intents, outcomes, staged>>
  BY DEF Tools!Admit
<1>2. x \in LoopState /\ x.proc \in Procs /\ Counted(x)
  BY <1>1 DEF ToolsInv, ToolsType, CountInv
<1>3. loop' = [loop EXCEPT ![l] = y]
  BY DEF Tools!Admit, At, ToolsInv, ToolsType
<1>4. (s = "running" /\ ~x.beta) \/ s = "audit_error" \/ (s = "claim" /\ x.beta)
  OBVIOUS
<1> HIDE DEF s
<1>5. /\ y \in LoopState /\ y.pc = s /\ y.proc = x.proc /\ y.beta = x.beta
      /\ y.calls = x.calls /\ y.tools = x.tools /\ y.fails = x.fails /\ y.failed = x.failed
  BY <1>2, <1>4, AtFields
<1> HIDE DEF y
<1>6. x.calls \in Nat /\ x.tools \in Nat
  BY <1>2 DEF LoopState
<1>7. Counted(y)
  BY <1>1, <1>2, <1>4, <1>5, <1>6 DEF Counted
<1> QED
  BY <1>1, <1>2, <1>3, <1>4, <1>5, <1>7, QuietStep

\* The tool runs; its effect has no outcome on record yet.
LEMMA RunToolStep ==
    ASSUME ToolsInv, NEW l \in Loops, Tools!RunTool(l) PROVE ToolsInv'
<1>1. loop[l].pc = "running" /\ UNCHANGED <<intents, outcomes, staged>>
  BY DEF Tools!RunTool
<1>2. loop[l] \in LoopState /\ loop[l].proc \in Procs /\ Counted(loop[l])
  BY <1>1 DEF ToolsInv, ToolsType, CountInv
<1>3. ASSUME NEW ok \in BOOLEAN, loop[l].beta,
             loop' = [loop EXCEPT ![l].pc = "persist", ![l].ok = ok]
      PROVE  ToolsInv'
  <2> DEFINE x == loop[l]
             y == [x EXCEPT !.pc = "persist", !.ok = ok]
  <2>1. loop' = [loop EXCEPT ![l] = y]
    BY <1>3 DEF ToolsInv, ToolsType
  <2>2. /\ y \in LoopState /\ y.pc = "persist" /\ y.proc = x.proc /\ y.beta = x.beta
        /\ y.calls = x.calls /\ y.tools = x.tools /\ y.fails = x.fails /\ y.failed = x.failed
    BY <1>2 DEF LoopState
  <2> HIDE DEF y
  <2>3. Counted(y)
    BY <1>1, <1>2, <1>3, <2>2 DEF Counted
  <2> QED
    BY <1>1, <1>2, <1>3, <2>1, <2>2, <2>3, QuietStep
<1>4. ASSUME NEW ok \in BOOLEAN, ~loop[l].beta, Tools!Stepped(l, ok)
      PROVE  ToolsInv'
  <2>1. PICK y \in LoopState :
            /\ loop' = [loop EXCEPT ![l] = y] /\ y.pc = "ask" /\ y.proc \in Procs
            /\ Counted(y) /\ y.calls = loop[l].calls /\ y.beta = loop[l].beta
    BY <1>1, <1>4, SteppedFields
  <2> QED
    BY <1>1, <1>4, <2>1, QuietStep
<1>5. CASE Tools!End(l, "raised")
  <2>1. "raised" \in Failing
    BY DEF Failing
  <2> QED
    BY <1>1, <1>5, <2>1, EndQuietly
<1> QED
  BY <1>3, <1>4, <1>5 DEF Tools!RunTool

\* The outcome of a tool call is recorded, or the loop ends without it.
LEMMA PersistToolStep ==
    ASSUME ToolsInv, NEW l \in Loops, Tools!PersistTool(l) PROVE ToolsInv'
<1>1. loop[l].pc = "persist" /\ loop[l].beta /\ ~loop[l].failed /\ UNCHANGED intents
  BY DEF Tools!PersistTool, ToolsInv, CountInv, Counted, LogInv, Logged
<1>2. /\ {"tool_error", "audit_error", "raised"} \subseteq Failing
      /\ Tools!Call(l) \in intents
  BY <1>1, CallClaimed DEF Failing
<1>3. CASE Tools!Appended(loop[l].proc, Tools!Call(l)) /\ Tools!Stepped(l, TRUE)
  <2>1. PICK y \in LoopState :
            /\ loop' = [loop EXCEPT ![l] = y] /\ y.pc = "ask" /\ y.proc \in Procs
            /\ Counted(y) /\ y.calls = loop[l].calls /\ y.beta = loop[l].beta
            /\ y.failed = loop[l].failed
    BY <1>1, <1>3, SteppedFields
  <2> QED
    BY <1>1, <1>3, <2>1, AppendedStep
<1>4. CASE \E s \in {"tool_error", "audit_error", "raised"} :
               /\ Tools!End(l, s)
               /\ \/ Tools!Appended(loop[l].proc, Tools!Call(l))
                  \/ Tools!Unacknowledged(loop[l].proc, Tools!Call(l))
  BY <1>1, <1>2, <1>4, EndUnacknowledged
<1> QED
  BY <1>1, <1>3, <1>4 DEF Tools!PersistTool, Tools!FailedResult

\* Closing a connection commits the rows that waited on it, all of ended loops.
LEMMA CloseStep ==
    ASSUME ToolsInv, NEW p \in Procs, Tools!Close(p) PROVE ToolsInv'
<1>1. UNCHANGED <<loop, intents>> /\ Tools!Commit(p, None)
  BY DEF Tools!Close
<1>2. staged \in [Procs -> SUBSET (intents \cup {None})] /\ outcomes \subseteq intents
  BY DEF ToolsInv, ToolsType
<1>3. /\ outcomes \subseteq outcomes' /\ outcomes' \subseteq intents
      /\ staged' \in [Procs -> SUBSET (intents \cup {None})]
      /\ \A q \in Procs : staged'[q] \subseteq staged[q]
      /\ \A c \in outcomes' \ outcomes : loop[c[1]].pc \in Tools!Ended
  BY <1>1, <1>2 DEF Tools!Commit, ToolsInv, LogInv
<1>4. ToolsType' /\ CountInv'
  BY <1>1, <1>3 DEF ToolsInv, ToolsType, CountInv
<1>5. ASSUME NEW m \in Loops PROVE Logged(m)'
  <2>1. Logged(m) /\ loop'[m] = loop[m] /\ Tools!Call(m)' = Tools!Call(m)
    BY <1>1 DEF ToolsInv, LogInv, Tools!Call
  <2>2. loop[m].beta /\ loop[m].pc \in InCall => Tools!Pending' = {Tools!Call(m)}
    <3> SUFFICES ASSUME loop[m].beta, loop[m].pc \in InCall
                 PROVE  Tools!Pending' = {Tools!Call(m)}
      OBVIOUS
    <3>1. Tools!Pending = {Tools!Call(m)}
      BY <2>1 DEF Logged
    <3>2. Tools!Call(m) \notin outcomes'
      BY <1>3, <3>1 DEF Tools!Call, Tools!Pending
    <3> QED
      BY <1>1, <1>3, <3>1, <3>2 DEF Tools!Pending
  <2> QED
    BY <1>1, <1>3, <2>1, <2>2 DEF Logged
<1> QED
  BY <1>1, <1>3, <1>4, <1>5 DEF ToolsInv, LogInv

\* The loops of a process that dies are lost; what it had not committed is
\* rolled back, and its intents stay.
LEMMA CrashStep ==
    ASSUME ToolsInv, NEW p \in Procs, Tools!Crash(p) PROVE ToolsInv'
<1>1. /\ UNCHANGED <<intents, outcomes>>
      /\ staged' = [staged EXCEPT ![p] = {}]
      /\ loop' = [l \in Loops |-> IF loop[l].proc = p /\ loop[l].pc \notin Tools!Ended
                                  THEN At(loop[l], "lost") ELSE loop[l]]
  BY DEF Tools!Crash, At
<1>2. loop \in [Loops -> LoopState] /\ staged \in [Procs -> SUBSET (intents \cup {None})]
  BY DEF ToolsInv, ToolsType
<1>3. ASSUME NEW l \in Loops
      PROVE  \/ loop'[l] = loop[l]
             \/ /\ loop'[l] \in LoopState /\ loop'[l].pc = "lost" /\ loop'[l].proc \in Procs
                /\ loop[l].pc \notin Tools!Ended
                /\ loop'[l].beta = loop[l].beta /\ loop'[l].calls = loop[l].calls
  <2>1. loop[l] \in LoopState
    BY <1>2
  <2>2. CASE loop[l].proc = p /\ loop[l].pc \notin Tools!Ended
    <3>1. loop'[l] = At(loop[l], "lost")
      BY <1>1, <2>2
    <3> QED
      BY <2>1, <2>2, <3>1, AtFields
  <2>3. CASE ~(loop[l].proc = p /\ loop[l].pc \notin Tools!Ended)
    BY <1>1, <2>3
  <2> QED
    BY <2>2, <2>3
<1>4. \A q \in Procs : staged'[q] \subseteq staged[q] /\ staged'[q] \subseteq intents \cup {None}
  BY <1>1, <1>2
<1>5. ToolsType'
  BY <1>1, <1>2, <1>3, <1>4 DEF ToolsInv, ToolsType
<1>6. CountInv'
  <2>1. ASSUME NEW l \in Loops PROVE Counted(loop'[l])
    BY <1>3 DEF ToolsInv, CountInv, Counted
  <2> QED
    BY <2>1 DEF CountInv
<1>7. ASSUME NEW l \in Loops PROVE Logged(l)'
  <2>1. CASE loop'[l] = loop[l]
    BY <1>1, <2>1 DEF ToolsInv, LogInv, Logged, Tools!Pending, Tools!Call
  <2>2. CASE loop'[l].pc = "lost"
    BY <2>2 DEF Logged
  <2> QED
    BY <1>3, <2>1, <2>2
<1>8. \A q \in Procs : \A c \in staged'[q] : c # None => loop'[c[1]].pc \in Tools!Ended
  <2> SUFFICES ASSUME NEW q \in Procs, NEW c \in staged'[q], c # None
               PROVE  loop'[c[1]].pc \in Tools!Ended
    OBVIOUS
  <2>1. c \in intents /\ loop[c[1]].pc \in Tools!Ended
    BY <1>4 DEF ToolsInv, LogInv
  <2>2. c[1] \in Loops
    BY <2>1 DEF ToolsInv, ToolsType
  <2> QED
    BY <1>3, <2>1, <2>2
<1> QED
  BY <1>5, <1>6, <1>7, <1>8 DEF ToolsInv, LogInv

\* Nothing has been called yet.
LEMMA ToolsInit ==
    ASSUME Tools!Init PROVE ToolsInv
<1>1. /\ loop = [l \in Loops |-> Tools!Idle] /\ intents = {} /\ outcomes = {}
      /\ staged = [p \in Procs |-> {}]
  BY DEF Tools!Init
<1>2. /\ Tools!Idle \in LoopState /\ Tools!Idle.pc = "new" /\ Tools!Idle.proc = None
      /\ Tools!Idle.beta = FALSE /\ Tools!Idle.calls = 0 /\ Tools!Idle.tools = 0
      /\ Tools!Idle.fails = 0 /\ Tools!Idle.failed = FALSE
  BY DEF Tools!Idle, LoopState
<1>3. ToolsType
  BY <1>1, <1>2 DEF ToolsType
<1>4. CountInv
  <2>1. Counted(Tools!Idle)
    BY <1>2 DEF Counted, Tools!MostCalls
  <2> QED
    BY <1>1, <2>1 DEF CountInv
<1>5. LogInv
  BY <1>1, <1>2 DEF LogInv, Logged
<1> QED
  BY <1>3, <1>4, <1>5 DEF ToolsInv

\* Every step keeps the invariant of the tool loops.
LEMMA ToolsNext ==
    ASSUME ToolsInv, Tools!Next PROVE ToolsInv'
<1>1. CASE \E l \in Loops, p \in Procs, principal, bound \in BOOLEAN :
               Tools!Start(l, p, principal, bound)
  BY <1>1, StartLoop
<1>2. CASE \E l \in Loops : Tools!Step(l)
  BY <1>2, AskStep, ClaimModelStep, GenerateStep, RecordModelStep, DenyStep, AdmitStep,
     ClaimToolStep, RunToolStep, PersistToolStep DEF Tools!Step
<1>3. CASE \E p \in Procs : Tools!Initialize(p)
  <2>1. UNCHANGED <<loop, intents, outcomes, staged>>
    BY <1>3 DEF Tools!Initialize
  <2> QED
    BY <2>1 DEF ToolsInv, ToolsType, CountInv, LogInv, Logged, Tools!Pending, Tools!Call
<1>4. CASE \E p \in Procs : Tools!Close(p) \/ Tools!Crash(p)
  BY <1>4, CloseStep, CrashStep
<1> QED
  BY <1>1, <1>2, <1>3, <1>4 DEF Tools!Next

\* A step of another part leaves the tool loops alone.
LEMMA ToolsKept ==
    ASSUME ToolsInv, UNCHANGED tools PROVE ToolsInv'
  BY DEF tools, ToolsInv, ToolsType, CountInv, LogInv, Logged, Tools!Pending, Tools!Call

\* The inductive invariant of the tool loops: it holds when nothing has been called, and no
\* step of a loop, of a connection or of a dying process breaks it.
THEOREM ToolsInvariant == MCSpec => []ToolsInv
<1>1. MCInit => ToolsInv
  BY ToolsInit DEF MCInit
<1>2. ToolsInv /\ [MCNext]_vars => ToolsInv'
  <2> SUFFICES ASSUME ToolsInv, [MCNext]_vars PROVE ToolsInv'
    OBVIOUS
  <2>1. Tools!Next \/ UNCHANGED tools
    BY DEF MCNext, vars
  <2> QED
    BY <2>1, ToolsNext, ToolsKept
<1> QED
  BY <1>1, <1>2, PTL DEF MCSpec

\* Whatever the number of loops and processes and whatever the budget: a beta call is only
\* dispatched when no effect is uncertain, an answer hides no failed or unrecorded call, and
\* every loop stays within MostCalls (claim_intent, ToolRegistry.call, ToolDriver.run).
THEOREM ToolCallsSoundHolds == MCSpec => []ToolCallsSound
<1>1. ToolsInv => ToolCallsSound
  <2> SUFFICES ASSUME ToolsInv
               PROVE  Tools!OneUncertainty /\ Tools!AnswersAccounted /\ Tools!LoopBounded
    BY DEF ToolCallsSound
  <2>1. Tools!OneUncertainty
    BY CallClaimed DEF Tools!OneUncertainty, ToolsInv, LogInv, Logged
  <2>2. Tools!AnswersAccounted
    BY DEF Tools!AnswersAccounted, ToolsInv, LogInv, Logged
  <2>3. Tools!LoopBounded
    BY DEF Tools!LoopBounded, ToolsInv, CountInv, Counted
  <2> QED
    BY <2>1, <2>2, <2>3
<1> QED
  BY <1>1, ToolsInvariant, PTL

-----------------------------------------------------------------------------
(***************************************************************************)
(* Bridges and their circuit breaker (Bridges).                             *)
(***************************************************************************)

BreakerState ==
    [state : {"closed", "open", "half_open"}, failures : Nat, successes : Nat,
     waited : Nat, inflight : Nat, round : Nat, lost : Nat]

RouteState ==
    [pc : {"idle", "writing", "waiting", "reaping", "unwinding", "polling", "backoff"},
     mode : {"task", "stream"}, attempt : Nat, probe : Nat, current : BOOLEAN]

\* Calls in progress are finitely many, whatever the number of callers.
BridgeType ==
    /\ breaker \in BreakerState /\ route \in [Calls -> RouteState]
    /\ IsFiniteSet(Bridge!Running)

\* A circuit is half open in a numbered round only, and no admitted call names
\* a round that is still to come.
BreakerInv ==
    /\ Bridge!NeverWedged
    /\ breaker.state = "half_open" => breaker.round > 0
    /\ \A c \in Bridge!Running : route[c].current => route[c].probe <= breaker.round

\* The programs are counted, and each is accounted for.
ProgramsInv ==
    /\ procs \in [Calls -> Nat] /\ closing \in [Calls -> Nat] /\ dropped \in [Calls -> Nat]
    /\ Bridge!ProgramsReaped

BridgeInv == BridgeType /\ BreakerInv /\ ProgramsInv

HIDE ToolsAssumption DEF InCall, Between, Tools!Ended
USE BridgesAssumption

\* The breaker b is in order when n calls of its half-open round are running.
Sound(b, n) ==
    /\ b.state = "half_open" => b.round > 0 /\ b.inflight <= n + b.lost
    /\ b.state = "closed" => b.failures < FailureThreshold

\* BreakerInv in terms of the breaker and the number of its probes.
LEMMA BreakerSound ==
    BreakerInv <=> /\ Sound(breaker, Cardinality(Bridge!Probes))
                   /\ \A c \in Bridge!Running : route[c].current => route[c].probe <= breaker.round
<1>1. Bridge!Cardinality(Bridge!Probes) = Cardinality(Bridge!Probes)
  BY DEF Bridge!Cardinality, Cardinality
<1> QED
  BY <1>1 DEF BreakerInv, Bridge!NeverWedged, Sound

\* The same of the next state.
LEMMA BreakerSoundAfter ==
    BreakerInv' <=> /\ Sound(breaker', Cardinality(Bridge!Probes'))
                    /\ \A c \in Bridge!Running' :
                           route'[c].current => route'[c].probe <= breaker'.round
<1>1. Bridge!Cardinality(Bridge!Probes') = Cardinality(Bridge!Probes')
  BY DEF Bridge!Cardinality, Cardinality
<1> QED
  BY <1>1 DEF BreakerInv, Bridge!NeverWedged, Sound

\* The smaller of two numbers.
LEMMA MinOfTwo ==
    ASSUME NEW i \in Nat, NEW j \in Nat
    PROVE  Bridge!Min({i, j}) = IF i <= j THEN i ELSE j
<1> DEFINE m == IF i <= j THEN i ELSE j
<1>1. m \in {i, j} /\ \A y \in {i, j} : m <= y
  OBVIOUS
<1>2. \A x \in {i, j} : (\A y \in {i, j} : x <= y) => x = m
  OBVIOUS
<1> HIDE DEF m
<1>3. Bridge!Min({i, j}) = CHOOSE x \in {i, j} : \A y \in {i, j} : x <= y
  BY DEF Bridge!Min
<1>4. (CHOOSE x \in {i, j} : \A y \in {i, j} : x <= y) = m
  BY <1>1, <1>2
<1> QED
  BY <1>3, <1>4 DEF m

\* The dwell is over: a new round starts with nothing in flight.
LEMMA RefreshedBreaker ==
    ASSUME NEW b \in BreakerState, NEW n \in Nat, Sound(b, n)
    PROVE  /\ Bridge!Refreshed(b) \in BreakerState
           /\ \/ Bridge!Refreshed(b) = b
              \/ /\ Bridge!Refreshed(b).state = "half_open"
                 /\ Bridge!Refreshed(b).inflight = 0
                 /\ Bridge!Refreshed(b).round = b.round + 1
<1> DEFINE r == b.round + 1
           h == [b EXCEPT !.state = "half_open", !.inflight = 0, !.successes = 0,
                          !.round = r, !.lost = 0]
<1>1. b.round \in Nat /\ r \in Nat
  BY DEF BreakerState
<1>2. Bridge!Refreshed(b) = b \/ Bridge!Refreshed(b) = h
  BY DEF Bridge!Refreshed, Bridge!HalfOpen
<1> HIDE DEF r
<1>3. h \in BreakerState /\ h.state = "half_open" /\ h.inflight = 0 /\ h.round = r
  BY <1>1 DEF BreakerState
<1> QED
  BY <1>1, <1>2, <1>3 DEF r

\* A call is admitted: in a half-open round it is one more in flight.
LEMMA AdmittedBreaker ==
    ASSUME NEW b \in BreakerState
    PROVE  /\ Bridge!Admitted(b) \in BreakerState
           /\ Bridge!Admitted(b).state = b.state /\ Bridge!Admitted(b).round = b.round
           /\ Bridge!Admitted(b).failures = b.failures /\ Bridge!Admitted(b).lost = b.lost
           /\ b.state = "half_open" => Bridge!Admitted(b).inflight = b.inflight + 1
<1> DEFINE i == b.inflight + 1
           a == [b EXCEPT !.inflight = i]
<1>1. i \in Nat
  BY DEF BreakerState
<1> HIDE DEF i
<1>2. /\ a \in BreakerState /\ a.state = b.state /\ a.round = b.round
      /\ a.failures = b.failures /\ a.lost = b.lost /\ a.inflight = i
  BY <1>1 DEF BreakerState
<1>3. Bridge!Admitted(b) = IF b.state = "half_open" THEN a ELSE b
  BY DEF Bridge!Admitted, i
<1> HIDE DEF a
<1>4. CASE b.state = "half_open"
  BY <1>2, <1>3, <1>4 DEF i
<1>5. CASE b.state # "half_open"
  BY <1>3, <1>5
<1> QED
  BY <1>4, <1>5

\* What a recorded result does: it takes one call out of flight, and the
\* circuit is in order with one probe less.
LEMMA SucceededBreaker ==
    ASSUME NEW b \in BreakerState, NEW n \in Nat, Sound(b, n)
    PROVE  /\ Bridge!Succeeded(b) \in BreakerState /\ Bridge!Succeeded(b).round = b.round
           /\ \A m \in Nat : n <= m + 1 => Sound(Bridge!Succeeded(b), m)
<1> DEFINE i == IF b.inflight > 0 THEN b.inflight - 1 ELSE 0
           k == b.successes + 1
           u == [b EXCEPT !.failures = 0]
           v == [b EXCEPT !.failures = 0, !.inflight = i, !.successes = 0, !.state = "closed"]
           w == [b EXCEPT !.failures = 0, !.inflight = i, !.successes = k]
<1>1. /\ i \in Nat /\ k \in Nat /\ b.inflight \in Nat /\ b.lost \in Nat
      /\ b.inflight <= i + 1 /\ (i = 0 \/ i + 1 = b.inflight)
  BY DEF BreakerState
<1>2. \/ b.state # "half_open" /\ Bridge!Succeeded(b) = u
      \/ b.state = "half_open" /\ Bridge!Succeeded(b) = v
      \/ b.state = "half_open" /\ Bridge!Succeeded(b) = w
  BY DEF Bridge!Succeeded, Bridge!OneLess
<1> HIDE DEF i, k
<1>3. /\ u \in BreakerState /\ u.state = b.state /\ u.round = b.round /\ u.failures = 0
      /\ v \in BreakerState /\ v.state = "closed" /\ v.round = b.round /\ v.failures = 0
      /\ w \in BreakerState /\ w.state = b.state /\ w.round = b.round /\ w.inflight = i
      /\ w.lost = b.lost
  BY <1>1 DEF BreakerState
<1> HIDE DEF u, v, w
<1> QED
  BY <1>1, <1>2, <1>3 DEF Sound

\* A recorded failure opens a half-open circuit, or counts towards the threshold.
LEMMA FailedBreaker ==
    ASSUME NEW b \in BreakerState, NEW n \in Nat, Sound(b, n)
    PROVE  /\ Bridge!Failed(b) \in BreakerState /\ Bridge!Failed(b).round = b.round
           /\ \A m \in Nat : Sound(Bridge!Failed(b), m)
<1> DEFINE i == IF b.inflight > 0 THEN b.inflight - 1 ELSE 0
           k == Bridge!Min({b.failures + 1, FailureThreshold})
           c == [b EXCEPT !.failures = k]
           d == [c EXCEPT !.inflight = i]
           u == [d EXCEPT !.state = "open", !.waited = 0, !.successes = 0]
           v == [c EXCEPT !.state = "open", !.waited = 0, !.successes = 0]
<1>1. i \in Nat /\ b.failures \in Nat
  BY DEF BreakerState
<1>2. k \in Nat
  BY <1>1, MinOfTwo
<1>3. c.failures = k /\ c.inflight = b.inflight
  BY DEF BreakerState
<1>4. \/ b.state = "half_open" /\ Bridge!Failed(b) = u
      \/ b.state # "half_open" /\ Bridge!Failed(b) = v
      \/ b.state # "half_open" /\ Bridge!Failed(b) = c /\ ~(k >= FailureThreshold)
  BY <1>3 DEF Bridge!Failed, Bridge!Tripped, Bridge!OneLess
<1> HIDE DEF i, k
<1>5. c \in BreakerState /\ c.state = b.state /\ c.round = b.round
  BY <1>2 DEF BreakerState
<1> HIDE DEF c
<1>6. d \in BreakerState /\ d.round = b.round
  BY <1>1, <1>5 DEF BreakerState
<1> HIDE DEF d
<1>7. u \in BreakerState /\ u.state = "open" /\ u.round = b.round
  BY <1>6 DEF BreakerState
<1>8. v \in BreakerState /\ v.state = "open" /\ v.round = b.round
  BY <1>5 DEF BreakerState
<1> HIDE DEF u, v
<1> QED
  BY <1>2, <1>3, <1>4, <1>5, <1>7, <1>8 DEF Sound

\* The probes of a round are finitely many.
LEMMA ProbesFinite ==
    ASSUME BridgeType
    PROVE  IsFiniteSet(Bridge!Probes) /\ Cardinality(Bridge!Probes) \in Nat
<1>1. Bridge!Probes \in SUBSET Bridge!Running
  BY DEF Bridge!Probes
<1>2. IsFiniteSet(Bridge!Probes)
  BY <1>1, FS_Subset DEF BridgeType
<1> QED
  BY <1>2, FS_CardinalityType

\* A call moves on and the breaker hears nothing.
LEMMA MoveStep ==
    ASSUME BridgeType, BreakerInv, NEW c \in Calls, route[c].pc # "idle", UNCHANGED breaker,
           NEW y \in RouteState, route' = [route EXCEPT ![c] = y], y.pc # "idle",
           y.current = route[c].current, y.probe = route[c].probe
    PROVE  BridgeType' /\ BreakerInv'
<1>1. route' \in [Calls -> RouteState] /\ \A d \in Calls : d # c => route'[d] = route[d]
  BY DEF BridgeType
<1>2. route'[c] = y
  BY DEF BridgeType
<1>3. Bridge!Running' = Bridge!Running
  BY <1>1, <1>2 DEF Bridge!Running
<1>4. Bridge!Probes' = Bridge!Probes
  BY <1>1, <1>2, <1>3 DEF Bridge!Probes, Bridge!Running
<1>5. \A d \in Bridge!Running' : route'[d].current => route'[d].probe <= breaker'.round
  BY <1>1, <1>2, <1>3, BreakerSound DEF Bridge!Running
<1>6. BreakerInv'
  BY <1>4, <1>5, BreakerSound, BreakerSoundAfter
<1> QED
  BY <1>1, <1>3, <1>6 DEF BridgeType

\* A call leaves, and the breaker is in order with its probe gone.
LEMMA LeaveStep ==
    ASSUME BridgeType, BreakerInv, NEW c \in Calls, route[c].pc # "idle",
           route' = [route EXCEPT ![c] = Bridge!Idle],
           breaker' \in BreakerState, breaker'.round = breaker.round,
           \A m \in Nat : /\ m <= Cardinality(Bridge!Probes)
                          /\ Cardinality(Bridge!Probes) <= m + 1
                          /\ c \notin Bridge!Probes => m = Cardinality(Bridge!Probes)
                          /\ c \in Bridge!Probes => m + 1 = Cardinality(Bridge!Probes)
                          => Sound(breaker', m)
    PROVE  BridgeType' /\ BreakerInv'
<1>1. Bridge!Idle \in RouteState /\ Bridge!Idle.pc = "idle"
  BY DEF Bridge!Idle, RouteState
<1>2. route' \in [Calls -> RouteState] /\ (\A d \in Calls : d # c => route'[d] = route[d])
      /\ route'[c] = Bridge!Idle
  BY <1>1 DEF BridgeType
<1>3. Bridge!Running' = Bridge!Running \ {c}
  BY <1>1, <1>2 DEF Bridge!Running
<1>4. Bridge!Probes' = Bridge!Probes \ {c}
  BY <1>2, <1>3 DEF Bridge!Probes, Bridge!Running
<1>5. IsFiniteSet(Bridge!Running')
  BY <1>3, FS_RemoveElement, FS_Subset DEF BridgeType
<1>6. IsFiniteSet(Bridge!Probes) /\ Cardinality(Bridge!Probes) \in Nat
  BY ProbesFinite
<1>7. Sound(breaker', Cardinality(Bridge!Probes'))
  <2>1. CASE c \in Bridge!Probes
    <3>1. Cardinality(Bridge!Probes') = Cardinality(Bridge!Probes) - 1
      BY <1>4, <1>6, <2>1, FS_RemoveElement
    <3>2. IsFiniteSet(Bridge!Probes')
      BY <1>4, <1>6, FS_RemoveElement
    <3>3. Cardinality(Bridge!Probes') \in Nat
      BY <3>2, FS_CardinalityType
    <3> QED
      BY <1>6, <2>1, <3>1, <3>3
  <2>2. CASE c \notin Bridge!Probes
    <3>1. Bridge!Probes' = Bridge!Probes
      BY <1>4, <2>2
    <3> QED
      BY <1>6, <2>2, <3>1
  <2> QED
    BY <2>1, <2>2
<1>8. \A d \in Bridge!Running' : route'[d].current => route'[d].probe <= breaker'.round
  BY <1>2, <1>3, BreakerSound DEF Bridge!Running
<1>9. BreakerInv'
  BY <1>7, <1>8, BreakerSoundAfter
<1> QED
  BY <1>2, <1>5, <1>9 DEF BridgeType

\* A call ends and its result is recorded.
LEMMA RecordStep ==
    ASSUME BridgeType, BreakerInv, NEW c \in Calls, route[c].pc # "idle", NEW ok \in BOOLEAN,
           Bridge!Record(c, ok), route' = [route EXCEPT ![c] = Bridge!Idle]
    PROVE  BridgeType' /\ BreakerInv'
<1> DEFINE n == Cardinality(Bridge!Probes)
<1>1. n \in Nat /\ breaker \in BreakerState /\ Sound(breaker, n)
  BY ProbesFinite, BreakerSound DEF BridgeType
<1> HIDE DEF n
<1>2. CASE ~route[c].current
  <2>1. breaker' = breaker /\ c \notin Bridge!Probes
    BY <1>2 DEF Bridge!Record, Bridge!Probes
  <2> QED
    BY <1>1, <2>1, LeaveStep DEF n
<1>3. CASE route[c].current /\ ok
  <2>1. breaker' = Bridge!Succeeded(breaker)
    BY <1>3 DEF Bridge!Record
  <2>2. /\ breaker' \in BreakerState /\ breaker'.round = breaker.round
        /\ \A m \in Nat : n <= m + 1 => Sound(breaker', m)
    BY <1>1, <2>1, SucceededBreaker
  <2> QED
    BY <2>2, LeaveStep DEF n
<1>4. CASE route[c].current /\ ~ok
  <2>1. breaker' = Bridge!Failed(breaker)
    BY <1>4 DEF Bridge!Record
  <2>2. /\ breaker' \in BreakerState /\ breaker'.round = breaker.round
        /\ \A m \in Nat : Sound(breaker', m)
    BY <1>1, <2>1, FailedBreaker
  <2> QED
    BY <2>2, LeaveStep
<1> QED
  BY <1>2, <1>3, <1>4

\* The breaker is looked at: an open circuit may move on to a half-open one.
LEMMA RefreshStep ==
    ASSUME BridgeType, BreakerInv, breaker' = Bridge!Refreshed(breaker), UNCHANGED route
    PROVE  BridgeType' /\ BreakerInv'
<1> DEFINE n == Cardinality(Bridge!Probes)
           b == Bridge!Refreshed(breaker)
<1>1. n \in Nat /\ breaker \in BreakerState /\ Sound(breaker, n)
  BY ProbesFinite, BreakerSound DEF BridgeType
<1>2. /\ b \in BreakerState
      /\ b = breaker \/ (b.state = "half_open" /\ b.inflight = 0 /\ b.round = breaker.round + 1)
  BY <1>1, RefreshedBreaker
<1>3. /\ \A d \in Bridge!Running : route[d].current => route[d].probe <= breaker.round
      /\ \A d \in Bridge!Running : route[d].probe \in Nat
  BY BreakerSound DEF Bridge!Running, BridgeType, RouteState
<1>4. breaker.round \in Nat /\ b.round \in Nat /\ b.inflight \in Nat /\ b.lost \in Nat
  BY <1>1, <1>2 DEF BreakerState
<1>5. Bridge!Running' = Bridge!Running
  BY DEF Bridge!Running
<1>6. BridgeType'
  BY <1>2, <1>5 DEF BridgeType
<1>7. \A d \in Bridge!Running' : route'[d].current => route'[d].probe <= breaker'.round
  BY <1>2, <1>3, <1>4, <1>5
<1>8. Sound(b, Cardinality(Bridge!Probes'))
  <2>1. CASE b = breaker
    <3>1. Bridge!Probes' = Bridge!Probes
      BY <1>5, <2>1 DEF Bridge!Probes
    <3> QED
      BY <1>1, <2>1, <3>1
  <2>2. CASE b.state = "half_open" /\ b.inflight = 0 /\ b.round = breaker.round + 1
    <3>1. Bridge!Probes' \in SUBSET Bridge!Running'
      BY DEF Bridge!Probes
    <3>2. Cardinality(Bridge!Probes') \in Nat
      BY <1>6, <3>1, FS_Subset, FS_CardinalityType DEF BridgeType
    <3> QED
      BY <1>4, <2>2, <3>2 DEF Sound
  <2> QED
    BY <1>2, <2>1, <2>2
<1> QED
  BY <1>6, <1>7, <1>8, BreakerSoundAfter

\* A call is routed: in a half-open round its probe is counted as it is admitted.
LEMMA RouteStep ==
    ASSUME BridgeType, BreakerInv, NEW c \in Calls, NEW mode \in {"task", "stream"},
           Bridge!Route(c, mode)
    PROVE  BridgeType' /\ BreakerInv'
<1> DEFINE n == Cardinality(Bridge!Probes)
           b == Bridge!Refreshed(breaker)
           a == Bridge!Admitted(b)
           q == IF b.state = "half_open" THEN b.round ELSE 0
           y == [pc |-> Bridge!FirstPc, mode |-> mode, attempt |-> 0, current |-> TRUE,
                 probe |-> q]
<1>1. n \in Nat /\ breaker \in BreakerState /\ Sound(breaker, n)
  BY ProbesFinite, BreakerSound DEF BridgeType
<1>2. /\ b \in BreakerState
      /\ b = breaker \/ (b.state = "half_open" /\ b.inflight = 0 /\ b.round = breaker.round + 1)
  BY <1>1, RefreshedBreaker
<1>3. c \notin Bridge!Running /\ route[c].pc = "idle"
  BY DEF Bridge!Route, Bridge!Running
<1>4. \A d \in Bridge!Running : route[d].current => route[d].probe <= breaker.round
  BY BreakerSound
<1>5. \A d \in Bridge!Running : route[d].probe \in Nat
  BY DEF Bridge!Running, BridgeType, RouteState
<1>6. breaker.round \in Nat /\ b.round \in Nat /\ b.inflight \in Nat /\ b.lost \in Nat
  BY <1>1, <1>2 DEF BreakerState
<1>7. CASE /\ breaker' = a
           /\ route' = [route EXCEPT ![c] = y]
  <2>1. /\ a \in BreakerState /\ a.state = b.state /\ a.round = b.round
        /\ a.failures = b.failures /\ a.lost = b.lost
        /\ b.state = "half_open" => a.inflight = b.inflight + 1
    BY <1>2, AdmittedBreaker
  <2>2. q \in Nat /\ q <= b.round /\ (b.state = "half_open" => q = b.round)
    BY <1>6
  <2>3. Bridge!FirstPc \in {"writing", "waiting"}
    BY DEF Bridge!FirstPc
  <2> HIDE DEF a, b, q
  <2>4. y \in RouteState /\ y.pc # "idle" /\ y.current = TRUE /\ y.probe = q
    BY <2>2, <2>3 DEF RouteState
  <2> HIDE DEF y
  <2>5. /\ route' \in [Calls -> RouteState] /\ route'[c] = y
        /\ \A d \in Calls : d # c => route'[d] = route[d]
    BY <1>7, <2>4 DEF BridgeType
  <2>6. Bridge!Running' = Bridge!Running \cup {c}
    BY <2>4, <2>5 DEF Bridge!Running
  <2>7. IsFiniteSet(Bridge!Running')
    BY <2>6, FS_AddElement DEF BridgeType
  <2>8. BridgeType'
    BY <1>7, <2>1, <2>5, <2>7 DEF BridgeType
  <2>9. \A d \in Bridge!Running' : route'[d].current => route'[d].probe <= breaker'.round
    BY <1>2, <1>4, <1>5, <1>6, <1>7, <2>1, <2>2, <2>4, <2>5, <2>6 DEF Bridge!Running
  <2>10. Sound(a, Cardinality(Bridge!Probes'))
    <3>1. CASE b = breaker /\ b.state = "half_open"
      <4>1. Bridge!Probes' = Bridge!Probes \cup {c} /\ c \notin Bridge!Probes
        BY <1>3, <1>7, <2>1, <2>2, <2>4, <2>5, <2>6, <3>1 DEF Bridge!Probes,
           Bridge!Running
      <4>2. Cardinality(Bridge!Probes') = n + 1
        BY <4>1, ProbesFinite, FS_AddElement
      <4> HIDE DEF n
      <4> QED
        BY <1>1, <1>6, <2>1, <3>1, <4>2 DEF Sound
    <3>2. CASE b.state = "half_open" /\ b.inflight = 0 /\ b.round = breaker.round + 1
      <4>1. c \in Bridge!Probes'
        BY <1>7, <2>1, <2>2, <2>4, <2>5, <2>6, <3>2 DEF Bridge!Probes
      <4>2. IsFiniteSet(Bridge!Probes') /\ Cardinality(Bridge!Probes') \in Nat
        <5>1. Bridge!Probes' \in SUBSET Bridge!Running'
          BY DEF Bridge!Probes
        <5>2. IsFiniteSet(Bridge!Probes')
          BY <2>7, <5>1, FS_Subset
        <5> QED
          BY <5>2, FS_CardinalityType
      <4>3. Cardinality(Bridge!Probes') # 0
        BY <4>1, <4>2, FS_EmptySet
      <4> QED
        BY <1>6, <2>1, <3>2, <4>2, <4>3 DEF Sound
    <3>3. CASE b = breaker /\ b.state # "half_open"
      BY <1>1, <2>1, <3>3 DEF Sound
    <3> QED
      BY <1>2, <3>1, <3>2, <3>3 DEF b
  <2> QED
    BY <1>7, <2>8, <2>9, <2>10, BreakerSoundAfter
<1>8. CASE breaker' = b /\ UNCHANGED route
  BY <1>8, RefreshStep
<1> QED
  BY <1>7, <1>8 DEF Bridge!Route

\* A cancelled call is gone: a stream is recorded, a task is a lost probe.
LEMMA GoneStep ==
    ASSUME BridgeType, BreakerInv, NEW c \in Calls, route[c].pc # "idle", Bridge!Gone(c)
    PROVE  BridgeType' /\ BreakerInv'
<1> DEFINE n == Cardinality(Bridge!Probes)
           i == breaker.lost + 1
           b == [breaker EXCEPT !.lost = i]
<1>1. route[c].pc # "idle" /\ route' = [route EXCEPT ![c] = Bridge!Idle]
  BY DEF Bridge!Gone
<1>2. n \in Nat /\ breaker \in BreakerState /\ Sound(breaker, n)
  BY ProbesFinite, BreakerSound DEF BridgeType
<1>3. CASE Bridge!Record(c, FALSE)
  BY <1>1, <1>3, RecordStep
<1>4. CASE /\ route[c].current /\ route[c].probe = breaker.round /\ breaker.round > 0
           /\ breaker' = b
  <2>1. i \in Nat /\ breaker.lost \in Nat /\ breaker.inflight \in Nat
    BY <1>2 DEF BreakerState
  <2> HIDE DEF i
  <2>2. /\ b \in BreakerState /\ b.state = breaker.state /\ b.round = breaker.round
        /\ b.inflight = breaker.inflight /\ b.failures = breaker.failures /\ b.lost = i
    BY <1>2, <2>1 DEF BreakerState
  <2> HIDE DEF b, n
  <2>3. \A m \in Nat : n <= m + 1 => Sound(b, m)
    BY <1>2, <2>1, <2>2 DEF Sound, i
  <2> QED
    BY <1>1, <1>4, <2>2, <2>3, LeaveStep DEF n
<1>5. CASE /\ ~(route[c].current /\ route[c].probe = breaker.round /\ breaker.round > 0)
           /\ breaker' = breaker
  <2>1. CASE breaker.state = "half_open"
    <3>1. c \notin Bridge!Probes
      BY <1>2, <1>5, <2>1 DEF Bridge!Probes, Sound
    <3> QED
      BY <1>1, <1>2, <1>5, <3>1, LeaveStep
  <2>2. CASE breaker.state # "half_open"
    <3>1. \A m \in Nat : Sound(breaker, m)
      BY <1>2, <2>2 DEF Sound
    <3> QED
      BY <1>1, <1>2, <1>5, <3>1, LeaveStep
  <2> QED
    BY <2>1, <2>2
<1> QED
  BY <1>3, <1>4, <1>5 DEF Bridge!Gone

\* A call goes on to another place.
LEMMA PlaceStep ==
    ASSUME BridgeType, BreakerInv, NEW c \in Calls, route[c].pc # "idle", UNCHANGED breaker,
           NEW s \in {"waiting", "reaping", "unwinding", "polling", "backoff"},
           route' = [route EXCEPT ![c].pc = s]
    PROVE  BridgeType' /\ BreakerInv'
<1> DEFINE y == [route[c] EXCEPT !.pc = s]
<1>1. route[c] \in RouteState
  BY DEF BridgeType
<1>2. route' = [route EXCEPT ![c] = y]
  BY DEF BridgeType
<1>3. /\ y \in RouteState /\ y.pc = s /\ y.pc # "idle" /\ y.current = route[c].current
      /\ y.probe = route[c].probe
  BY <1>1 DEF RouteState
<1> HIDE DEF y
<1> QED
  BY <1>2, <1>3, MoveStep

\* A call is cancelled: it waits for its program, or it is gone.
LEMMA CancelStep ==
    ASSUME BridgeType, BreakerInv, NEW c \in Calls, Bridge!Cancel(c) \/ Bridge!Unwound(c)
    PROVE  BridgeType' /\ BreakerInv'
<1>1. route[c].pc # "idle"
  BY DEF Bridge!Cancel, Bridge!Unwound
<1>2. CASE Bridge!Gone(c)
  BY <1>1, <1>2, GoneStep
<1>3. CASE UNCHANGED breaker /\ route' = [route EXCEPT ![c].pc = "unwinding"]
  BY <1>1, <1>3, PlaceStep
<1> QED
  BY <1>2, <1>3 DEF Bridge!Cancel, Bridge!Unwound

\* The breaker is dropped, and the calls in flight report to the old one.
LEMMA UnregisterStep ==
    ASSUME BridgeType, BreakerInv, Bridge!Unregister
    PROVE  BridgeType' /\ BreakerInv'
<1> DEFINE y(c) == [route[c] EXCEPT !.current = FALSE, !.probe = 0]
<1>1. /\ breaker' = Bridge!NewBreaker
      /\ route' = [c \in Calls |-> IF c \in Bridge!Running THEN y(c) ELSE route[c]]
  BY DEF Bridge!Unregister
<1>2. ASSUME NEW c \in Calls
      PROVE  y(c) \in RouteState /\ y(c).pc = route[c].pc /\ y(c).current = FALSE
  BY DEF BridgeType, RouteState
<1> HIDE DEF y
<1>3. route' \in [Calls -> RouteState]
  BY <1>1, <1>2 DEF BridgeType
<1>4. Bridge!Running' = Bridge!Running
  BY <1>1, <1>2 DEF Bridge!Running
<1>5. /\ breaker' \in BreakerState /\ breaker'.state = "closed" /\ breaker'.failures = 0
  BY <1>1 DEF Bridge!NewBreaker, BreakerState
<1>6. \A m : Sound(breaker', m)
  BY <1>5 DEF Sound
<1>7. \A d \in Bridge!Running' : ~route'[d].current
  BY <1>1, <1>2, <1>4 DEF Bridge!Running
<1> QED
  BY <1>3, <1>4, <1>5, <1>6, <1>7, BreakerSoundAfter DEF BridgeType

\* The outcome of an attempt: it goes on, backs off, or ends and is recorded.
LEMMA SettleStep ==
    ASSUME BridgeType, BreakerInv, NEW c \in Calls, route[c].pc # "idle", NEW out,
           Bridge!Settles(c, out)
    PROVE  BridgeType' /\ BreakerInv'
<1>1. CASE UNCHANGED breaker /\ \E s \in {"polling", "backoff"} :
               route' = [route EXCEPT ![c].pc = s]
  <2>1. PICK s \in {"polling", "backoff"} : route' = [route EXCEPT ![c].pc = s]
    BY <1>1
  <2> QED
    BY <1>1, <2>1, PlaceStep
<1>2. CASE Bridge!Ends(c, out)
  BY <1>2, RecordStep DEF Bridge!Ends
<1> QED
  BY <1>1, <1>2 DEF Bridge!Settles

\* A call ends, with or without its request having been written.
LEMMA OutcomesStep ==
    ASSUME BridgeType, BreakerInv, NEW c \in Calls,
           \/ \E out : Bridge!Attempt(c, out) \/ Bridge!StreamEnds(c, out)
           \/ Bridge!Unsent(c) \/ Bridge!Leave(c)
    PROVE  BridgeType' /\ BreakerInv'
<1>1. ASSUME NEW out, Bridge!Attempt(c, out) PROVE BridgeType' /\ BreakerInv'
  BY <1>1, SettleStep DEF Bridge!Attempt
<1>2. ASSUME NEW out, route[c].pc # "idle", Bridge!Ends(c, out)
      PROVE  BridgeType' /\ BreakerInv'
  BY <1>2, RecordStep DEF Bridge!Ends
<1>3. ASSUME NEW out, Bridge!StreamEnds(c, out) PROVE BridgeType' /\ BreakerInv'
  BY <1>2, <1>3 DEF Bridge!StreamEnds
<1>4. CASE Bridge!Unsent(c)
  BY <1>2, <1>4, SettleStep DEF Bridge!Unsent
<1>5. CASE Bridge!Leave(c)
  BY <1>2, <1>5 DEF Bridge!Leave
<1> QED
  BY <1>1, <1>3, <1>4, <1>5

\* The request is written to the program, or the wait for its exit begins.
LEMMA GoesOnStep ==
    ASSUME BridgeType, BreakerInv, NEW c \in Calls, Bridge!Written(c) \/ Bridge!Answered(c)
    PROVE  BridgeType' /\ BreakerInv'
<1>1. route[c].pc # "idle" /\ UNCHANGED breaker
  BY DEF Bridge!Written, Bridge!Answered, Bridge!Guarded
<1>2. \E s \in {"waiting", "reaping"} : route' = [route EXCEPT ![c].pc = s]
  BY DEF Bridge!Written, Bridge!Answered
<1> QED
  BY <1>1, <1>2, PlaceStep

\* The backoff is over and the next attempt starts.
LEMMA RetryStep ==
    ASSUME BridgeType, BreakerInv, NEW c \in Calls, Bridge!Retry(c)
    PROVE  BridgeType' /\ BreakerInv'
<1> DEFINE x == route[c]
           k == x.attempt + 1
           y == [x EXCEPT !.pc = Bridge!FirstPc, !.attempt = k]
<1>1. x.pc # "idle" /\ x \in RouteState /\ UNCHANGED breaker
  BY DEF Bridge!Retry, BridgeType
<1>2. k \in Nat /\ Bridge!FirstPc \in {"writing", "waiting"}
  BY <1>1 DEF RouteState, Bridge!FirstPc
<1>3. route' = [route EXCEPT ![c] = y]
  BY DEF Bridge!Retry, BridgeType
<1> HIDE DEF k
<1>4. y \in RouteState /\ y.pc # "idle" /\ y.current = x.current /\ y.probe = x.probe
  BY <1>1, <1>2 DEF RouteState
<1> HIDE DEF y
<1> QED
  BY <1>1, <1>3, <1>4, MoveStep

\* Time passes while the circuit is open.
LEMMA TickStep ==
    ASSUME BridgeType, BreakerInv, Bridge!Tick
    PROVE  BridgeType' /\ BreakerInv'
<1> DEFINE i == breaker.waited + 1
           b == [breaker EXCEPT !.waited = i]
<1>1. breaker' = b /\ breaker.state = "open" /\ UNCHANGED route
  BY DEF Bridge!Tick
<1>2. breaker \in BreakerState /\ i \in Nat
  BY DEF BridgeType, BreakerState
<1> HIDE DEF i
<1>3. b \in BreakerState /\ b.state = "open" /\ b.round = breaker.round
  BY <1>1, <1>2 DEF BreakerState
<1> HIDE DEF b
<1>4. Bridge!Running' = Bridge!Running
  BY <1>1 DEF Bridge!Running
<1>5. \A m : Sound(b, m)
  BY <1>3 DEF Sound
<1>6. \A d \in Bridge!Running' : route'[d].current => route'[d].probe <= breaker'.round
  BY <1>1, <1>3, <1>4, BreakerSound
<1> QED
  BY <1>1, <1>3, <1>4, <1>5, <1>6, BreakerSoundAfter DEF BridgeType

\* Every step leaves the breaker in order.
LEMMA BreakerStep ==
    ASSUME BridgeType, BreakerInv, Bridge!Next
    PROVE  BridgeType' /\ BreakerInv'
<1>1. CASE \E c \in Calls, mode \in {"task", "stream"} : Bridge!Route(c, mode)
  BY <1>1, RouteStep
<1>2. CASE \E c \in Calls : \/ Bridge!Written(c) \/ Bridge!Answered(c) \/ Bridge!Retry(c)
                             \/ Bridge!Cancel(c) \/ Bridge!Unwound(c)
  BY <1>2, GoesOnStep, RetryStep, CancelStep
<1>3. CASE \E c \in Calls : \/ \E out : Bridge!Attempt(c, out) \/ Bridge!StreamEnds(c, out)
                             \/ Bridge!Unsent(c) \/ Bridge!Leave(c)
  BY <1>3, OutcomesStep
<1>5. CASE Bridge!Unregister
  BY <1>5, UnregisterStep
<1>6. CASE Bridge!Register \/ \E c \in Calls : Bridge!Closed(c) \/ Bridge!CancelClosing(c)
  <2>1. UNCHANGED <<breaker, route>>
    BY <1>6 DEF Bridge!Register, Bridge!Closed, Bridge!CancelClosing
  <2>2. Bridge!Running' = Bridge!Running /\ Bridge!Probes' = Bridge!Probes
    BY <2>1 DEF Bridge!Running, Bridge!Probes
  <2> QED
    BY <2>1, <2>2, BreakerSound, BreakerSoundAfter DEF BridgeType
<1>7. CASE Bridge!ReadState
  BY <1>7, RefreshStep DEF Bridge!ReadState
<1>8. CASE Bridge!Tick
  BY <1>8, TickStep
<1> QED
  BY <1>1, <1>2, <1>3, <1>5, <1>6, <1>7, <1>8 DEF Bridge!Next, Bridge!Step

\* The places of an attempt that has a program.
Attempting == {"writing", "waiting", "reaping", "unwinding"}

\* A step changes the programs of one caller.
LEMMA ProgramsOfOne ==
    ASSUME ProgramsInv, NEW c \in Calls, UNCHANGED transport,
           NEW i \in Nat, NEW j \in Nat, NEW k \in Nat,
           procs' = [procs EXCEPT ![c] = i], closing' = [closing EXCEPT ![c] = j],
           dropped' = [dropped EXCEPT ![c] = k],
           \A d \in Calls : d # c => route'[d] = route[d],
           i = j + k + (IF Bridge!Spawns /\ route'[c].pc \in Attempting THEN 1 ELSE 0)
    PROVE  ProgramsInv'
<1>1. /\ procs' \in [Calls -> Nat] /\ closing' \in [Calls -> Nat] /\ dropped' \in [Calls -> Nat]
      /\ procs'[c] = i /\ closing'[c] = j /\ dropped'[c] = k
      /\ \A d \in Calls : d # c => /\ procs'[d] = procs[d] /\ closing'[d] = closing[d]
                                   /\ dropped'[d] = dropped[d]
  BY DEF ProgramsInv
<1>2. ASSUME NEW d \in Calls, d # c
      PROVE  procs'[d] = closing'[d] + dropped'[d] + (IF Bridge!HasProgram(d)' THEN 1 ELSE 0)
  BY <1>1, <1>2 DEF ProgramsInv, Bridge!ProgramsReaped, Bridge!HasProgram, Bridge!Spawns
<1>3. procs'[c] = closing'[c] + dropped'[c] + (IF Bridge!HasProgram(c)' THEN 1 ELSE 0)
  BY <1>1 DEF Bridge!HasProgram, Bridge!Spawns, Attempting
<1>4. Bridge!ProgramsReaped'
  BY <1>2, <1>3 DEF Bridge!ProgramsReaped
<1> QED
  BY <1>1, <1>4 DEF ProgramsInv

\* What is known of the programs of one caller.
LEMMA ProgramsKnown ==
    ASSUME ProgramsInv, NEW c \in Calls
    PROVE  /\ procs[c] \in Nat /\ closing[c] \in Nat /\ dropped[c] \in Nat
           /\ procs = [procs EXCEPT ![c] = procs[c]]
           /\ closing = [closing EXCEPT ![c] = closing[c]]
           /\ dropped = [dropped EXCEPT ![c] = dropped[c]]
           /\ procs[c] = closing[c] + dropped[c]
                          + (IF Bridge!Spawns /\ route[c].pc \in Attempting THEN 1 ELSE 0)
  BY DEF ProgramsInv, Bridge!ProgramsReaped, Bridge!HasProgram, Attempting

\* An attempt starts.
LEMMA AttemptStarts ==
    ASSUME ProgramsInv, NEW c \in Calls, UNCHANGED <<transport, closing, dropped>>,
           \A d \in Calls : d # c => route'[d] = route[d],
           route[c].pc \notin Attempting, route'[c].pc = Bridge!FirstPc,
           procs' = Bridge!Start(c)
    PROVE  ProgramsInv'
<1>1. CASE Bridge!Spawns
  <2>1. procs' = [procs EXCEPT ![c] = procs[c] + 1]
    BY <1>1 DEF Bridge!Start
  <2>2. /\ closing' = [closing EXCEPT ![c] = closing[c]]
        /\ dropped' = [dropped EXCEPT ![c] = dropped[c]]
        /\ closing[c] \in Nat /\ dropped[c] \in Nat /\ procs[c] + 1 \in Nat
        /\ procs[c] + 1 = closing[c] + dropped[c] + 1
    BY <1>1, ProgramsKnown
  <2>3. route'[c].pc \in Attempting
    BY <1>1 DEF Bridge!FirstPc, Attempting
  <2>4. procs[c] + 1 = closing[c] + dropped[c]
                       + (IF Bridge!Spawns /\ route'[c].pc \in Attempting THEN 1 ELSE 0)
    BY <1>1, <2>2, <2>3
  <2>5. ProgramsInv /\ UNCHANGED transport /\ \A d \in Calls : d # c => route'[d] = route[d]
    OBVIOUS
  <2> QED
    BY ONLY <2>1, <2>2, <2>4, <2>5, ProgramsOfOne, c \in Calls
<1>2. CASE ~Bridge!Spawns
  BY <1>2, ProgramsKnown, ProgramsOfOne DEF Bridge!Start
<1> QED
  BY <1>1, <1>2

\* An attempt ends, and its program with it or not.
LEMMA AttemptStops ==
    ASSUME ProgramsInv, NEW c \in Calls, UNCHANGED <<transport, closing>>,
           \A d \in Calls : d # c => route'[d] = route[d],
           route'[c].pc \notin Attempting,
           \/ procs' = Bridge!Reap(c) /\ UNCHANGED dropped
           \/ dropped' = Bridge!Drop(c) /\ UNCHANGED procs
    PROVE  ProgramsInv'
<1>1. Bridge!HasProgram(c) <=> Bridge!Spawns /\ route[c].pc \in Attempting
  BY DEF Bridge!HasProgram, Attempting
<1>2. CASE ~Bridge!HasProgram(c)
  BY <1>1, <1>2, ProgramsKnown, ProgramsOfOne DEF Bridge!Reap, Bridge!Drop
<1>3. CASE Bridge!HasProgram(c) /\ procs' = Bridge!Reap(c) /\ UNCHANGED dropped
  <2>1. procs' = [procs EXCEPT ![c] = procs[c] - 1]
    BY <1>3 DEF Bridge!Reap
  <2>2. procs[c] - 1 \in Nat /\ procs[c] - 1 = closing[c] + dropped[c]
    BY <1>1, <1>3, ProgramsKnown
  <2>3. /\ closing' = [closing EXCEPT ![c] = closing[c]]
        /\ dropped' = [dropped EXCEPT ![c] = dropped[c]]
        /\ closing[c] \in Nat /\ dropped[c] \in Nat
    BY <1>3, ProgramsKnown
  <2>4. procs[c] - 1 = closing[c] + dropped[c]
                       + (IF Bridge!Spawns /\ route'[c].pc \in Attempting THEN 1 ELSE 0)
    BY <2>2, <2>3
  <2> QED
    BY <2>1, <2>2, <2>3, <2>4, ProgramsOfOne
<1>4. CASE Bridge!HasProgram(c) /\ dropped' = Bridge!Drop(c) /\ UNCHANGED procs
  <2>1. dropped' = [dropped EXCEPT ![c] = dropped[c] + 1]
    BY <1>4 DEF Bridge!Drop
  <2>2. dropped[c] + 1 \in Nat /\ procs[c] = closing[c] + (dropped[c] + 1)
    BY <1>1, <1>4, ProgramsKnown
  <2>3. /\ closing' = [closing EXCEPT ![c] = closing[c]]
        /\ procs' = [procs EXCEPT ![c] = procs[c]]
        /\ closing[c] \in Nat /\ procs[c] \in Nat
    BY <1>4, ProgramsKnown
  <2>4. procs[c] = closing[c] + (dropped[c] + 1)
                   + (IF Bridge!Spawns /\ route'[c].pc \in Attempting THEN 1 ELSE 0)
    BY <2>2, <2>3
  <2> QED
    BY <2>1, <2>2, <2>3, <2>4, ProgramsOfOne
<1> QED
  BY <1>2, <1>3, <1>4

\* An attempt goes on.
LEMMA AttemptGoesOn ==
    ASSUME ProgramsInv, NEW c \in Calls, UNCHANGED <<transport, procs, closing, dropped>>,
           \A d \in Calls : d # c => route'[d] = route[d],
           route[c].pc \in Attempting <=> route'[c].pc \in Attempting
    PROVE  ProgramsInv'
  BY ProgramsKnown, ProgramsOfOne

\* A call that settles or is gone has no program any more.
LEMMA SettledPlace ==
    ASSUME BridgeType, NEW c \in Calls,
           \/ \E out : Bridge!Settles(c, out) \/ Bridge!Ends(c, out)
           \/ Bridge!Gone(c)
    PROVE  /\ \A d \in Calls : d # c => route'[d] = route[d]
           /\ route'[c].pc \notin Attempting
<1>1. route \in [Calls -> RouteState] /\ Bridge!Idle.pc \notin Attempting
  BY DEF BridgeType, Bridge!Idle, Attempting
<1>2. CASE route' = [route EXCEPT ![c] = Bridge!Idle]
  BY <1>1, <1>2
<1>3. CASE \E s \in {"polling", "backoff"} : route' = [route EXCEPT ![c].pc = s]
  BY <1>1, <1>3 DEF RouteState, Attempting
<1> QED
  BY <1>2, <1>3 DEF Bridge!Settles, Bridge!Ends, Bridge!Gone

\* Every step accounts for the programs.
LEMMA ProgramsStep ==
    ASSUME BridgeType, ProgramsInv, Bridge!Next
    PROVE  ProgramsInv'
<1>1. route \in [Calls -> RouteState]
  BY DEF BridgeType
<1>2. ASSUME NEW c \in Calls, NEW mode \in {"task", "stream"}, Bridge!Route(c, mode)
      PROVE  ProgramsInv'
  <2>1. route[c].pc \notin Attempting /\ UNCHANGED <<transport, closing, dropped>>
    BY <1>2 DEF Bridge!Route, Attempting
  <2>2. CASE UNCHANGED <<route, procs>>
    BY <2>1, <2>2, AttemptGoesOn
  <2>3. CASE /\ \E y : route' = [route EXCEPT ![c] = y] /\ y.pc = Bridge!FirstPc
             /\ procs' = Bridge!Start(c)
    <3>1. route'[c].pc = Bridge!FirstPc /\ \A d \in Calls : d # c => route'[d] = route[d]
      BY <1>1, <2>3
    <3> QED
      BY <2>1, <2>3, <3>1, AttemptStarts
  <2>4. ASSUME NEW q
        PROVE  [pc |-> Bridge!FirstPc, mode |-> mode, attempt |-> 0, current |-> TRUE,
                probe |-> q].pc = Bridge!FirstPc
    OBVIOUS
  <2> QED
    BY <1>2, <2>2, <2>3, <2>4 DEF Bridge!Route
<1>3. ASSUME NEW c \in Calls, Bridge!Retry(c)
      PROVE  ProgramsInv'
  <2>1. /\ route[c].pc \notin Attempting /\ UNCHANGED <<transport, closing, dropped>>
        /\ procs' = Bridge!Start(c)
    BY <1>3 DEF Bridge!Retry, Attempting
  <2>2. route'[c].pc = Bridge!FirstPc /\ \A d \in Calls : d # c => route'[d] = route[d]
    BY <1>1, <1>3 DEF Bridge!Retry, RouteState
  <2> QED
    BY <2>1, <2>2, AttemptStarts
<1>4. ASSUME NEW c \in Calls, UNCHANGED <<transport, procs, closing, dropped>>,
             route[c].pc \in Attempting,
             \E s \in Attempting : route' = [route EXCEPT ![c].pc = s]
      PROVE  ProgramsInv'
  <2>1. route'[c].pc \in Attempting /\ \A d \in Calls : d # c => route'[d] = route[d]
    BY <1>1, <1>4 DEF RouteState
  <2> QED
    BY <1>4, <2>1, AttemptGoesOn
<1>5. ASSUME NEW c \in Calls, Bridge!Written(c) \/ Bridge!Answered(c)
      PROVE  ProgramsInv'
  <2>1. UNCHANGED <<transport, procs, closing, dropped>>
    BY <1>5 DEF Bridge!Written, Bridge!Answered, Bridge!programs
  <2>2. /\ route[c].pc \in Attempting
        /\ \E s \in Attempting : route' = [route EXCEPT ![c].pc = s]
    BY <1>5 DEF Bridge!Written, Bridge!Answered, Bridge!Guarded, Attempting
  <2> QED
    BY <1>4, <2>1, <2>2
<1>6. ASSUME NEW c \in Calls,
             \/ \E out : Bridge!Attempt(c, out) \/ Bridge!StreamEnds(c, out)
             \/ Bridge!Unsent(c) \/ Bridge!Unwound(c)
      PROVE  ProgramsInv'
  <2>1. /\ UNCHANGED <<transport, closing>>
        /\ \/ procs' = Bridge!Reap(c) /\ UNCHANGED dropped
           \/ dropped' = Bridge!Drop(c) /\ UNCHANGED procs
    BY <1>6 DEF Bridge!Attempt, Bridge!StreamEnds, Bridge!Unsent, Bridge!Unwound
  <2>2. \/ \E out : Bridge!Settles(c, out) \/ Bridge!Ends(c, out)
        \/ Bridge!Gone(c)
    BY <1>6 DEF Bridge!Attempt, Bridge!StreamEnds, Bridge!Unsent, Bridge!Unwound
  <2> QED
    BY <2>1, <2>2, SettledPlace, AttemptStops
<1>7. ASSUME NEW c \in Calls, Bridge!Cancel(c)
      PROVE  ProgramsInv'
  <2>1. UNCHANGED <<transport, procs, closing>>
    BY <1>7 DEF Bridge!Cancel
  <2>2. CASE Bridge!Gone(c) /\ dropped' = Bridge!Drop(c)
    BY <2>1, <2>2, SettledPlace, AttemptStops
  <2>3. CASE /\ Bridge!Guarded(c) /\ UNCHANGED dropped
             /\ route' = [route EXCEPT ![c].pc = "unwinding"]
    BY <1>4, <2>1, <2>3 DEF Bridge!Guarded, Attempting
  <2> QED
    BY <1>7, <2>2, <2>3 DEF Bridge!Cancel
<1>8. ASSUME NEW c \in Calls, Bridge!Leave(c)
      PROVE  ProgramsInv'
  <2>1. /\ UNCHANGED <<transport, procs, dropped>> /\ Bridge!Spawns /\ route[c].pc \in Attempting
        /\ closing' = [closing EXCEPT ![c] = closing[c] + 1]
    BY <1>8 DEF Bridge!Leave, Attempting
  <2>2. route'[c].pc \notin Attempting /\ \A d \in Calls : d # c => route'[d] = route[d]
    BY <1>8, SettledPlace DEF Bridge!Leave
  <2>3. closing[c] + 1 \in Nat /\ procs[c] = (closing[c] + 1) + dropped[c]
    BY <2>1, ProgramsKnown
  <2>4. /\ procs' = [procs EXCEPT ![c] = procs[c]]
        /\ dropped' = [dropped EXCEPT ![c] = dropped[c]]
        /\ dropped[c] \in Nat /\ procs[c] \in Nat
    BY <2>1, ProgramsKnown
  <2>5. procs[c] = (closing[c] + 1) + dropped[c]
                   + (IF Bridge!Spawns /\ route'[c].pc \in Attempting THEN 1 ELSE 0)
    BY <2>2, <2>3, <2>4
  <2> QED
    BY <2>1, <2>2, <2>3, <2>4, <2>5, ProgramsOfOne
<1>9. ASSUME NEW c \in Calls, Bridge!Closed(c) \/ Bridge!CancelClosing(c)
      PROVE  ProgramsInv'
  <2>1. /\ UNCHANGED <<transport, route>> /\ closing[c] > 0
        /\ closing' = [closing EXCEPT ![c] = closing[c] - 1]
        /\ \/ procs' = [procs EXCEPT ![c] = procs[c] - 1] /\ UNCHANGED dropped
           \/ dropped' = [dropped EXCEPT ![c] = dropped[c] + 1] /\ UNCHANGED procs
    BY <1>9 DEF Bridge!Closed, Bridge!CancelClosing
  <2>2. /\ closing[c] - 1 \in Nat /\ procs[c] - 1 \in Nat /\ dropped[c] + 1 \in Nat
        /\ procs[c] = (closing[c] - 1) + (dropped[c] + 1)
               + (IF Bridge!Spawns /\ route[c].pc \in Attempting THEN 1 ELSE 0)
        /\ procs[c] - 1 = (closing[c] - 1) + dropped[c]
               + (IF Bridge!Spawns /\ route[c].pc \in Attempting THEN 1 ELSE 0)
    BY <2>1, ProgramsKnown
  <2>3. CASE procs' = [procs EXCEPT ![c] = procs[c] - 1] /\ UNCHANGED dropped
    BY <2>1, <2>2, <2>3, ProgramsKnown, ProgramsOfOne
  <2>4. CASE dropped' = [dropped EXCEPT ![c] = dropped[c] + 1] /\ UNCHANGED procs
    BY <2>1, <2>2, <2>4, ProgramsKnown, ProgramsOfOne
  <2> QED
    BY <2>1, <2>3, <2>4
<1>10. ASSUME UNCHANGED <<transport, procs, closing, dropped>>,
              \A c \in Calls : route'[c].pc = route[c].pc
       PROVE  ProgramsInv'
  BY <1>10 DEF ProgramsInv, Bridge!ProgramsReaped, Bridge!HasProgram, Bridge!Spawns
<1>11. CASE Bridge!Unregister
  <2>1. \A c \in Calls : route'[c].pc = route[c].pc
    BY <1>1, <1>11 DEF Bridge!Unregister, RouteState
  <2> QED
    BY <1>10, <1>11, <2>1 DEF Bridge!Unregister, Bridge!programs
<1>12. CASE Bridge!Register \/ Bridge!ReadState \/ Bridge!Tick
  BY <1>10, <1>12 DEF Bridge!Register, Bridge!ReadState, Bridge!Tick, Bridge!programs
<1> QED
  BY <1>2, <1>3, <1>5, <1>6, <1>7, <1>8, <1>9, <1>11, <1>12 DEF Bridge!Next, Bridge!Step

\* The inductive invariant of a bridge: its breaker is in order, with the probes of the
\* round counted, and its programs are reaped.
THEOREM BridgeInvariant == MCSpec => []BridgeInv
<1>1. MCInit => BridgeInv
  <2> SUFFICES ASSUME Bridge!Init PROVE BridgeInv
    BY DEF MCInit
  <2>1. /\ breaker = Bridge!NewBreaker /\ route = [c \in Calls |-> Bridge!Idle]
        /\ procs = [c \in Calls |-> 0] /\ closing = procs /\ dropped = procs
    BY DEF Bridge!Init
  <2>2. /\ breaker \in BreakerState /\ breaker.state = "closed" /\ breaker.failures = 0
    BY <2>1 DEF Bridge!NewBreaker, BreakerState
  <2>3. Bridge!Idle \in RouteState /\ Bridge!Idle.pc = "idle"
    BY DEF Bridge!Idle, RouteState
  <2>4. Bridge!Running = {}
    BY <2>1, <2>3 DEF Bridge!Running
  <2>5. BridgeType
    BY <2>1, <2>2, <2>3, <2>4, FS_EmptySet DEF BridgeType
  <2>6. BreakerInv
    BY <2>2, <2>4, BreakerSound DEF Sound
  <2>7. ProgramsInv
    BY <2>1, <2>3 DEF ProgramsInv, Bridge!ProgramsReaped, Bridge!HasProgram
  <2> QED
    BY <2>5, <2>6, <2>7 DEF BridgeInv
<1>2. BridgeInv /\ [MCNext]_vars => BridgeInv'
  <2> SUFFICES ASSUME BridgeInv, [MCNext]_vars PROVE BridgeInv'
    OBVIOUS
  <2>1. CASE Bridge!Next
    BY <2>1, BreakerStep, ProgramsStep DEF BridgeInv
  <2>2. CASE UNCHANGED bridge
    <3>1. UNCHANGED <<transport, breaker, route, procs, closing, dropped>>
      BY <2>2 DEF bridge
    <3>2. Bridge!Running' = Bridge!Running /\ Bridge!Probes' = Bridge!Probes
      BY <3>1 DEF Bridge!Running, Bridge!Probes
    <3>3. BridgeType' /\ BreakerInv'
      BY <3>1, <3>2, BreakerSound, BreakerSoundAfter DEF BridgeInv, BridgeType
    <3>4. ProgramsInv'
      BY <3>1 DEF BridgeInv, ProgramsInv, Bridge!ProgramsReaped, Bridge!HasProgram, Bridge!Spawns
    <3> QED
      BY <3>3, <3>4 DEF BridgeInv
  <2>3. Bridge!Next \/ UNCHANGED bridge
    BY DEF MCNext, vars
  <2> QED
    BY <2>1, <2>2, <2>3
<1> QED
  BY <1>1, <1>2, PTL DEF MCSpec

\* For every number of callers and every configuration of the breaker: a half-open circuit
\* that refuses has a probe that will report or lost one to a cancellation, and a program
\* outlives its attempt only while an abandoned stream is closed, or after a cancellation or a
\* request that could not be written, where nobody reaps it (coordinator.py, the transports).
THEOREM BridgesSoundHolds == MCSpec => []BridgesSound
<1>1. BridgeInv => BridgesSound
  BY DEF BridgeInv, BreakerInv, ProgramsInv, BridgesSound
<1> QED
  BY <1>1, BridgeInvariant, PTL

-----------------------------------------------------------------------------
(***************************************************************************)
(* The jobs of the forge, and what their gates have read (Forge).           *)
(***************************************************************************)

FileKinds == {"clean", "lint", "danger", "broken", "opaque", "absent"}
Files     == [Paths -> FileKinds]
Works     == {"pipeline", "coding", "external", "review", "evidence", "holdout"}
Gated     == {"pipeline", "coding", "external"}
Stages    == {"inspect", "scan", "lint", "test", "hash", "command", "scenario"}
Marks     == {"PASS", "FAIL"}
Places    == Stages \cup {"idle", "edit", "agent", "verdict", "done"}

JobRecord ==
    [kind : Works, root : {Base} \cup Jobs, branch : Branches \cup {None}, pc : Places,
     stage : 0 .. 4, paths : SUBSET Paths, form : {"ok", "bad", "over"}, left : SUBSET Paths,
     edits : Nat, failed : BOOLEAN, inspection : Marks, security : Marks, high : BOOLEAN,
     medium : Nat, tests : Marks \cup {None}, skipped : BOOLEAN, wants : BOOLEAN,
     threshold : {4, 5}, llm : BOOLEAN, heuristic : BOOLEAN, round : Nat,
     seen : SUBSET ((Paths \X FileKinds) \cup Files), lost : SUBSET Paths,
     gate : Marks \cup {None}, fresh : BOOLEAN]

ForgeType ==
    /\ job \in [Jobs -> JobRecord]
    /\ tree \in [{Base} \cup Jobs -> Files \cup {None}] /\ tree[Base] \in Files
    /\ head \in Files
    /\ tips \in [Branches -> Files \cup {None}]
    /\ writes \in Nat

\* The place of a job is the one its stage says, and files are left only where a gate reads.
Fit(rec) ==
    /\ rec.pc \in Stages =>
           /\ rec.stage \in 1 .. Len(Smithy!Order[rec.kind])
           /\ Smithy!Order[rec.kind][rec.stage] = rec.pc
    /\ rec.left # {} => rec.pc \in {"inspect", "scan", "lint", "hash"}

\* Where a job can be, by its kind.
Placed(j, rec) ==
    /\ Fit(rec)
    /\ rec.pc = "edit" => rec.kind = "coding"
    /\ rec.pc = "agent" => rec.kind = "external"
    /\ rec.pc # "idle" /\ rec.kind \in Smithy!CodeAgents => rec.root = j /\ rec.branch \in Branches

\* A worktree has the agent that works in it and a branch of its own; a job that nobody
\* disturbed has its worktree's agent still there.
TreeInv ==
    /\ \A j \in Jobs : tree[j] # None => job[j].kind \in Smithy!CodeAgents /\ job[j].pc # "idle"
    /\ \A j \in Jobs : job[j].pc \in {"edit", "agent"} => tree[j] # None
    /\ \A j, k \in Jobs : tree[j] # None /\ tree[k] # None /\ job[j].branch = job[k].branch => j = k
    /\ \A j, k \in Jobs : job[j].pc # "idle" /\ job[j].fresh /\ job[j].root = k /\ j # k =>
           job[k].kind \in Smithy!CodeAgents /\ job[k].pc # "idle"

Whole(rec) == rec.paths = {} \/ rec.form = "over"

\* The files a gate has read.
ReadBy(rec, stage, later) ==
    IF rec.pc = stage THEN rec.paths \ rec.left ELSE IF rec.pc \in later THEN rec.paths ELSE {}
ScanRead(rec) ==
    ReadBy(rec, "scan", {"test", "verdict"} \cup IF rec.kind = "review" THEN {"inspect", "lint"} ELSE {})
InspectRead(rec) ==
    ReadBy(rec, "inspect", {"test", "verdict"} \cup {IF rec.kind = "review" THEN "lint" ELSE "scan"})

\* So far nothing speaks against the change.
ScanOk(rec) ==
    ~rec.skipped /\ IF rec.kind = "review" THEN ~rec.high ELSE rec.security = "PASS"
InspectOk(rec) ==
    ~rec.skipped /\ IF rec.kind = "review" THEN ~rec.high ELSE rec.inspection = "PASS"
Ok(rec) ==
    ~rec.skipped /\ IF rec.kind = "review" THEN rec.gate = "PASS" /\ ~Smithy!Modelled(rec)
    ELSE rec.gate = "PASS" \/ (rec.inspection = "PASS" /\ rec.security = "PASS")

InspectBegan(rec) ==
    rec.pc \in {"inspect", "test", "verdict"} \cup {IF rec.kind = "review" THEN "lint" ELSE "scan"}

Gates(rec, files) ==
    /\ InspectBegan(rec) /\ InspectOk(rec) => ~Whole(rec)
    /\ ScanOk(rec) /\ ~Whole(rec) => \A p \in ScanRead(rec) : files[p] # "danger"
    /\ InspectOk(rec) /\ ~Whole(rec) =>
           \A p \in InspectRead(rec) : files[p] \notin {"absent", "opaque", "broken"}
    /\ rec.pc = "done" /\ Ok(rec) => rec.paths # {} /\ \A p \in rec.paths : files[p] \in Smithy!Good

\* What a job that nobody disturbed knows of the files of its root.
Knows(rec, files) ==
    /\ rec.kind \in Gated \cup {"review"} => Gates(rec, files)
    /\ rec.kind = "evidence" => \A s \in rec.seen : files[s[1]] = s[2]
    /\ rec.kind = "holdout" => rec.seen \subseteq {files}

Covered(rec, files, tip) ==
    rec.kind = "external" /\ rec.pc \notin {"idle", "agent"} =>
        \A p \in Paths : files[p] # tip[p] => p \in rec.paths \cup rec.lost

KnowsJob(j) ==
    job[j].pc # "idle" /\ job[j].fresh /\ tree[job[j].root] # None =>
        /\ Knows(job[j], tree[job[j].root])
        /\ job[j].kind = "external" => Covered(job[j], tree[job[j].root], tips[job[j].branch])

KnowsInv == \A j \in Jobs : KnowsJob(j)

ForgeInv == ForgeType /\ (\A j \in Jobs : Placed(j, job[j])) /\ TreeInv /\ KnowsInv

\* The stages of a job, by its kind.
LEMMA OrderIs ==
    LET o == Smithy!Order IN
    /\ \A kind \in Gated : o[kind] = <<"inspect", "scan", "test">>
    /\ o["review"] = <<"scan", "inspect", "lint", "test">>
    /\ o["evidence"] = <<"hash", "command">>
    /\ o["holdout"] = <<"scenario", "scenario">>
  BY DEF Smithy!Order, Gated

\* A free job is a job record, of the checkout.
LEMMA IdleRecord ==
    Smithy!Idle \in JobRecord /\ Smithy!Idle.pc = "idle" /\ Smithy!Idle.root = Base
  BY DEF Smithy!Idle, JobRecord, Works, Places, Stages, Marks

Noted(rec, c, l, i, h, s) ==
    [rec EXCEPT !.pc = c, !.left = l, !.inspection = i, !.high = h, !.security = s]

\* What a step of a gate changes, field by field.
LEMMA NotedFields ==
    ASSUME NEW rec \in JobRecord, NEW c \in Places, NEW l \in SUBSET Paths,
           NEW i \in Marks, NEW h \in BOOLEAN, NEW s \in Marks
    PROVE  LET x == Noted(rec, c, l, i, h, s) IN
           /\ x \in JobRecord
           /\ x.kind = rec.kind /\ x.root = rec.root /\ x.branch = rec.branch
           /\ x.paths = rec.paths /\ x.form = rec.form /\ x.stage = rec.stage
           /\ x.seen = rec.seen /\ x.lost = rec.lost /\ x.fresh = rec.fresh
           /\ x.skipped = rec.skipped /\ x.llm = rec.llm /\ x.heuristic = rec.heuristic
           /\ x.pc = c /\ x.left = l /\ x.inspection = i /\ x.high = h /\ x.security = s
<1> DEFINE y == [rec EXCEPT !.pc = c, !.left = l, !.inspection = i]
           z == [y EXCEPT !.high = h, !.security = s]
<1>1. y \in JobRecord
  BY ZenonT(60) DEF JobRecord
<1>2. /\ y.kind = rec.kind /\ y.root = rec.root /\ y.branch = rec.branch
      /\ y.paths = rec.paths /\ y.form = rec.form /\ y.stage = rec.stage
      /\ y.seen = rec.seen /\ y.lost = rec.lost /\ y.fresh = rec.fresh
      /\ y.skipped = rec.skipped /\ y.llm = rec.llm /\ y.heuristic = rec.heuristic
      /\ y.pc = c /\ y.left = l /\ y.inspection = i
  BY DEF JobRecord
<1>3. Noted(rec, c, l, i, h, s) = z
  BY Zenon DEF Noted
<1> HIDE DEF y
<1>4. z \in JobRecord
  <2>1. [y EXCEPT !.high = h] \in JobRecord
    BY <1>1 DEF JobRecord
  <2>2. \A w \in JobRecord : [w EXCEPT !.security = s] \in JobRecord
    BY DEF JobRecord
  <2> QED
    BY <2>1, <2>2, Zenon
<1>5. /\ z.kind = y.kind /\ z.root = y.root /\ z.branch = y.branch
      /\ z.paths = y.paths /\ z.form = y.form /\ z.stage = y.stage
      /\ z.seen = y.seen /\ z.lost = y.lost /\ z.fresh = y.fresh
      /\ z.skipped = y.skipped /\ z.llm = y.llm /\ z.heuristic = y.heuristic
      /\ z.pc = y.pc /\ z.left = y.left /\ z.inspection = y.inspection
      /\ z.high = h /\ z.security = s
  BY <1>1 DEF JobRecord
<1> HIDE DEF z
<1> QED
  BY <1>2, <1>3, <1>4, <1>5

\* What a stage's beginning does to a record.
LEMMA BatchFields ==
    ASSUME NEW rec \in JobRecord, NEW stage \in Stages, Smithy!Order[rec.kind][rec.stage] = stage
    PROVE  LET x == Smithy!Batch(rec) IN
           /\ x \in JobRecord
           /\ x.kind = rec.kind /\ x.root = rec.root /\ x.branch = rec.branch
           /\ x.paths = rec.paths /\ x.form = rec.form /\ x.stage = rec.stage
           /\ x.seen = rec.seen /\ x.lost = rec.lost /\ x.fresh = rec.fresh
           /\ x.skipped = rec.skipped /\ x.llm = rec.llm /\ x.heuristic = rec.heuristic
           /\ x.pc = stage
           /\ (stage \in {"inspect", "scan", "hash"} /\ ~Whole(rec)) => x.left = rec.paths
           /\ stage \in {"test", "command", "scenario"} => x.left = {}
           /\ rec.high => x.high
           /\ stage # "inspect" => x.high = rec.high /\ x.inspection = rec.inspection
           /\ stage # "scan" => x.security = rec.security
           /\ stage = "inspect" /\ Whole(rec) => x.high /\ x.inspection = "FAIL"
           /\ stage = "scan" /\ Whole(rec) => x.security = "FAIL"
           /\ x.inspection = "PASS" => rec.inspection = "PASS"
           /\ x.security = "PASS" => rec.security = "PASS"
<1> DEFINE whole == rec.paths = {} \/ rec.form = "over"
           badly == whole \/ rec.form = "bad"
           l == IF stage \in {"test", "command", "scenario"} \/ (whole /\ stage # "lint")
                THEN {} ELSE rec.paths
           i == IF stage = "inspect" /\ badly THEN "FAIL" ELSE rec.inspection
           h == rec.high \/ (stage = "inspect" /\ badly)
           s == IF stage = "scan" /\ whole THEN "FAIL" ELSE rec.security
<1>1. rec.paths \in SUBSET Paths /\ rec.inspection \in Marks /\ rec.security \in Marks
      /\ rec.high \in BOOLEAN
  BY DEF JobRecord
<1>2. Smithy!Batch(rec) = Noted(rec, stage, l, i, h, s)
  BY Zenon DEF Smithy!Batch, Noted
<1>3. stage \in Places /\ l \in SUBSET Paths /\ i \in Marks /\ h \in BOOLEAN /\ s \in Marks
  BY <1>1 DEF Places, Marks
<1>4. /\ (stage \in {"inspect", "scan", "hash"} /\ ~Whole(rec)) => l = rec.paths
      /\ stage \in {"test", "command", "scenario"} => l = {}
      /\ rec.high => h
      /\ stage # "inspect" => h = rec.high /\ i = rec.inspection
      /\ stage # "scan" => s = rec.security
      /\ stage = "inspect" /\ Whole(rec) => h /\ i = "FAIL"
      /\ stage = "scan" /\ Whole(rec) => s = "FAIL"
      /\ i = "PASS" => rec.inspection = "PASS"
      /\ s = "PASS" => rec.security = "PASS"
  BY <1>1 DEF Whole
<1> HIDE DEF whole, badly, l, i, h, s
<1> QED
  BY <1>2, <1>3, <1>4, NotedFields

\* A record that differs from another only in what the gates noted.
Kin(x, rec) ==
    /\ x \in JobRecord
    /\ x.kind = rec.kind /\ x.root = rec.root /\ x.branch = rec.branch
    /\ x.paths = rec.paths /\ x.lost = rec.lost /\ x.fresh = rec.fresh

Keeps(x, rec) ==
    /\ Kin(x, rec) /\ x.form = rec.form /\ x.stage = rec.stage /\ x.pc = rec.pc
    /\ x.wants = rec.wants /\ x.llm = rec.llm /\ x.heuristic = rec.heuristic

Verdicts(x, rec) ==
    /\ x.inspection = rec.inspection /\ x.security = rec.security /\ x.high = rec.high
    /\ x.skipped = rec.skipped

\* The files of a stage do not touch what a job knows.
LEMMA LeftFields ==
    ASSUME NEW rec \in JobRecord, NEW l \in SUBSET Paths
    PROVE  LET x == [rec EXCEPT !.left = l] IN
           Keeps(x, rec) /\ Verdicts(x, rec) /\ x.left = l /\ x.seen = rec.seen
  BY DEF JobRecord, Keeps, Kin, Verdicts

\* An inspected file that does no harm is readable and parses.
LEMMA InspectedFields ==
    ASSUME NEW rec \in JobRecord, NEW k \in FileKinds
    PROVE  LET x == Smithy!Inspected(rec, k) IN
           /\ Keeps(x, rec) /\ x.left = rec.left /\ x.seen = rec.seen
           /\ x.security = rec.security /\ x.skipped = rec.skipped
           /\ x.inspection = "PASS" \/ ~x.high =>
                  Verdicts(x, rec) /\ k \notin {"absent", "opaque", "broken"}
<1> DEFINE y == [rec EXCEPT !.inspection = "FAIL", !.high = TRUE]
<1>1. y \in JobRecord
  BY ZenonT(60) DEF JobRecord, Marks
<1>2. /\ Keeps(y, rec) /\ y.left = rec.left /\ y.seen = rec.seen
      /\ y.security = rec.security /\ y.skipped = rec.skipped
      /\ y.inspection = "FAIL" /\ y.high
  BY <1>1 DEF JobRecord, Keeps, Kin
<1>3. Keeps(rec, rec) /\ Verdicts(rec, rec)
  BY DEF Keeps, Kin, Verdicts
<1>4. CASE k \in {"absent", "opaque", "broken"}
  <2>1. Smithy!Inspected(rec, k) = y
    BY <1>4 DEF Smithy!Inspected, Smithy!Openable
  <2> HIDE DEF y
  <2> QED
    BY <2>1, <1>2
<1>5. CASE k \notin {"absent", "opaque", "broken"}
  <2>1. Smithy!Inspected(rec, k) = rec
    BY <1>5 DEF Smithy!Inspected, Smithy!Openable
  <2> QED
    BY <2>1, <1>3, <1>5
<1> QED
  BY <1>4, <1>5

\* A scanned file that does no harm is there and has no danger.
LEMMA ScannedFields ==
    ASSUME NEW rec \in JobRecord, NEW k \in FileKinds
    PROVE  LET x == Smithy!Scanned(rec, k) IN
           /\ Keeps(x, rec) /\ x.left = rec.left /\ x.seen = rec.seen
           /\ x.inspection = rec.inspection /\ (rec.high => x.high) /\ (rec.skipped => x.skipped)
           /\ x.security = "PASS" => rec.security = "PASS"
           /\ ~x.skipped /\ (x.security = "PASS" \/ ~x.high) =>
                  Verdicts(x, rec) /\ k # "danger" /\ k # "absent"
<1> DEFINE d == [rec EXCEPT !.security = "FAIL", !.high = TRUE]
           m == [rec EXCEPT !.medium = @ + 1]
           o == [rec EXCEPT !.skipped = TRUE]
<1>1. d \in JobRecord /\ m \in JobRecord /\ o \in JobRecord
  <2>1. d \in JobRecord
    BY ZenonT(60) DEF JobRecord, Marks
  <2>2. m \in JobRecord
    BY DEF JobRecord
  <2>3. o \in JobRecord
    BY ZenonT(60) DEF JobRecord
  <2> QED
    BY <2>1, <2>2, <2>3, Zenon
<1>2. /\ Keeps(d, rec) /\ d.left = rec.left /\ d.seen = rec.seen
      /\ d.inspection = rec.inspection /\ d.skipped = rec.skipped
      /\ d.security = "FAIL" /\ d.high
  BY <1>1 DEF JobRecord, Keeps, Kin
<1>3. Keeps(m, rec) /\ Verdicts(m, rec) /\ m.left = rec.left /\ m.seen = rec.seen
  BY <1>1 DEF JobRecord, Keeps, Kin, Verdicts
<1>4. /\ Keeps(o, rec) /\ o.left = rec.left /\ o.seen = rec.seen /\ o.inspection = rec.inspection
      /\ o.high = rec.high /\ o.security = rec.security /\ o.skipped
  BY <1>1 DEF JobRecord, Keeps, Kin
<1>5. Keeps(rec, rec) /\ Verdicts(rec, rec)
  BY DEF Keeps, Kin, Verdicts
<1>6. CASE k = "danger"
  <2>1. Smithy!Scanned(rec, k) = d
    BY <1>6 DEF Smithy!Scanned, Smithy!Dangerous, Smithy!Openable
  <2> HIDE DEF d
  <2> QED
    BY <2>1, <1>2, <1>6
<1>7. CASE k = "opaque"
  <2>1. Smithy!Scanned(rec, k) = m
    BY <1>7 DEF Smithy!Scanned, Smithy!Dangerous, Smithy!Openable
  <2> HIDE DEF m
  <2> QED
    BY <2>1, <1>3, <1>7 DEF Verdicts
<1>8. CASE k = "absent"
  <2>1. Smithy!Scanned(rec, k) = o
    BY <1>8 DEF Smithy!Scanned, Smithy!Dangerous, Smithy!Openable
  <2> HIDE DEF o
  <2> QED
    BY <2>1, <1>4, <1>8
<1>9. CASE k \notin {"danger", "opaque", "absent"}
  <2>1. Smithy!Scanned(rec, k) = rec
    BY <1>9 DEF Smithy!Scanned, Smithy!Dangerous, Smithy!Openable
  <2> QED
    BY <2>1, <1>5, <1>9
<1> QED
  BY <1>6, <1>7, <1>8, <1>9

\* The lint of a review changes no verdict.
LEMMA LintedFields ==
    ASSUME NEW rec \in JobRecord, NEW k \in FileKinds
    PROVE  LET x == Smithy!Linted(rec, k) IN
           Keeps(x, rec) /\ Verdicts(x, rec) /\ x.left = rec.left /\ x.seen = rec.seen
<1> DEFINE m == [rec EXCEPT !.medium = @ + 1]
<1>1. m \in JobRecord
  BY DEF JobRecord
<1>2. Keeps(m, rec) /\ Verdicts(m, rec) /\ m.left = rec.left /\ m.seen = rec.seen
  BY <1>1 DEF JobRecord, Keeps, Kin, Verdicts
<1>3. Keeps(rec, rec) /\ Verdicts(rec, rec)
  BY DEF Keeps, Kin, Verdicts
<1>4. Smithy!Linted(rec, k) \in {m, rec}
  BY DEF Smithy!Linted
<1> HIDE DEF m
<1> QED
  BY <1>2, <1>3, <1>4

\* The evidence gains the hash of a file it can read.
LEMMA HashedFields ==
    ASSUME NEW rec \in JobRecord, NEW p \in Paths, NEW k \in FileKinds
    PROVE  LET x == Smithy!Hashed(rec, p, k) IN
           /\ Keeps(x, rec) /\ Verdicts(x, rec) /\ x.left = rec.left
           /\ x.seen = IF k = "absent" THEN rec.seen ELSE rec.seen \cup {<<p, k>>}
<1> DEFINE s == rec.seen \cup {<<p, k>>}
           m == [rec EXCEPT !.seen = s]
<1>1. s \in SUBSET ((Paths \X FileKinds) \cup Files)
  BY DEF JobRecord
<1> HIDE DEF s
<1>2. m \in JobRecord
  BY <1>1 DEF JobRecord
<1>3. Keeps(m, rec) /\ Verdicts(m, rec) /\ m.left = rec.left /\ m.seen = s
  BY <1>2 DEF JobRecord, Keeps, Kin, Verdicts
<1>4. Keeps(rec, rec) /\ Verdicts(rec, rec)
  BY DEF Keeps, Kin, Verdicts
<1>5. Smithy!Hashed(rec, p, k) = IF k = "absent" THEN rec ELSE m
  BY DEF Smithy!Hashed, Smithy!Openable, s
<1> HIDE DEF m
<1> QED
  BY <1>3, <1>4, <1>5 DEF s

\* What evidence and holdout runs saw is there.
SeenIs(rec, files) ==
    /\ rec.kind = "evidence" => \A s \in rec.seen : files[s[1]] = s[2]
    /\ rec.kind = "holdout" => rec.seen \subseteq {files}

\* The order in which the gates come, as the places before and after each other.
LEMMA OrderPlaces ==
    /\ \A kind \in Works : Len(Smithy!Order[kind]) \in 2 .. 4
    /\ \A kind \in Gated :
          /\ Len(Smithy!Order[kind]) = 3 /\ Smithy!Order[kind][1] = "inspect"
          /\ Smithy!Order[kind][2] = "scan" /\ Smithy!Order[kind][3] = "test"
    /\ Len(Smithy!Order["review"]) = 4 /\ Smithy!Order["review"][1] = "scan"
    /\ Smithy!Order["review"][2] = "inspect" /\ Smithy!Order["review"][3] = "lint"
    /\ Smithy!Order["review"][4] = "test"
    /\ Len(Smithy!Order["evidence"]) = 2 /\ Smithy!Order["evidence"][1] = "hash"
    /\ Smithy!Order["evidence"][2] = "command"
    /\ Len(Smithy!Order["holdout"]) = 2 /\ Smithy!Order["holdout"][1] = "scenario"
    /\ Smithy!Order["holdout"][2] = "scenario"
  BY OrderIs DEF Works, Gated

\* The number of a stage is nothing that a job knows.
LEMMA StageFields ==
    ASSUME NEW rec \in JobRecord, NEW n \in 1 .. 4
    PROVE  LET x == [rec EXCEPT !.stage = n] IN
           /\ Kin(x, rec) /\ Verdicts(x, rec) /\ x.stage = n /\ x.form = rec.form
           /\ x.seen = rec.seen /\ x.llm = rec.llm /\ x.heuristic = rec.heuristic
<1> DEFINE x == [rec EXCEPT !.stage = n]
<1>1. x \in JobRecord
  BY DEF JobRecord
<1> QED
  BY <1>1 DEF JobRecord, Kin, Verdicts

\* A batch begins: nothing is claimed of it that its stage has not read.
Began(x, rec, stage) ==
    /\ Kin(x, rec) /\ x.pc = stage /\ x.form = rec.form /\ x.seen = rec.seen
    /\ x.skipped = rec.skipped /\ x.llm = rec.llm /\ x.heuristic = rec.heuristic
    /\ (stage \in {"inspect", "scan", "hash"} /\ ~Whole(rec)) => x.left = rec.paths
    /\ stage \in {"test", "command", "scenario"} => x.left = {}
    /\ rec.high => x.high
    /\ stage # "inspect" => x.high = rec.high /\ x.inspection = rec.inspection
    /\ stage # "scan" => x.security = rec.security
    /\ stage = "inspect" /\ Whole(rec) => x.high /\ x.inspection = "FAIL"
    /\ x.inspection = "PASS" => rec.inspection = "PASS"
    /\ x.security = "PASS" => rec.security = "PASS"

\* A stage begins with its batch of files, unread, or with the failure that its list deserves.
LEMMA StageBegins ==
    ASSUME NEW rec \in JobRecord, NEW n \in 1 .. 4, NEW stage \in Stages,
           n <= Len(Smithy!Order[rec.kind]), Smithy!Order[rec.kind][n] = stage
    PROVE  LET x == Smithy!Batch([rec EXCEPT !.stage = n]) IN
           Began(x, rec, stage) /\ Fit(x) /\ x.stage = n
<1> DEFINE y == [rec EXCEPT !.stage = n]
           x == Smithy!Batch(y)
<1>1. /\ Kin(y, rec) /\ Verdicts(y, rec) /\ y.stage = n /\ y.form = rec.form
      /\ y.seen = rec.seen /\ y.llm = rec.llm /\ y.heuristic = rec.heuristic
  BY StageFields
<1> HIDE DEF y
<1>2. y \in JobRecord /\ Smithy!Order[y.kind][y.stage] = stage
  BY <1>1 DEF Kin
<1>3. /\ x \in JobRecord
      /\ x.kind = y.kind /\ x.root = y.root /\ x.branch = y.branch
      /\ x.paths = y.paths /\ x.form = y.form /\ x.stage = y.stage
      /\ x.seen = y.seen /\ x.lost = y.lost /\ x.fresh = y.fresh
      /\ x.skipped = y.skipped /\ x.llm = y.llm /\ x.heuristic = y.heuristic
      /\ x.pc = stage
      /\ (stage \in {"inspect", "scan", "hash"} /\ ~Whole(y)) => x.left = y.paths
      /\ stage \in {"test", "command", "scenario"} => x.left = {}
      /\ y.high => x.high
      /\ stage # "inspect" => x.high = y.high /\ x.inspection = y.inspection
      /\ stage # "scan" => x.security = y.security
      /\ stage = "inspect" /\ Whole(y) => x.high /\ x.inspection = "FAIL"
      /\ x.inspection = "PASS" => y.inspection = "PASS"
      /\ x.security = "PASS" => y.security = "PASS"
  BY <1>2, BatchFields
<1> HIDE DEF x
<1>4. Whole(y) <=> Whole(rec)
  BY <1>1 DEF Whole, Kin
<1>5. Began(x, rec, stage)
  BY <1>1, <1>3, <1>4 DEF Began, Kin, Verdicts
<1>6. Fit(x) /\ x.stage = n
  BY <1>1, <1>3 DEF Fit, Kin, Stages
<1> QED
  BY <1>5, <1>6, Zenon DEF x, y

\* A job that begins its gates knows nothing yet but what it has seen.
LEMMA StartedKnows ==
    ASSUME NEW rec \in JobRecord
    PROVE  LET x == Smithy!Started(rec) IN
           /\ Kin(x, rec) /\ x.pc \in Stages /\ Fit(x)
           /\ \A files : SeenIs(rec, files) => Knows(x, files)
<1> DEFINE x == Smithy!Started(rec)
           stage == Smithy!Order[rec.kind][1]
<1>1. rec.kind \in Works
  BY DEF JobRecord
<1>2. /\ stage \in Stages /\ 1 <= Len(Smithy!Order[rec.kind])
      /\ rec.kind \in Gated => stage = "inspect"
      /\ rec.kind = "review" => stage = "scan"
  BY <1>1, OrderPlaces DEF Works, Gated, Stages
<1> HIDE DEF stage
<1>3. Began(x, rec, stage) /\ Fit(x)
  <2>1. 1 \in 1 .. 4
    OBVIOUS
  <2>2. Smithy!Order[rec.kind][1] = stage
    BY DEF stage
  <2> QED
    BY <1>2, <2>1, <2>2, StageBegins, Zenon DEF Smithy!Started
<1> HIDE DEF x
<1>4. Kin(x, rec) /\ x.pc \in Stages
  BY <1>2, <1>3 DEF Began
<1>5. ASSUME NEW files, SeenIs(rec, files) PROVE Knows(x, files)
  <2>1. x.kind = rec.kind /\ x.seen = rec.seen /\ x.pc = stage /\ (Whole(x) <=> Whole(rec))
    BY <1>3 DEF Began, Kin, Whole
  <2>2. ASSUME x.kind \in Gated PROVE Gates(x, files)
    <3>1. x.pc = "inspect" /\ x.kind # "review"
      BY <2>1, <2>2, <1>2 DEF Gated
    <3>2. ~Whole(x) => x.left = x.paths
      BY <1>3, <3>1, <2>1 DEF Began, Kin
    <3>3. Whole(x) => x.inspection = "FAIL"
      BY <1>3, <3>1, <2>1 DEF Began
    <3> QED
      BY <3>1, <3>2, <3>3 DEF Gates, InspectBegan, InspectOk, ScanOk, ScanRead, InspectRead, ReadBy
  <2>3. ASSUME x.kind = "review" PROVE Gates(x, files)
    <3>1. x.pc = "scan"
      BY <2>1, <2>3, <1>2
    <3>2. ~Whole(x) => x.left = x.paths
      BY <1>3, <3>1, <2>1 DEF Began, Kin
    <3> QED
      BY <2>3, <3>1, <3>2 DEF Gates, InspectBegan, InspectOk, ScanOk, ScanRead, InspectRead, ReadBy
  <2> QED
    BY <2>1, <2>2, <2>3, <1>5 DEF Knows, SeenIs
<1> QED
  BY <1>3, <1>4, <1>5, Zenon DEF x

\* The end of the last stage.
LEMMA VerdictFields ==
    ASSUME NEW rec \in JobRecord
    PROVE  LET x == [rec EXCEPT !.pc = "verdict", !.left = {}] IN
           /\ Kin(x, rec) /\ Verdicts(x, rec) /\ x.pc = "verdict" /\ x.form = rec.form /\ x.left = {}
           /\ x.seen = rec.seen /\ x.llm = rec.llm /\ x.heuristic = rec.heuristic
<1> DEFINE x == [rec EXCEPT !.pc = "verdict", !.left = {}]
<1>1. x \in JobRecord
  BY ZenonT(60) DEF JobRecord, Places
<1> QED
  BY <1>1 DEF JobRecord, Kin, Verdicts

\* A stage that has read all its files hands over to the next.
LEMMA AdvancedKnows ==
    ASSUME NEW rec \in JobRecord, Fit(rec), rec.pc \in Stages,
           rec.pc \in {"inspect", "scan", "lint", "hash"} => rec.left = {}
    PROVE  LET x == Smithy!Advanced(rec) IN
           /\ Kin(x, rec) /\ x.pc \in Stages \cup {"verdict"} /\ Fit(x)
           /\ \A files : Knows(rec, files) => Knows(x, files)
<1> DEFINE x == Smithy!Advanced(rec)
           n == rec.stage + 1
           ends == n > Len(Smithy!Order[rec.kind]) \/ (Smithy!Order[rec.kind][n] = "test" /\ ~rec.wants)
           stage == Smithy!Order[rec.kind][n]
           v == [rec EXCEPT !.pc = "verdict", !.left = {}]
           b == Smithy!Batch([rec EXCEPT !.stage = n])
<1>1. rec.kind \in Works /\ rec.stage \in 0 .. 4
  BY DEF JobRecord
<1>2. x = IF ends THEN v ELSE b
  BY Zenon DEF Smithy!Advanced
<1>3. \/ rec.kind \in Gated /\ rec.pc = "inspect" /\ ~ends /\ n \in 1 .. 4 /\ stage = "scan"
      \/ rec.kind \in Gated /\ rec.pc = "scan" /\ (ends \/ (n \in 1 .. 4 /\ stage = "test"))
      \/ rec.kind \in Gated /\ rec.pc = "test" /\ ends
      \/ rec.kind = "review" /\ rec.pc = "scan" /\ ~ends /\ n \in 1 .. 4 /\ stage = "inspect"
      \/ rec.kind = "review" /\ rec.pc = "inspect" /\ ~ends /\ n \in 1 .. 4 /\ stage = "lint"
      \/ rec.kind = "review" /\ rec.pc = "lint" /\ (ends \/ (n \in 1 .. 4 /\ stage = "test"))
      \/ rec.kind = "review" /\ rec.pc = "test" /\ ends
      \/ rec.kind \in {"evidence", "holdout"} /\ (ends \/ (n \in 1 .. 4 /\ stage \in Stages))
  <2>1. rec.stage \in 1 .. Len(Smithy!Order[rec.kind]) /\ Smithy!Order[rec.kind][rec.stage] = rec.pc
    BY DEF Fit
  <2>2. CASE rec.kind \in Gated
    <3>1. rec.stage \in {1, 2, 3}
      BY <2>1, <2>2, OrderPlaces
    <3> QED
      BY SMTT(30), <2>1, <2>2, <3>1, OrderPlaces
  <2>3. CASE rec.kind = "review"
    <3>1. rec.stage \in {1, 2, 3, 4}
      BY <2>1, <2>3, OrderPlaces
    <3> QED
      BY <2>1, <2>3, <3>1, OrderPlaces
  <2>4. CASE rec.kind \in {"evidence", "holdout"}
    <3>1. rec.stage \in {1, 2}
      BY <2>1, <2>4, OrderPlaces
    <3> QED
      BY <2>1, <2>4, <3>1, OrderPlaces DEF Stages
  <2> QED
    BY <1>1, <2>2, <2>3, <2>4 DEF Works, Gated
<1>4. Kin(v, rec) /\ Verdicts(v, rec) /\ v.pc = "verdict" /\ v.form = rec.form /\ v.left = {}
      /\ v.seen = rec.seen /\ v.llm = rec.llm /\ v.heuristic = rec.heuristic
  BY VerdictFields
<1>5. ~ends => n <= Len(Smithy!Order[rec.kind]) /\ n \in 1 .. 4 /\ stage \in Stages
  <2>1. n \in Nat /\ Len(Smithy!Order[rec.kind]) \in Nat
    BY <1>1, OrderPlaces
  <2> QED
    BY <1>3, <2>1 DEF Stages
<1>6. Smithy!Order[rec.kind][n] = stage
  OBVIOUS
<1> HIDE DEF v, stage, ends, n
<1>7. ~ends => Began(b, rec, stage) /\ Fit(b)
  BY <1>5, <1>6, StageBegins, Zenon
<1> HIDE DEF b
<1>8. /\ Kin(x, rec) /\ x.pc \in Stages \cup {"verdict"} /\ Fit(x)
  <2>1. CASE ends
    BY <2>1, <1>2, <1>4 DEF Fit, Stages
  <2>2. CASE ~ends
    BY <2>2, <1>2, <1>5, <1>7 DEF Began
  <2> QED
    BY <2>1, <2>2
<1> HIDE DEF x
<1>9. /\ Kin(x, rec) /\ x.form = rec.form /\ x.seen = rec.seen
      /\ x.skipped = rec.skipped /\ (rec.high => x.high) /\ x.pc # "done"
      /\ x.pc = (IF ends THEN "verdict" ELSE stage)
      /\ x.pc # "inspect" => x.high = rec.high /\ x.inspection = rec.inspection
      /\ x.pc # "scan" => x.security = rec.security
      /\ x.pc = "inspect" /\ Whole(rec) => x.high /\ x.inspection = "FAIL"
      /\ (x.pc \in {"inspect", "scan"} /\ ~Whole(rec)) => x.left = rec.paths
  <2>1. CASE ends
    BY <2>1, <1>2, <1>4 DEF Kin, Verdicts
  <2>2. CASE ~ends
    BY <2>2, <1>2, <1>5, <1>7 DEF Began, Stages
  <2> QED
    BY <2>1, <2>2
<1>10. ASSUME NEW files, Knows(rec, files) PROVE Knows(x, files)
  <2>1. x.kind = rec.kind /\ x.paths = rec.paths /\ (Whole(x) <=> Whole(rec))
    BY <1>9 DEF Kin, Whole
  <2>2. ASSUME rec.kind \in Gated PROVE Gates(x, files)
    <3>1. Gates(rec, files) /\ rec.kind # "review"
      BY <1>10, <2>2 DEF Knows, Gated
    <3>2. (rec.pc = "inspect" /\ x.pc = "scan") \/ (rec.pc \in {"scan", "test"} /\ x.pc \in {"test", "verdict"})
      BY <1>3, <1>9, <2>2, <3>1 DEF Gated
    <3>3. x.inspection = rec.inspection /\ (x.pc # "scan" => x.security = rec.security)
      BY <1>9, <3>2
    <3>4. CASE rec.pc = "inspect" /\ x.pc = "scan"
      BY <1>9, <2>1, <3>1, <3>3, <3>4
         DEF Gates, InspectBegan, InspectOk, ScanOk, ScanRead, InspectRead, ReadBy
    <3>5. CASE rec.pc \in {"scan", "test"} /\ x.pc \in {"test", "verdict"}
      BY <1>9, <2>1, <3>1, <3>3, <3>5
         DEF Gates, InspectBegan, InspectOk, ScanOk, ScanRead, InspectRead, ReadBy
    <3> QED
      BY <3>2, <3>4, <3>5
  <2>3. ASSUME rec.kind = "review" PROVE Gates(x, files)
    <3>1. Gates(rec, files)
      BY <1>10, <2>3 DEF Knows
    <3>2. \/ rec.pc = "scan" /\ x.pc = "inspect"
          \/ rec.pc = "inspect" /\ x.pc = "lint"
          \/ rec.pc \in {"lint", "test"} /\ x.pc \in {"test", "verdict"}
      BY <1>3, <1>9, <2>3 DEF Gated
    <3>3. CASE rec.pc = "scan" /\ x.pc = "inspect"
      BY <1>9, <2>1, <2>3, <3>1, <3>3
         DEF Gates, InspectBegan, InspectOk, ScanOk, ScanRead, InspectRead, ReadBy
    <3>4. CASE rec.pc = "inspect" /\ x.pc = "lint"
      BY <1>9, <2>1, <2>3, <3>1, <3>4
         DEF Gates, InspectBegan, InspectOk, ScanOk, ScanRead, InspectRead, ReadBy
    <3>5. CASE rec.pc \in {"lint", "test"} /\ x.pc \in {"test", "verdict"}
      BY <1>9, <2>1, <2>3, <3>1, <3>5
         DEF Gates, InspectBegan, InspectOk, ScanOk, ScanRead, InspectRead, ReadBy
    <3> QED
      BY <3>2, <3>3, <3>4, <3>5
  <2> QED
    BY <1>9, <1>10, <2>1, <2>2, <2>3 DEF Knows
<1> QED
  BY <1>8, <1>10, Zenon DEF x

\* A gate reads a file that is there, or cannot.
AfterRead(rec, p, k) ==
    LET y == [rec EXCEPT !.left = @ \ {p}] IN
    CASE y.pc = "inspect" -> Smithy!Inspected(y, k)
      [] y.pc = "scan"    -> Smithy!Scanned(y, k)
      [] y.pc = "lint"    -> Smithy!Linted(y, k)
      [] y.pc = "hash"    -> Smithy!Hashed(y, p, k)

\* A gate that reads a file, or cannot, knows as much of it as it reports.
LEMMA ReadKnows ==
    ASSUME NEW rec \in JobRecord, Fit(rec), rec.pc \in {"inspect", "scan", "lint", "hash"},
           NEW p \in rec.left, NEW k \in FileKinds
    PROVE  LET x == AfterRead(rec, p, k) IN
           /\ Kin(x, rec) /\ x.pc = rec.pc /\ Fit(x)
           /\ \A files : Knows(rec, files) /\ (k = files[p] \/ k = "absent") => Knows(x, files)
<1> DEFINE l == rec.left \ {p}
           y == [rec EXCEPT !.left = l]
           x == AfterRead(rec, p, k)
<1>1. l \in SUBSET Paths /\ p \in Paths
  BY DEF JobRecord
<1>2. Keeps(y, rec) /\ Verdicts(y, rec) /\ y.left = l /\ y.seen = rec.seen
  BY <1>1, LeftFields
<1>3. y \in JobRecord /\ y.pc = rec.pc
  BY <1>2 DEF Keeps, Kin
<1>4. /\ rec.pc = "inspect" => x = Smithy!Inspected(y, k)
      /\ rec.pc = "scan" => x = Smithy!Scanned(y, k)
      /\ rec.pc = "lint" => x = Smithy!Linted(y, k)
      /\ rec.pc = "hash" => x = Smithy!Hashed(y, p, k)
  <2> HIDE DEF l, x
  <2>1. x = CASE y.pc = "inspect" -> Smithy!Inspected(y, k)
              [] y.pc = "scan"    -> Smithy!Scanned(y, k)
              [] y.pc = "lint"    -> Smithy!Linted(y, k)
              [] y.pc = "hash"    -> Smithy!Hashed(y, p, k)
    BY Zenon DEF x, l, AfterRead
  <2> HIDE DEF y
  <2> QED
    BY <2>1, <1>3
<1> HIDE DEF y, x, l
<1>5. /\ Keeps(x, rec) /\ x.left = l
      /\ rec.pc \in {"scan", "lint", "hash"} => x.inspection = rec.inspection
      /\ rec.pc \in {"inspect", "lint", "hash"} => x.security = rec.security /\ x.skipped = rec.skipped
      /\ x.inspection = "PASS" => rec.inspection = "PASS"
      /\ x.security = "PASS" => rec.security = "PASS"
      /\ rec.high => x.high
      /\ rec.skipped => x.skipped
      /\ rec.pc = "inspect" /\ (x.inspection = "PASS" \/ ~x.high) => k \notin {"absent", "opaque", "broken"}
      /\ rec.pc = "scan" /\ ~x.skipped /\ (x.security = "PASS" \/ ~x.high) =>
             k # "danger" /\ k # "absent"
      /\ x.seen = IF rec.pc # "hash" \/ k = "absent" THEN rec.seen ELSE rec.seen \cup {<<p, k>>}
  <2>1. CASE rec.pc = "inspect"
    BY <2>1, <1>2, <1>3, <1>4, InspectedFields DEF Keeps, Kin, Verdicts, Marks, JobRecord
  <2>2. CASE rec.pc = "scan"
    BY <2>2, <1>2, <1>3, <1>4, ScannedFields DEF Keeps, Kin, Verdicts
  <2>3. CASE rec.pc = "lint"
    BY <2>3, <1>2, <1>3, <1>4, LintedFields DEF Keeps, Kin, Verdicts
  <2>4. CASE rec.pc = "hash"
    BY SMTT(30), <2>4, <1>1, <1>2, <1>3, <1>4, HashedFields DEF Keeps, Kin, Verdicts
  <2> QED
    BY <2>1, <2>2, <2>3, <2>4
<1>6. Kin(x, rec) /\ x.pc = rec.pc /\ Fit(x)
  BY <1>5 DEF Keeps, Kin, Fit
<1>7. ASSUME NEW files, Knows(rec, files), k = files[p] \/ k = "absent"
      PROVE  Knows(x, files)
  <2>1. /\ x.kind = rec.kind /\ x.paths = rec.paths /\ x.pc = rec.pc /\ (Whole(x) <=> Whole(rec))
        /\ x.left = rec.left \ {p}
    BY <1>5 DEF Keeps, Kin, Whole, l
  <2>2. ASSUME rec.kind \in Gated PROVE Gates(x, files)
    <3>1. Gates(rec, files) /\ rec.kind # "review"
      BY <1>7, <2>2 DEF Knows, Gated
    <3>2. rec.pc \in {"inspect", "scan"}
      BY <2>2, OrderPlaces DEF Fit, Stages
    <3>3. CASE rec.pc = "inspect"
      BY <1>5, <1>7, <2>1, <3>1, <3>3
         DEF Gates, InspectBegan, InspectOk, ScanOk, ScanRead, InspectRead, ReadBy
    <3>4. CASE rec.pc = "scan"
      BY <1>5, <1>7, <2>1, <3>1, <3>4
         DEF Gates, InspectBegan, InspectOk, ScanOk, ScanRead, InspectRead, ReadBy
    <3> QED
      BY <3>2, <3>3, <3>4
  <2>3. ASSUME rec.kind = "review" PROVE Gates(x, files)
    <3>1. Gates(rec, files)
      BY <1>7, <2>3 DEF Knows
    <3>2. rec.pc \in {"inspect", "scan", "lint"}
      BY <2>3, OrderPlaces DEF Fit, Stages
    <3>3. CASE rec.pc = "inspect"
      BY <1>5, <1>7, <2>1, <2>3, <3>1, <3>3
         DEF Gates, InspectBegan, InspectOk, ScanOk, ScanRead, InspectRead, ReadBy
    <3>4. CASE rec.pc = "scan"
      BY <1>5, <1>7, <2>1, <2>3, <3>1, <3>4
         DEF Gates, InspectBegan, InspectOk, ScanOk, ScanRead, InspectRead, ReadBy
    <3>5. CASE rec.pc = "lint"
      BY <1>5, <1>7, <2>1, <2>3, <3>1, <3>5
         DEF Gates, InspectBegan, InspectOk, ScanOk, ScanRead, InspectRead, ReadBy
    <3> QED
      BY <3>2, <3>3, <3>4, <3>5
  <2>4. ASSUME rec.kind = "evidence" PROVE \A s \in x.seen : files[s[1]] = s[2]
    BY <1>5, <1>7, <2>4 DEF Knows
  <2>5. ASSUME rec.kind = "holdout" PROVE x.seen \subseteq {files}
    <3>1. rec.pc # "hash"
      BY <2>5, OrderPlaces DEF Fit, Stages
    <3> QED
      BY <1>5, <1>7, <2>5, <3>1 DEF Knows
  <2> QED
    BY <2>1, <2>2, <2>3, <2>4, <2>5 DEF Knows
<1> QED
  BY <1>6, <1>7, Zenon DEF x

\* What speaks against a change takes nothing back.
LEMMA HarsherKnows ==
    ASSUME NEW rec \in JobRecord, NEW x, Keeps(x, rec), x.left = rec.left, x.seen = rec.seen,
           x.inspection = rec.inspection, x.security = rec.security, x.skipped = rec.skipped,
           rec.high => x.high, rec.pc # "done", NEW files, Knows(rec, files)
    PROVE  Knows(x, files)
<1>1. /\ x.kind = rec.kind /\ x.paths = rec.paths /\ x.pc = rec.pc /\ (Whole(x) <=> Whole(rec))
  BY DEF Keeps, Kin, Whole
<1>2. InspectRead(x) = InspectRead(rec) /\ ScanRead(x) = ScanRead(rec)
      /\ (InspectBegan(x) <=> InspectBegan(rec))
  BY <1>1 DEF InspectRead, ScanRead, ReadBy, InspectBegan
<1>3. (InspectOk(x) => InspectOk(rec)) /\ (ScanOk(x) => ScanOk(rec))
  BY <1>1 DEF InspectOk, ScanOk
<1>4. Gates(rec, files) => Gates(x, files)
  BY <1>1, <1>2, <1>3 DEF Gates
<1> QED
  BY <1>1, <1>4 DEF Knows

\* The outcome of the tests leaves the other gates alone.
LEMMA TestsFields ==
    ASSUME NEW rec \in JobRecord, NEW t \in Marks \cup {None}, NEW h \in BOOLEAN, rec.high => h
    PROVE  LET x == [rec EXCEPT !.tests = t, !.high = h] IN
           /\ Keeps(x, rec) /\ x.left = rec.left /\ x.seen = rec.seen
           /\ x.inspection = rec.inspection /\ x.security = rec.security
           /\ x.skipped = rec.skipped /\ (rec.high => x.high)
<1> DEFINE y == [rec EXCEPT !.tests = t]
           x == [y EXCEPT !.high = h]
<1>1. y \in JobRecord
  BY DEF JobRecord
<1>2. Keeps(y, rec) /\ Verdicts(y, rec) /\ y.left = rec.left /\ y.seen = rec.seen
  BY <1>1 DEF JobRecord, Keeps, Kin, Verdicts
<1> HIDE DEF y
<1>3. x \in JobRecord
  BY <1>1 DEF JobRecord
<1>4. /\ Keeps(x, y) /\ x.left = y.left /\ x.seen = y.seen
      /\ x.inspection = y.inspection /\ x.security = y.security
      /\ x.skipped = y.skipped /\ x.high = h
  BY <1>1, <1>3 DEF JobRecord, Keeps, Kin
<1> HIDE DEF x
<1>5. /\ Keeps(x, rec) /\ x.left = rec.left /\ x.seen = rec.seen
      /\ x.inspection = rec.inspection /\ x.security = rec.security
      /\ x.skipped = rec.skipped /\ (rec.high => x.high)
  BY <1>2, <1>4 DEF Keeps, Kin, Verdicts
<1> QED
  BY <1>5, Zenon DEF x, y

\* So does the failure of a scenario, and what it saw,
LEMMA FailedFields ==
    ASSUME NEW rec \in JobRecord, NEW b \in BOOLEAN, NEW s \in SUBSET ((Paths \X FileKinds) \cup Files)
    PROVE  LET x == [rec EXCEPT !.failed = b, !.seen = s] IN
           Keeps(x, rec) /\ Verdicts(x, rec) /\ x.left = rec.left /\ x.seen = s
<1> DEFINE y == [rec EXCEPT !.failed = b]
           x == [y EXCEPT !.seen = s]
<1>1. y \in JobRecord
  BY DEF JobRecord
<1>2. Keeps(y, rec) /\ Verdicts(y, rec) /\ y.left = rec.left
  BY <1>1 DEF JobRecord, Keeps, Kin, Verdicts
<1> HIDE DEF y
<1>3. x \in JobRecord
  BY <1>1, SMTT(30) DEF JobRecord
<1>4. Keeps(x, y) /\ Verdicts(x, y) /\ x.left = y.left /\ x.seen = s
  BY <1>1, <1>3 DEF JobRecord, Keeps, Kin, Verdicts
<1> HIDE DEF x
<1>5. Keeps(x, rec) /\ Verdicts(x, rec) /\ x.left = rec.left /\ x.seen = s
  BY <1>2, <1>4 DEF Keeps, Kin, Verdicts
<1> QED
  BY <1>5, Zenon DEF x, y

\* and the failure of a command.
LEMMA FailedField ==
    ASSUME NEW rec \in JobRecord, NEW b \in BOOLEAN
    PROVE  LET x == [rec EXCEPT !.failed = b] IN
           Keeps(x, rec) /\ Verdicts(x, rec) /\ x.left = rec.left /\ x.seen = rec.seen
<1> DEFINE x == [rec EXCEPT !.failed = b]
<1>1. x \in JobRecord
  BY DEF JobRecord
<1> QED
  BY <1>1 DEF JobRecord, Keeps, Kin, Verdicts

\* A record with another value in a field.
LEMMA Setters ==
    ASSUME NEW rec \in JobRecord
    PROVE
    /\ \A v \in Works : [rec EXCEPT !.kind = v] \in JobRecord
    /\ \A v \in {Base} \cup Jobs : [rec EXCEPT !.root = v] \in JobRecord
    /\ \A v \in Branches \cup {None} : [rec EXCEPT !.branch = v] \in JobRecord
    /\ \A v \in Places : [rec EXCEPT !.pc = v] \in JobRecord
    /\ \A v \in 0 .. 4 : [rec EXCEPT !.stage = v] \in JobRecord
    /\ \A v \in SUBSET Paths : [rec EXCEPT !.paths = v] \in JobRecord
    /\ \A v \in {"ok", "bad", "over"} : [rec EXCEPT !.form = v] \in JobRecord
    /\ \A v \in SUBSET Paths : [rec EXCEPT !.left = v] \in JobRecord
    /\ \A v \in Nat : [rec EXCEPT !.edits = v] \in JobRecord
    /\ \A v \in BOOLEAN : [rec EXCEPT !.failed = v] \in JobRecord
    /\ \A v \in BOOLEAN : [rec EXCEPT !.high = v] \in JobRecord
    /\ \A v \in Nat : [rec EXCEPT !.medium = v] \in JobRecord
    /\ \A v \in Marks \cup {None} : [rec EXCEPT !.tests = v] \in JobRecord
    /\ \A v \in BOOLEAN : [rec EXCEPT !.wants = v] \in JobRecord
    /\ \A v \in {4, 5} : [rec EXCEPT !.threshold = v] \in JobRecord
    /\ \A v \in BOOLEAN : [rec EXCEPT !.llm = v] \in JobRecord
    /\ \A v \in BOOLEAN : [rec EXCEPT !.heuristic = v] \in JobRecord
    /\ \A v \in Nat : [rec EXCEPT !.round = v] \in JobRecord
    /\ \A v \in SUBSET Paths : [rec EXCEPT !.lost = v] \in JobRecord
    /\ \A v \in Marks \cup {None} : [rec EXCEPT !.gate = v] \in JobRecord
    /\ \A v \in BOOLEAN : [rec EXCEPT !.fresh = v] \in JobRecord
    /\ \A v \in Marks : [rec EXCEPT !.inspection = v] \in JobRecord
    /\ \A v \in Marks : [rec EXCEPT !.security = v] \in JobRecord
    /\ \A v \in BOOLEAN : [rec EXCEPT !.skipped = v] \in JobRecord
<1>1. \A v \in Works : [rec EXCEPT !.kind = v] \in JobRecord
  BY DEF JobRecord
<1>2. \A v \in {Base} \cup Jobs : [rec EXCEPT !.root = v] \in JobRecord
  BY DEF JobRecord
<1>3. \A v \in Branches \cup {None} : [rec EXCEPT !.branch = v] \in JobRecord
  BY DEF JobRecord
<1>4. \A v \in Places : [rec EXCEPT !.pc = v] \in JobRecord
  BY DEF JobRecord
<1>5. \A v \in 0 .. 4 : [rec EXCEPT !.stage = v] \in JobRecord
  BY DEF JobRecord
<1>6. \A v \in SUBSET Paths : [rec EXCEPT !.paths = v] \in JobRecord
  BY DEF JobRecord
<1>7. \A v \in {"ok", "bad", "over"} : [rec EXCEPT !.form = v] \in JobRecord
  BY DEF JobRecord
<1>8. \A v \in SUBSET Paths : [rec EXCEPT !.left = v] \in JobRecord
  BY DEF JobRecord
<1>9. \A v \in Nat : [rec EXCEPT !.edits = v] \in JobRecord
  BY DEF JobRecord
<1>10. \A v \in BOOLEAN : [rec EXCEPT !.failed = v] \in JobRecord
  BY DEF JobRecord
<1>11. \A v \in BOOLEAN : [rec EXCEPT !.high = v] \in JobRecord
  BY DEF JobRecord
<1>12. \A v \in Nat : [rec EXCEPT !.medium = v] \in JobRecord
  BY DEF JobRecord
<1>13. \A v \in Marks \cup {None} : [rec EXCEPT !.tests = v] \in JobRecord
  BY DEF JobRecord
<1>14. \A v \in BOOLEAN : [rec EXCEPT !.wants = v] \in JobRecord
  BY DEF JobRecord
<1>15. \A v \in {4, 5} : [rec EXCEPT !.threshold = v] \in JobRecord
  BY DEF JobRecord
<1>16. \A v \in BOOLEAN : [rec EXCEPT !.llm = v] \in JobRecord
  BY DEF JobRecord
<1>17. \A v \in BOOLEAN : [rec EXCEPT !.heuristic = v] \in JobRecord
  BY DEF JobRecord
<1>18. \A v \in Nat : [rec EXCEPT !.round = v] \in JobRecord
  BY DEF JobRecord
<1>19. \A v \in SUBSET Paths : [rec EXCEPT !.lost = v] \in JobRecord
  BY DEF JobRecord
<1>20. \A v \in Marks \cup {None} : [rec EXCEPT !.gate = v] \in JobRecord
  BY DEF JobRecord
<1>21. \A v \in BOOLEAN : [rec EXCEPT !.fresh = v] \in JobRecord
  BY DEF JobRecord
<1>22. \A v \in Marks : [rec EXCEPT !.inspection = v] \in JobRecord
  BY DEF JobRecord
<1>23. \A v \in Marks : [rec EXCEPT !.security = v] \in JobRecord
  BY DEF JobRecord
<1>24. \A v \in BOOLEAN : [rec EXCEPT !.skipped = v] \in JobRecord
  BY DEF JobRecord
<1> QED
  BY <1>1, <1>2, <1>3, <1>4, <1>5, <1>6, <1>7, <1>8, <1>9, <1>10, <1>11,
     <1>12, <1>13, <1>14, <1>15, <1>16, <1>17, <1>18, <1>19, <1>20, <1>21, <1>22, <1>23,
     <1>24, Zenon

\* A report that nobody uses, and one that is kept.
LEMMA ReportedAs ==
    ASSUME NEW rec \in JobRecord, NEW gate \in Marks
    PROVE  LET x == Smithy!Reported(rec, gate) IN
           /\ x \in JobRecord /\ x.kind = rec.kind /\ x.pc = "done" /\ x.gate = gate /\ x.left = {}
           /\ \/ /\ gate = "FAIL" /\ rec.kind \in {"review", "evidence", "holdout"}
                 /\ x.root = Base /\ x.seen = {}
              \/ /\ Kin(x, rec) /\ x.seen = rec.seen /\ x.inspection = rec.inspection
                 /\ x.security = rec.security /\ x.skipped = rec.skipped
                 /\ x.llm = rec.llm /\ x.heuristic = rec.heuristic
<1> DEFINE i == [Smithy!Idle EXCEPT !.kind = rec.kind, !.pc = "done", !.gate = gate]
           u == [rec EXCEPT !.pc = "done", !.gate = gate, !.stage = 0, !.edits = 0]
           v == [u EXCEPT !.medium = 0, !.high = FALSE, !.round = 1]
           w == [v EXCEPT !.left = {}, !.form = "ok", !.threshold = 4, !.wants = FALSE]
           x == Smithy!Reported(rec, gate)
<1>0. /\ "done" \in Places /\ 0 \in 0 .. 4 /\ 0 \in Nat /\ 1 \in Nat /\ FALSE \in BOOLEAN
      /\ {} \in SUBSET Paths /\ "ok" \in {"ok", "bad", "over"} /\ 4 \in {4, 5}
      /\ gate \in Marks \cup {None}
  BY DEF Places
<1>1. x = IF gate = "FAIL" /\ rec.kind \in {"review", "evidence", "holdout"} THEN i ELSE w
  BY Zenon DEF Smithy!Reported
<1>2. i \in JobRecord /\ i.kind = rec.kind /\ i.pc = "done" /\ i.gate = gate /\ i.root = Base
      /\ i.seen = {} /\ i.left = {}
  <2>1. rec.kind \in Works /\ gate \in Marks \cup {None}
    BY DEF JobRecord
  <2>2. i \in JobRecord
    BY <2>1, <1>0, IdleRecord, Setters, Zenon
  <2>3. i.kind = rec.kind /\ i.pc = "done" /\ i.gate = gate /\ i.root = Base /\ i.seen = {} /\ i.left = {}
    BY DEF Smithy!Idle
  <2> QED
    BY <2>2, <2>3
<1>3. u \in JobRecord
  BY <1>0, Setters, Zenon
<1>4. /\ Kin(u, rec) /\ Verdicts(u, rec) /\ u.pc = "done" /\ u.gate = gate /\ u.seen = rec.seen
      /\ u.llm = rec.llm /\ u.heuristic = rec.heuristic
  BY <1>3 DEF JobRecord, Kin, Verdicts
<1> HIDE DEF u
<1>5. v \in JobRecord
  BY <1>0, <1>3, Setters, Zenon
<1>6. /\ Kin(v, u) /\ v.inspection = u.inspection /\ v.security = u.security
      /\ v.skipped = u.skipped /\ v.pc = "done" /\ v.gate = gate /\ v.seen = u.seen
      /\ v.llm = u.llm /\ v.heuristic = u.heuristic
  BY <1>3, <1>4, <1>5 DEF JobRecord, Kin
<1> HIDE DEF v
<1>7. w \in JobRecord
  BY <1>0, <1>5, Setters, Zenon
<1>8. /\ Kin(w, v) /\ w.inspection = v.inspection /\ w.security = v.security
      /\ w.skipped = v.skipped /\ w.pc = "done" /\ w.gate = gate /\ w.seen = v.seen /\ w.left = {}
      /\ w.llm = v.llm /\ w.heuristic = v.heuristic
  BY <1>5, <1>6, <1>7 DEF JobRecord, Kin
<1> HIDE DEF w, i
<1>9. CASE gate = "FAIL" /\ rec.kind \in {"review", "evidence", "holdout"}
  BY <1>1, <1>2, <1>9
<1>10. CASE ~(gate = "FAIL" /\ rec.kind \in {"review", "evidence", "holdout"})
  <2>1. x = w
    BY <1>1, <1>10
  <2>2. /\ Kin(w, rec) /\ w.seen = rec.seen /\ w.inspection = rec.inspection
        /\ w.security = rec.security /\ w.skipped = rec.skipped
        /\ w.llm = rec.llm /\ w.heuristic = rec.heuristic
    BY <1>4, <1>6, <1>8 DEF Kin, Verdicts
  <2> QED
    BY <2>1, <2>2, <1>7, <1>8, Zenon DEF Kin
<1> QED
  BY <1>9, <1>10

\* What a report that says PASS rests on.
Earned(rec, gate) ==
    gate = "PASS" =>
        /\ rec.kind = "review" => Smithy!Modelled(rec) \/ ~rec.high
        /\ rec.kind \in Gated => rec.inspection = "PASS" /\ rec.security = "PASS"

\* A report keeps what its job knows, or nothing at all.
LEMMA ReportedKnows ==
    ASSUME NEW rec \in JobRecord, rec.pc = "verdict", NEW gate \in Marks, Earned(rec, gate)
    PROVE  LET x == Smithy!Reported(rec, gate) IN
           /\ x \in JobRecord /\ x.kind = rec.kind /\ x.pc = "done" /\ x.left = {}
           /\ \/ Kin(x, rec) /\ \A files \in Files : Knows(rec, files) => Knows(x, files)
              \/ rec.kind \notin Gated /\ x.root = Base /\ \A files : Knows(x, files)
<1> DEFINE x == Smithy!Reported(rec, gate)
<1>1. /\ x \in JobRecord /\ x.kind = rec.kind /\ x.pc = "done" /\ x.gate = gate /\ x.left = {}
      /\ \/ /\ gate = "FAIL" /\ rec.kind \in {"review", "evidence", "holdout"}
            /\ x.root = Base /\ x.seen = {}
         \/ /\ Kin(x, rec) /\ x.seen = rec.seen /\ x.inspection = rec.inspection
            /\ x.security = rec.security /\ x.skipped = rec.skipped
            /\ x.llm = rec.llm /\ x.heuristic = rec.heuristic
  BY ReportedAs
<1> HIDE DEF x
<1>2. CASE gate = "FAIL" /\ rec.kind \in {"review", "evidence", "holdout"} /\ x.root = Base /\ x.seen = {}
  <2>1. ASSUME NEW files PROVE Knows(x, files)
    <3>1. x.kind = "review" => ~Ok(x)
      BY <1>1, <1>2 DEF Ok
    <3>2. x.kind = "review" => Gates(x, files)
      BY <1>1, <3>1 DEF Gates, InspectBegan, ScanRead, InspectRead, ReadBy
    <3>3. x.kind \notin Gated
      BY <1>1, <1>2 DEF Gated
    <3> QED
      BY <1>1, <1>2, <3>2, <3>3 DEF Knows
  <2>2. rec.kind \notin Gated
    BY <1>2 DEF Gated
  <2> QED
    BY <1>1, <1>2, <2>1, <2>2, Zenon DEF x
<1>3. CASE /\ Kin(x, rec) /\ x.seen = rec.seen /\ x.inspection = rec.inspection
           /\ x.security = rec.security /\ x.skipped = rec.skipped
           /\ x.llm = rec.llm /\ x.heuristic = rec.heuristic
  <2>1. ASSUME NEW files \in Files, Knows(rec, files) PROVE Knows(x, files)
    <3>1. x.paths = rec.paths /\ rec.paths \subseteq Paths
      BY <1>3 DEF Kin, JobRecord
    <3>2. ASSUME rec.kind \in Gated \cup {"review"} PROVE Gates(x, files)
      <4>1. Gates(rec, files)
        BY <2>1, <3>2 DEF Knows
      <4>2. InspectBegan(rec) /\ ScanRead(rec) = rec.paths /\ InspectRead(rec) = rec.paths
        BY DEF InspectBegan, ScanRead, InspectRead, ReadBy
      <4>3. Ok(x) => ScanOk(rec) /\ InspectOk(rec)
        BY <1>1, <1>3, <3>2 DEF Ok, ScanOk, InspectOk, Smithy!Modelled, Gated, Earned
      <4>4. ASSUME Ok(x)
            PROVE  rec.paths # {} /\ \A p \in rec.paths : files[p] \in Smithy!Good
        <5>1. ~Whole(rec)
          BY <4>1, <4>2, <4>3, <4>4 DEF Gates
        <5>2. \A p \in rec.paths : files[p] \notin {"danger", "absent", "opaque", "broken"}
          BY <4>1, <4>2, <4>3, <4>4, <5>1 DEF Gates
        <5>3. \A p \in rec.paths : files[p] \in FileKinds
          BY <3>1 DEF Files
        <5> QED
          BY <5>1, <5>2, <5>3 DEF Whole, FileKinds, Smithy!Good
      <4> QED
        BY <1>1, <3>1, <4>4 DEF Gates, InspectBegan, ScanRead, InspectRead, ReadBy
    <3> QED
      BY <1>1, <1>3, <2>1, <3>2 DEF Knows
  <2> QED
    BY <1>1, <1>3, <2>1, Zenon DEF x
<1> QED
  BY <1>1, <1>2, <1>3, Zenon DEF x

\* A review begins anew.
LEMMA AfreshFields ==
    ASSUME NEW rec \in JobRecord
    PROVE  LET x == Smithy!Afresh(rec) IN
           Kin(x, rec) /\ x.seen = rec.seen /\ x.round = rec.round
<1> DEFINE x == Smithy!Afresh(rec)
<1>0. /\ "PASS" \in Marks /\ FALSE \in BOOLEAN /\ 0 \in Nat /\ None \in Marks \cup {None}
  BY DEF Marks
<1>1. x \in JobRecord
  BY <1>0, Setters, Zenon DEF Smithy!Afresh
<1> QED
  BY <1>1 DEF JobRecord, Kin, Smithy!Afresh

\* The next round of a review, or its heuristics, is about the same root and files.
LEMMA RedoneFields ==
    ASSUME NEW rec \in JobRecord, NEW n \in Nat, NEW h \in BOOLEAN
    PROVE  LET x == [rec EXCEPT !.round = n, !.heuristic = h] IN Kin(x, rec) /\ x.seen = rec.seen
<1> DEFINE x == [rec EXCEPT !.round = n, !.heuristic = h]
<1>1. x \in JobRecord
  BY Setters, Zenon
<1> QED
  BY <1>1 DEF JobRecord, Kin

\* A round that falls back on the heuristics has forgotten the findings of the model's.
LEMMA HeuristicsFields ==
    ASSUME NEW rec \in JobRecord
    PROVE  LET x == [Smithy!Afresh(rec) EXCEPT !.heuristic = TRUE] IN Kin(x, rec)
<1> DEFINE y == Smithy!Afresh(rec)
           x == [y EXCEPT !.heuristic = TRUE]
<1>1. y \in JobRecord /\ Kin(y, rec)
  BY AfreshFields DEF Kin
<1> HIDE DEF y
<1>2. x \in JobRecord
  BY <1>1, Setters, Zenon
<1>3. Kin(x, y)
  BY <1>1, <1>2 DEF JobRecord, Kin
<1> HIDE DEF x
<1>4. Kin(x, rec)
  BY <1>1, <1>3 DEF Kin
<1> QED
  BY <1>4, Zenon DEF x, y

\* A check of an existing root, and an agent in a worktree of its own.
CheckOf(kind, r, paths, form, wants, threshold, llm) ==
    [Smithy!Idle EXCEPT
        !.kind = kind, !.root = r, !.paths = paths, !.form = form, !.wants = wants,
        !.threshold = threshold, !.llm = llm]

LaunchOf(j, kind, b, edits, wants, pc, failed) ==
    [Smithy!Idle EXCEPT
        !.kind = kind, !.root = j, !.branch = b, !.wants = wants, !.edits = edits,
        !.pc = pc, !.failed = failed]

Requested(kind, r, paths, form, wants, threshold, llm) ==
    /\ kind \in Works /\ r \in {Base} \cup Jobs /\ paths \in SUBSET Paths
    /\ form \in {"ok", "bad", "over"} /\ wants \in BOOLEAN /\ threshold \in {4, 5} /\ llm \in BOOLEAN

\* A job on an existing root,
LEMMA CheckFields ==
    ASSUME NEW kind, NEW r, NEW paths, NEW form, NEW wants, NEW threshold, NEW llm,
           Requested(kind, r, paths, form, wants, threshold, llm)
    PROVE  LET x == CheckOf(kind, r, paths, form, wants, threshold, llm)
           IN  x \in JobRecord /\ x.kind = kind /\ x.root = r /\ x.seen = {}
<1> DEFINE y == [Smithy!Idle EXCEPT !.kind = kind, !.root = r, !.paths = paths]
           x == [y EXCEPT !.form = form, !.wants = wants, !.threshold = threshold, !.llm = llm]
<1>1. y \in JobRecord
  BY IdleRecord, Setters, Zenon DEF Requested
<1>2. y.kind = kind /\ y.root = r /\ y.seen = {}
  BY DEF Smithy!Idle
<1> HIDE DEF y
<1>3. x \in JobRecord
  BY <1>1, Setters, Zenon DEF Requested
<1>4. x.kind = y.kind /\ x.root = y.root /\ x.seen = y.seen
  BY <1>1 DEF JobRecord
<1> HIDE DEF x
<1>5. x \in JobRecord /\ x.kind = kind /\ x.root = r /\ x.seen = {}
  BY <1>2, <1>3, <1>4
<1> QED
  BY <1>5, Zenon DEF x, y, CheckOf

\* and one on a worktree of its own, begin with an empty report.
LEMMA LaunchFields ==
    ASSUME NEW j \in Jobs, NEW kind \in Smithy!CodeAgents, NEW b \in Branches, NEW edits \in Nat,
           NEW wants \in BOOLEAN, NEW pc \in Places, NEW failed \in BOOLEAN
    PROVE  LET x == LaunchOf(j, kind, b, edits, wants, pc, failed)
           IN  /\ x \in JobRecord /\ x.kind = kind /\ x.root = j /\ x.branch = b /\ x.pc = pc
               /\ x.seen = {} /\ x.left = {}
<1> DEFINE y == [Smithy!Idle EXCEPT !.kind = kind, !.root = j, !.branch = b]
           x == [y EXCEPT !.wants = wants, !.edits = edits, !.pc = pc, !.failed = failed]
<1>0. kind \in Works /\ j \in {Base} \cup Jobs /\ b \in Branches \cup {None}
  BY DEF Works, Smithy!CodeAgents
<1>1. y \in JobRecord
  BY <1>0, IdleRecord, Setters, Zenon
<1>2. y.kind = kind /\ y.root = j /\ y.branch = b /\ y.seen = {} /\ y.left = {}
  BY DEF Smithy!Idle
<1> HIDE DEF y
<1>3. x \in JobRecord
  BY <1>1, Setters, Zenon
<1>4. /\ x.kind = y.kind /\ x.root = y.root /\ x.branch = y.branch /\ x.seen = y.seen /\ x.pc = pc
      /\ x.left = y.left
  BY <1>1 DEF JobRecord
<1> HIDE DEF x
<1>5. /\ x \in JobRecord /\ x.kind = kind /\ x.root = j /\ x.branch = b /\ x.pc = pc
      /\ x.seen = {} /\ x.left = {}
  BY <1>2, <1>3, <1>4
<1> QED
  BY <1>5, Zenon DEF x, y, LaunchOf

(* Steps: a job that moves, and those that look on.                        *)

\* A job that a step leaves alone, or that it disturbs.
Like(x, rec) ==
    /\ x \in JobRecord
    /\ x.kind = rec.kind /\ x.root = rec.root /\ x.branch = rec.branch /\ x.pc = rec.pc
    /\ x.stage = rec.stage /\ x.left = rec.left /\ (x.fresh => x = rec)

\* A job that nobody touches is like itself.
LEMMA LikeItself == \A rec \in JobRecord : Like(rec, rec)
  BY DEF Like

\* A disturbed job knows no longer what is on disk, and nothing else changes.
LEMMA DisturbedLike ==
    ASSUME NEW rec \in JobRecord
    PROVE  Like([rec EXCEPT !.fresh = FALSE], rec) /\ ~[rec EXCEPT !.fresh = FALSE].fresh
<1> DEFINE x == [rec EXCEPT !.fresh = FALSE]
<1>1. x \in JobRecord
  BY Setters
<1> QED
  BY <1>1 DEF JobRecord, Like

\* A write disturbs all jobs on its root but the writer's.
LEMMA DisturbedJobs ==
    ASSUME job \in [Jobs -> JobRecord], NEW r, NEW j
    PROVE  /\ Smithy!Disturbed(r, j) \in [Jobs -> JobRecord]
           /\ \A k \in Jobs :
                 /\ Like(Smithy!Disturbed(r, j)[k], job[k])
                 /\ k # j /\ job[k].root = r /\ job[k].pc # "idle" =>
                        ~Smithy!Disturbed(r, j)[k].fresh
                 /\ k = j => Smithy!Disturbed(r, j)[k] = job[k]
<1>1. ASSUME NEW k \in Jobs
      PROVE  /\ Like(Smithy!Disturbed(r, j)[k], job[k])
             /\ k # j /\ job[k].root = r /\ job[k].pc # "idle" =>
                    ~Smithy!Disturbed(r, j)[k].fresh
             /\ k = j => Smithy!Disturbed(r, j)[k] = job[k]
  <2> DEFINE rec == job[k]
             y == [rec EXCEPT !.fresh = FALSE]
             hit == k # j /\ job[k].root = r /\ job[k].pc # "idle"
  <2>1. rec \in JobRecord
    OBVIOUS
  <2>2. Smithy!Disturbed(r, j)[k] = IF hit THEN y ELSE rec
    BY DEF Smithy!Disturbed
  <2>3. Like(y, rec) /\ ~y.fresh /\ Like(rec, rec)
    BY <2>1, DisturbedLike, LikeItself
  <2> HIDE DEF y
  <2> QED
    BY <2>2, <2>3
<1>2. \A k \in Jobs : Smithy!Disturbed(r, j)[k] \in JobRecord
  BY <1>1 DEF Like
<1>3. Smithy!Disturbed(r, j) \in [Jobs -> JobRecord]
  <2>1. Smithy!Disturbed(r, j) = [k \in Jobs |-> Smithy!Disturbed(r, j)[k]]
    BY Zenon DEF Smithy!Disturbed
  <2> QED
    BY <2>1, <1>2
<1> QED
  BY <1>1, <1>3

\* A disturbed job stands where it stood.
LEMMA LikePlaced ==
    ASSUME NEW j, NEW rec, NEW x, Like(x, rec), Placed(j, rec)
    PROVE  Placed(j, x)
  BY DEF Like, Placed, Fit

\* What a step must show: the job that moves keeps its own part, and nothing that others
\* rely on changes under them.
LEMMA Framed ==
    ASSUME ForgeInv, NEW j, ForgeType', TreeInv',
           \A k \in Jobs : k # j => Like(job'[k], job[k]),
           \A k \in Jobs : k # j /\ job'[k].fresh /\ job[k].pc # "idle" /\ tree'[job[k].root] # None =>
               /\ tree'[job[k].root] = tree[job[k].root]
               /\ job[k].kind = "external" => tips'[job[k].branch] = tips[job[k].branch],
           j \in Jobs => Placed(j, job'[j]) /\ KnowsJob(j)'
    PROVE  ForgeInv'
<1>1. \A k \in Jobs : Placed(k, job'[k])
  BY LikePlaced DEF ForgeInv
<1>2. ASSUME NEW k \in Jobs, k # j PROVE KnowsJob(k)'
  <2>1. SUFFICES ASSUME job'[k].pc # "idle", job'[k].fresh, tree'[job'[k].root] # None
                 PROVE  /\ Knows(job'[k], tree'[job'[k].root])
                        /\ job'[k].kind = "external" =>
                               Covered(job'[k], tree'[job'[k].root], tips'[job'[k].branch])
    BY DEF KnowsJob, Knows, Covered, Gates, Ok
  <2>2. job'[k] = job[k]
    BY <1>2, <2>1 DEF Like
  <2>3. KnowsJob(k)
    BY DEF ForgeInv, KnowsInv
  <2> QED
    BY <1>2, <2>1, <2>2, <2>3, Zenon DEF KnowsJob
<1> QED
  BY <1>1, <1>2 DEF ForgeInv, KnowsInv

\* A job moves on and changes nothing else, or at its end removes its worktree.
Stays(x, rec) ==
    /\ x \in JobRecord /\ x.kind = rec.kind
    /\ \/ x.root = rec.root /\ x.branch = rec.branch /\ (x.fresh => rec.fresh)
       \/ x.root = Base /\ x.kind \notin Smithy!CodeAgents

\* A step of one job that keeps its root and knows what it says keeps the invariant.
LEMMA JobMoves ==
    ASSUME ForgeInv, NEW j \in Jobs, NEW x, Stays(x, job[j]), Fit(x),
           job' = [job EXCEPT ![j] = x], head' = head, tips' = tips, writes' \in Nat,
           tree' = tree \/ (tree' = [tree EXCEPT ![j] = None] /\ x.pc = "done"),
           job[j].pc # "idle", x.pc # "idle", x.pc \in {"edit", "agent"} => x.pc = job[j].pc,
           x.fresh /\ tree[x.root] # None =>
               /\ Knows(x, tree[x.root])
               /\ x.kind = "external" => Covered(x, tree[x.root], tips[x.branch])
    PROVE  ForgeInv' /\ Smithy!Isolation
<1>0. \A r \in {Base} \cup Jobs : tree'[r] = tree[r] \/ (r = j /\ tree'[r] = None /\ x.pc = "done")
  BY DEF ForgeInv, ForgeType
<1>1. ForgeType' /\ job'[j] = x /\ \A k \in Jobs : k # j => job'[k] = job[k]
  <2>1. tree' \in [{Base} \cup Jobs -> Files \cup {None}] /\ tree'[Base] \in Files
    BY ForgeAssumption DEF ForgeInv, ForgeType
  <2> QED
    BY <2>1 DEF ForgeInv, ForgeType, Stays
<1>2. \A k \in Jobs : k # j => Like(job'[k], job[k])
  BY <1>1, LikeItself DEF ForgeInv, ForgeType
<1>3. Placed(j, x)
  BY DEF ForgeInv, Placed, Fit, Stays, Smithy!CodeAgents
<1>4. TreeInv'
  <2>1. job[j] \in JobRecord /\ x.kind = job[j].kind
    BY DEF ForgeInv, ForgeType, Stays
  <2>2. \A i \in Jobs : tree'[i] # None => job'[i].kind \in Smithy!CodeAgents /\ job'[i].pc # "idle"
    BY <1>0, <1>1, <2>1 DEF ForgeInv, TreeInv
  <2>3. \A i \in Jobs : job'[i].pc \in {"edit", "agent"} => tree'[i] # None
    BY <1>0, <1>1 DEF ForgeInv, TreeInv
  <2>4. \A i \in Jobs : tree'[i] # None => job'[i].branch = job[i].branch
    BY <1>1, <2>2 DEF Stays
  <2>5. \A i, k \in Jobs : tree'[i] # None /\ tree'[k] # None /\ job'[i].branch = job'[k].branch => i = k
    BY <1>0, <2>4 DEF ForgeInv, TreeInv
  <2>6. \A k \in Jobs : job[k].kind \in Smithy!CodeAgents /\ job[k].pc # "idle" =>
                        job'[k].kind \in Smithy!CodeAgents /\ job'[k].pc # "idle"
    BY <1>1, <2>1
  <2>7. \A i, k \in Jobs : job'[i].pc # "idle" /\ job'[i].fresh /\ job'[i].root = k /\ i # k =>
            job[i].pc # "idle" /\ job[i].fresh /\ job[i].root = k
    BY <1>1, ForgeAssumption DEF Stays
  <2>8. \A i, k \in Jobs : job'[i].pc # "idle" /\ job'[i].fresh /\ job'[i].root = k /\ i # k =>
            job'[k].kind \in Smithy!CodeAgents /\ job'[k].pc # "idle"
    BY <2>6, <2>7 DEF ForgeInv, TreeInv
  <2> QED
    BY <2>2, <2>3, <2>5, <2>8 DEF TreeInv
<1>5. KnowsJob(j)'
  <2>1. x.root \in {Base} \cup Jobs
    BY DEF Stays, JobRecord
  <2>2. x.fresh /\ tree'[x.root] # None =>
            /\ Knows(x, tree'[x.root])
            /\ x.kind = "external" => Covered(x, tree'[x.root], tips'[x.branch])
    BY <1>0, <2>1
  <2> QED
    BY <1>1, <2>2, Zenon DEF KnowsJob
<1>6. ForgeInv'
  <2>1. \A k \in Jobs : tree'[job[k].root] # None => tree'[job[k].root] = tree[job[k].root]
    BY <1>0 DEF ForgeInv, ForgeType, JobRecord
  <2> QED
    BY <1>1, <1>2, <1>3, <1>4, <1>5, <2>1, Framed
<1>7. Smithy!Isolation
  BY <1>0 DEF Smithy!Isolation
<1> QED
  BY <1>6, <1>7

\* What the invariant says of one job.
LEMMA JobFacts ==
    ASSUME ForgeInv, NEW j \in Jobs
    PROVE  /\ job[j] \in JobRecord /\ Placed(j, job[j]) /\ Fit(job[j]) /\ KnowsJob(j)
           /\ job[j].root \in {Base} \cup Jobs
           /\ \A r \in {Base} \cup Jobs : tree[r] # None => tree[r] \in Files
           /\ head \in Files /\ writes \in Nat
  BY DEF ForgeInv, ForgeType, Placed, KnowsInv, JobRecord

\* The same for a step that changes no file.
LEMMA KinMoves ==
    ASSUME ForgeInv, NEW j \in Jobs, NEW x, Kin(x, job[j]), Fit(x),
           job' = [job EXCEPT ![j] = x], tree' = tree, head' = head, tips' = tips, writes' \in Nat,
           job[j].pc \notin {"idle", "agent"}, x.pc \notin {"idle", "edit", "agent"},
           tree[job[j].root] # None /\ Knows(job[j], tree[job[j].root]) =>
               Knows(x, tree[job[j].root])
    PROVE  ForgeInv' /\ Smithy!Isolation
<1>1. Stays(x, job[j])
  BY DEF Stays, Kin
<1>2. x.root = job[j].root /\ x.branch = job[j].branch /\ x.fresh = job[j].fresh
      /\ x.kind = job[j].kind /\ x.lost = job[j].lost /\ x.paths = job[j].paths
  BY DEF Kin
<1>3. ASSUME x.fresh, tree[x.root] # None
      PROVE  /\ Knows(x, tree[x.root])
             /\ x.kind = "external" => Covered(x, tree[x.root], tips[x.branch])
  <2>1. /\ Knows(job[j], tree[job[j].root])
        /\ job[j].kind = "external" => Covered(job[j], tree[job[j].root], tips[job[j].branch])
    BY <1>2, <1>3, JobFacts DEF KnowsJob
  <2> QED
    BY <1>2, <1>3, <2>1 DEF Covered
<1> QED
  BY <1>1, <1>3, JobMoves

\* Reading a file keeps the invariant.
LEMMA ReadStep ==
    ASSUME ForgeInv, NEW j \in Jobs, NEW p \in Paths, Smithy!Read(j, p) \/ Smithy!ReadFails(j, p)
    PROVE  ForgeInv' /\ Smithy!Isolation
<1> DEFINE rec == job[j]
<1>1. PICK k \in FileKinds :
          /\ Smithy!ReadAs(j, p, k)
          /\ tree[rec.root] # None => k = tree[rec.root][p] \/ k = "absent"
  <2>1. CASE Smithy!Read(j, p)
    <3>1. Smithy!ReadAs(j, p, Smithy!File(rec.root, p))
      BY <2>1 DEF Smithy!Read
    <3>2. /\ Smithy!File(rec.root, p) \in FileKinds
          /\ tree[rec.root] # None => Smithy!File(rec.root, p) = tree[rec.root][p]
      BY JobFacts DEF Smithy!File, Files, FileKinds
    <3> QED
      BY <3>1, <3>2
  <2>2. CASE Smithy!ReadFails(j, p)
    BY <2>2 DEF Smithy!ReadFails, FileKinds
  <2> QED
    BY <2>1, <2>2
<1>2. writes' \in Nat
  <2>1. writes \in Nat
    BY JobFacts
  <2>2. writes' = writes \/ writes' = writes + 1
    BY DEF Smithy!Read, Smithy!ReadFails, Smithy!Written
  <2> QED
    BY <2>1, <2>2
<1> DEFINE x == AfterRead(rec, p, k)
<1>3. /\ p \in rec.left /\ job' = [job EXCEPT ![j] = x]
      /\ tree' = tree /\ head' = head /\ tips' = tips
  BY <1>1, Zenon DEF Smithy!ReadAs, AfterRead
<1>4. rec \in JobRecord /\ Fit(rec)
  BY JobFacts
<1>5. rec.pc \in {"inspect", "scan", "lint", "hash"}
  BY <1>3, <1>4 DEF Fit
<1>6. /\ Kin(x, rec) /\ x.pc = rec.pc /\ Fit(x)
      /\ \A files : Knows(rec, files) /\ (k = files[p] \/ k = "absent") => Knows(x, files)
  <2> HIDE DEF rec
  <2> QED
    BY <1>3, <1>4, <1>5, ReadKnows, Zenon
<1> HIDE DEF x
<1> QED
  BY <1>1, <1>2, <1>3, <1>5, <1>6, KinMoves

\* The end of a stage keeps the invariant.
LEMMA StageEndsStep ==
    ASSUME ForgeInv, NEW j \in Jobs, Smithy!StageEnds(j)
    PROVE  ForgeInv' /\ Smithy!Isolation
<1> DEFINE rec == job[j]
           x == Smithy!Advanced(rec)
<1>1. /\ rec.pc \in {"inspect", "scan", "lint", "hash"} /\ rec.left = {}
      /\ job' = [job EXCEPT ![j] = x] /\ tree' = tree /\ head' = head /\ tips' = tips
      /\ writes' = writes
  BY DEF Smithy!StageEnds
<1>2. rec \in JobRecord /\ Fit(rec) /\ writes \in Nat
  BY JobFacts
<1>3. /\ Kin(x, rec) /\ x.pc \in Stages \cup {"verdict"} /\ Fit(x)
      /\ \A files : Knows(rec, files) => Knows(x, files)
  <2>1. rec.pc \in Stages
    BY <1>1 DEF Stages
  <2> HIDE DEF rec
  <2> QED
    BY <1>1, <1>2, <2>1, AdvancedKnows, Zenon
<1> HIDE DEF x
<1>4. x.pc \notin {"idle", "edit", "agent"}
  BY <1>3 DEF Stages
<1> QED
  BY <1>1, <1>2, <1>3, <1>4, KinMoves

\* A stage on a copy has its outcome, and the job goes on.
LEMMA OutcomeStep ==
    ASSUME ForgeInv, NEW j \in Jobs, NEW y, Keeps(y, job[j]), y.left = job[j].left,
           job[j].pc \in {"test", "command", "scenario"},
           job' = [job EXCEPT ![j] = Smithy!Advanced(y)],
           tree' = tree, head' = head, tips' = tips, writes' = writes,
           tree[job[j].root] # None /\ Knows(job[j], tree[job[j].root]) =>
               Knows(y, tree[job[j].root])
    PROVE  ForgeInv' /\ Smithy!Isolation
<1> DEFINE rec == job[j]
           x == Smithy!Advanced(y)
<1>1. rec \in JobRecord /\ Fit(rec) /\ writes \in Nat
  BY JobFacts
<1>2. y \in JobRecord /\ Fit(y) /\ y.pc \in Stages /\ y.pc \notin {"inspect", "scan", "lint", "hash"}
  BY <1>1 DEF Keeps, Kin, Fit, Stages
<1>3. /\ Kin(x, y) /\ x.pc \in Stages \cup {"verdict"} /\ Fit(x)
      /\ \A files : Knows(y, files) => Knows(x, files)
  BY <1>2, AdvancedKnows, Zenon
<1> HIDE DEF x
<1>4. x.pc \notin {"idle", "edit", "agent"} /\ Kin(x, rec)
  BY <1>3 DEF Stages, Kin, Keeps
<1> QED
  BY <1>1, <1>3, <1>4, KinMoves DEF x

\* A gate raises: it fails, or what it has found is dropped.
Raised(rec, i, s) == [rec EXCEPT !.left = {}, !.inspection = i, !.security = s]

\* An agent's gate that raised has failed, and nothing else has changed.
LEMMA RaisedFields ==
    ASSUME NEW rec \in JobRecord, NEW i \in Marks, NEW s \in Marks
    PROVE  LET x == Raised(rec, i, s) IN
           /\ Keeps(x, rec) /\ x.left = {} /\ x.seen = rec.seen /\ x.skipped = rec.skipped
           /\ x.inspection = i /\ x.security = s
<1> DEFINE x == Raised(rec, i, s)
<1>1. x \in JobRecord
  <2>1. {} \in SUBSET Paths
    OBVIOUS
  <2> QED
    BY <2>1, Setters, Zenon DEF Raised
<1> QED
  BY <1>1 DEF Raised, JobRecord, Keeps, Kin

\* A review's gate that raised is marked as skipped.
LEMMA DroppedFields ==
    ASSUME NEW rec \in JobRecord, NEW h \in BOOLEAN, NEW m \in Nat
    PROVE  LET x == [rec EXCEPT !.left = {}, !.skipped = TRUE, !.high = h, !.medium = m] IN
           Keeps(x, rec) /\ x.left = {} /\ x.skipped
<1> DEFINE x == [rec EXCEPT !.left = {}, !.skipped = TRUE, !.high = h, !.medium = m]
<1>1. x \in JobRecord
  <2>1. {} \in SUBSET Paths /\ TRUE \in BOOLEAN
    OBVIOUS
  <2> QED
    BY <2>1, Setters, Zenon
<1> QED
  BY <1>1 DEF JobRecord, Keeps, Kin

\* After a gate has raised, a job knows what it knew, for it has failed or claims nothing.
LEMMA RaisedKnows ==
    ASSUME NEW rec, NEW x, Keeps(x, rec), rec.pc \in {"inspect", "scan"},
           x.kind \in Gated \cup {"review"}, NEW files, Knows(rec, files),
           \/ x.skipped
           \/ /\ rec.kind \in Gated /\ x.skipped = rec.skipped
              /\ IF rec.pc = "inspect" THEN x.inspection = "FAIL" /\ x.security = rec.security
                 ELSE x.security = "FAIL" /\ x.inspection = rec.inspection
    PROVE  Knows(x, files)
<1>1. /\ x.kind = rec.kind /\ x.paths = rec.paths /\ x.pc = rec.pc /\ (Whole(x) <=> Whole(rec))
      /\ x.kind \notin {"evidence", "holdout"}
  BY DEF Keeps, Kin, Whole, Gated
<1> SUFFICES Gates(x, files)
  BY <1>1 DEF Knows
<1>2. Gates(rec, files)
  BY <1>1 DEF Knows
<1>3. CASE x.skipped
  BY <1>1, <1>3 DEF Gates, InspectOk, ScanOk, Ok
<1>4. CASE ~x.skipped /\ rec.pc = "inspect"
  BY <1>1, <1>2, <1>4 DEF Gates, InspectOk, ScanOk, ScanRead, ReadBy, Ok, Gated
<1>5. CASE ~x.skipped /\ rec.pc = "scan"
  <2>1. rec.kind # "review" /\ (InspectOk(x) => InspectOk(rec)) /\ ~ScanOk(x)
    BY <1>1, <1>5 DEF InspectOk, ScanOk, Gated
  <2>2. InspectRead(x) = InspectRead(rec) /\ (InspectBegan(x) <=> InspectBegan(rec))
    BY <1>1, <1>5, <2>1 DEF InspectRead, ReadBy, InspectBegan
  <2> QED
    BY <1>1, <1>2, <1>5, <2>1, <2>2 DEF Gates
<1> QED
  BY <1>3, <1>4, <1>5

\* The job goes on without what its gate has found, or with a failed gate.
LEMMA RaisedStep ==
    ASSUME ForgeInv, NEW j \in Jobs, NEW y, Keeps(y, job[j]), y.left = {},
           job[j].pc \in {"inspect", "scan"},
           job' = [job EXCEPT ![j] = Smithy!Advanced(y)],
           tree' = tree, head' = head, tips' = tips, writes' = writes,
           \A files : Knows(job[j], files) => Knows(y, files)
    PROVE  ForgeInv' /\ Smithy!Isolation
<1> DEFINE rec == job[j]
           x == Smithy!Advanced(y)
<1>1. rec \in JobRecord /\ Fit(rec) /\ writes \in Nat
  BY JobFacts
<1>2. y \in JobRecord /\ Fit(y) /\ y.pc \in Stages
  BY <1>1 DEF Keeps, Kin, Fit, Stages
<1>3. /\ Kin(x, y) /\ x.pc \in Stages \cup {"verdict"} /\ Fit(x)
      /\ \A files : Knows(y, files) => Knows(x, files)
  BY <1>2, AdvancedKnows, Zenon
<1> HIDE DEF x
<1>4. x.pc \notin {"idle", "edit", "agent"} /\ Kin(x, rec)
  BY <1>3 DEF Stages, Kin, Keeps
<1> QED
  BY <1>1, <1>3, <1>4, KinMoves DEF x

\* A job is gone, and nobody was in its worktree.
LEMMA Vanishes ==
    ASSUME ForgeInv, NEW j \in Jobs, job[j].kind = "pipeline",
           job' = [job EXCEPT ![j] = Smithy!Idle],
           tree' = tree, head' = head, tips' = tips, writes' = writes
    PROVE  ForgeInv' /\ Smithy!Isolation
<1>1. /\ ForgeType' /\ job'[j].pc = "idle" /\ Fit(job'[j]) /\ job[j].kind \notin Smithy!CodeAgents
      /\ \A k \in Jobs : k # j => job'[k] = job[k]
  <2>1. Fit(Smithy!Idle) /\ Smithy!Idle.pc = "idle"
    BY DEF Fit, Smithy!Idle, Stages
  <2> QED
    BY <2>1, IdleRecord DEF ForgeInv, ForgeType, Smithy!CodeAgents
<1>2. \A k \in Jobs : k # j => Like(job'[k], job[k])
  BY <1>1, LikeItself DEF ForgeInv, ForgeType
<1>3. Placed(j, job'[j]) /\ KnowsJob(j)'
  BY <1>1 DEF Placed, KnowsJob
<1>4. TreeInv'
  <2>1. \A i \in Jobs : tree[i] # None => i # j
    BY <1>1 DEF ForgeInv, TreeInv
  <2>2. \A i \in Jobs : job[i].pc \in {"edit", "agent"} => i # j
    BY <2>1 DEF ForgeInv, TreeInv
  <2> QED
    BY <1>1, <2>1, <2>2 DEF ForgeInv, TreeInv
<1>5. Smithy!Isolation
  BY DEF Smithy!Isolation
<1> QED
  BY <1>1, <1>2, <1>3, <1>4, <1>5, Framed

\* The tests keep the invariant.
LEMMA TestsStep ==
    ASSUME ForgeInv, NEW j \in Jobs, NEW outcome \in {"PASS", "FAIL", "raises"},
           Smithy!Tests(j, outcome)
    PROVE  ForgeInv' /\ Smithy!Isolation
<1> DEFINE rec == job[j]
           t == IF outcome = "raises" /\ rec.kind \in Smithy!CodeAgents THEN None
                ELSE IF outcome = "PASS" THEN "PASS" ELSE "FAIL"
           h == rec.high \/ outcome # "PASS"
           y == [rec EXCEPT !.tests = t, !.high = h]
<1>1. /\ rec.pc = "test" /\ tree' = tree /\ head' = head /\ tips' = tips /\ writes' = writes
      /\ job' = [job EXCEPT ![j] = IF outcome = "raises" /\ rec.kind = "pipeline" THEN Smithy!Idle
                                   ELSE Smithy!Advanced(y)]
  BY Zenon DEF Smithy!Tests
<1>2. rec \in JobRecord
  BY JobFacts
<1>3. /\ Keeps(y, rec) /\ y.left = rec.left /\ y.seen = rec.seen
      /\ y.inspection = rec.inspection /\ y.security = rec.security
      /\ y.skipped = rec.skipped /\ (rec.high => y.high)
  <2>1. t \in Marks \cup {None} /\ h \in BOOLEAN /\ (rec.high => h)
    BY <1>2 DEF Marks
  <2> HIDE DEF rec, t, h
  <2> QED
    BY <1>2, <2>1, TestsFields, ZenonT(60)
<1> HIDE DEF y, t, h
<1>4. \A files : Knows(rec, files) => Knows(y, files)
  <2> HIDE DEF rec
  <2>1. rec.pc # "done"
    BY <1>1
  <2> QED
    BY <1>2, <1>3, <2>1, HarsherKnows, Zenon
<1>5. CASE outcome = "raises" /\ rec.kind = "pipeline"
  BY <1>1, <1>5, Vanishes
<1>6. CASE ~(outcome = "raises" /\ rec.kind = "pipeline")
  BY <1>1, <1>3, <1>4, <1>6, OutcomeStep
<1> QED
  BY <1>5, <1>6

\* The command of the evidence keeps the invariant.
LEMMA CommandStep ==
    ASSUME ForgeInv, NEW j \in Jobs, NEW outcome, Smithy!Command(j, outcome)
    PROVE  ForgeInv' /\ Smithy!Isolation
<1> DEFINE rec == job[j]
           b == outcome = "cannot"
           y == [rec EXCEPT !.failed = b]
<1>1. /\ rec.pc = "command" /\ tree' = tree /\ head' = head /\ tips' = tips /\ writes' = writes
      /\ job' = [job EXCEPT ![j] = Smithy!Advanced(y)]
  BY DEF ForgeInv, ForgeType, Smithy!Command
<1>2. rec \in JobRecord /\ b \in BOOLEAN
  BY JobFacts
<1>3. Keeps(y, rec) /\ Verdicts(y, rec) /\ y.left = rec.left /\ y.seen = rec.seen
  <2> HIDE DEF rec, b
  <2> QED
    BY <1>2, FailedField, Zenon
<1> HIDE DEF y, b
<1>4. \A files : Knows(rec, files) => Knows(y, files)
  <2> HIDE DEF rec
  <2> QED
    BY <1>1, <1>2, <1>3, HarsherKnows DEF Verdicts
<1> QED
  BY <1>1, <1>3, <1>4, OutcomeStep

\* A scenario of the holdout keeps the invariant.
LEMMA ScenarioStep ==
    ASSUME ForgeInv, NEW j \in Jobs, NEW outcome, Smithy!Scenario(j, outcome)
    PROVE  ForgeInv' /\ Smithy!Isolation
<1> DEFINE rec == job[j]
           files == tree[rec.root]
           b == rec.failed \/ outcome # "ok"
           s == rec.seen \cup (IF files = None THEN {} ELSE {files})
           y == [rec EXCEPT !.failed = b, !.seen = s]
<1>1. /\ rec.pc = "scenario" /\ tree' = tree /\ head' = head /\ tips' = tips /\ writes' = writes
      /\ job' = [job EXCEPT ![j] = Smithy!Advanced(y)]
  BY Zenon DEF Smithy!Scenario
<1>2. /\ rec \in JobRecord /\ b \in BOOLEAN /\ Fit(rec)
      /\ s \in SUBSET ((Paths \X FileKinds) \cup Files)
  <2>1. rec \in JobRecord /\ Fit(rec) /\ (files # None => files \in Files)
    BY JobFacts
  <2> QED
    BY <2>1 DEF JobRecord
<1>3. Keeps(y, rec) /\ Verdicts(y, rec) /\ y.left = rec.left /\ y.seen = s
  <2> HIDE DEF rec, b, s
  <2> QED
    BY <1>2, FailedFields, ZenonT(60)
<1>4. files # None /\ Knows(rec, files) => Knows(y, files)
  <2>1. rec.kind = "holdout"
    <3>1. rec.kind \in Works
      BY <1>2 DEF JobRecord
    <3>2. /\ rec.stage \in 1 .. Len(Smithy!Order[rec.kind])
          /\ Smithy!Order[rec.kind][rec.stage] = "scenario"
      BY <1>1, <1>2 DEF Fit, Stages
    <3> HIDE DEF rec
    <3>3. ASSUME rec.kind \in Gated PROVE FALSE
      <4>1. rec.stage \in {1, 2, 3}
        BY <3>2, <3>3, OrderPlaces
      <4> QED
        BY <3>2, <3>3, <4>1, OrderPlaces
    <3>4. ASSUME rec.kind = "review" PROVE FALSE
      <4>1. rec.stage \in {1, 2, 3, 4}
        BY <3>2, <3>4, OrderPlaces
      <4> QED
        BY <3>2, <3>4, <4>1, OrderPlaces
    <3>5. ASSUME rec.kind = "evidence" PROVE FALSE
      <4>1. rec.stage \in {1, 2}
        BY <3>2, <3>5, OrderPlaces
      <4> QED
        BY <3>2, <3>5, <4>1, OrderPlaces
    <3> QED
      BY <3>1, <3>3, <3>4, <3>5 DEF Works, Gated
  <2>2. y.kind = rec.kind
    BY <1>3 DEF Keeps, Kin
  <2> HIDE DEF y
  <2> QED
    BY <1>3, <2>1, <2>2 DEF Knows, Gated
<1> HIDE DEF y, b, s
<1> QED
  BY <1>1, <1>3, <1>4, OutcomeStep

\* The report is written.
LEMMA ReportStep ==
    ASSUME ForgeInv, NEW j \in Jobs, NEW gate \in Marks, job[j].pc = "verdict",
           Earned(job[j], gate),
           job' = [job EXCEPT ![j] = Smithy!Reported(job[j], gate)],
           tree' \in {tree, [tree EXCEPT ![j] = None]},
           head' = head, tips' = tips, writes' = writes
    PROVE  ForgeInv' /\ Smithy!Isolation
<1> DEFINE rec == job[j]
           x == Smithy!Reported(rec, gate)
<1>1. /\ rec \in JobRecord /\ writes \in Nat /\ KnowsJob(j)
      /\ \A r \in {Base} \cup Jobs : tree[r] # None => tree[r] \in Files
      /\ rec.root \in {Base} \cup Jobs
  BY JobFacts
<1>2. /\ x \in JobRecord /\ x.kind = rec.kind /\ x.pc = "done" /\ x.left = {}
      /\ \/ Kin(x, rec) /\ \A files \in Files : Knows(rec, files) => Knows(x, files)
         \/ rec.kind \notin Gated /\ x.root = Base /\ \A files : Knows(x, files)
  <2> HIDE DEF rec
  <2> QED
    BY <1>1, ReportedKnows DEF rec
<1> HIDE DEF x
<1>3. Fit(x)
  BY <1>2 DEF Fit, Stages
<1>4. Stays(x, rec)
  BY <1>2 DEF Stays, Kin, Gated, Smithy!CodeAgents
<1>5. ASSUME x.fresh, tree[x.root] # None
      PROVE  /\ Knows(x, tree[x.root])
             /\ x.kind = "external" => Covered(x, tree[x.root], tips[x.branch])
  <2>1. CASE Kin(x, rec) /\ \A files \in Files : Knows(rec, files) => Knows(x, files)
    <3>1. /\ x.root = rec.root /\ x.branch = rec.branch /\ x.fresh = rec.fresh
          /\ x.kind = rec.kind /\ x.lost = rec.lost /\ x.paths = rec.paths
      BY <2>1 DEF Kin
    <3>2. /\ Knows(rec, tree[rec.root])
          /\ rec.kind = "external" => Covered(rec, tree[rec.root], tips[rec.branch])
      BY <1>1, <1>5, <3>1 DEF KnowsJob
    <3> QED
      <4>1. Knows(x, tree[x.root])
        <5>1. tree[rec.root] \in Files
          BY <1>1, <1>5, <3>1
        <5>2. Knows(rec, tree[rec.root])
          BY <3>2
        <5>3. Knows(x, tree[rec.root])
          BY <2>1, <5>1, <5>2, Zenon
        <5> QED
          BY <3>1, <5>3
      <4>2. rec.kind = "external" => Covered(x, tree[rec.root], tips[rec.branch])
        BY <3>1, <3>2 DEF Covered
      <4> QED
        BY <3>1, <4>1, <4>2
  <2>2. CASE rec.kind \notin Gated /\ x.root = Base /\ \A files : Knows(x, files)
    BY <1>2, <2>2 DEF Gated
  <2> QED
    BY <1>2, <2>1, <2>2
<1> QED
  BY <1>1, <1>2, <1>3, <1>4, <1>5, JobMoves DEF x

\* The verdict of a job keeps the invariant, with its worktree removed or not.
LEMMA VerdictStep ==
    ASSUME ForgeInv, NEW j \in Jobs, Smithy!Verdict(j)
    PROVE  ForgeInv' /\ Smithy!Isolation
<1>1. PICK gate \in Marks : job' = [job EXCEPT ![j] = Smithy!Reported(job[j], gate)]
                            /\ (gate = "PASS" => Smithy!Passes(job[j]))
  BY DEF Smithy!Verdict, Marks
<1>2. /\ job[j].pc = "verdict" /\ job[j].kind # "review" /\ Earned(job[j], gate)
      /\ tree' \in {tree, [tree EXCEPT ![j] = None]}
      /\ head' = head /\ tips' = tips /\ writes' = writes
  BY <1>1 DEF Smithy!Verdict, Earned, Smithy!Passes
<1> QED
  BY <1>1, <1>2, ReportStep

\* The next round of a review, or the same one without the model.
LEMMA RoundStep ==
    ASSUME ForgeInv, NEW j \in Jobs, NEW y, Kin(y, job[j]), job[j].kind = "review",
           job[j].pc \notin {"idle", "edit", "agent"}, job' = [job EXCEPT ![j] = Smithy!Started(y)],
           tree' = tree, head' = head, tips' = tips, writes' = writes
    PROVE  ForgeInv' /\ Smithy!Isolation
<1> DEFINE x == Smithy!Started(y)
<1>1. y \in JobRecord /\ y.kind = "review" /\ writes \in Nat
  BY JobFacts DEF Kin
<1>2. /\ Kin(x, y) /\ x.pc \in Stages /\ Fit(x)
      /\ \A files : SeenIs(y, files) => Knows(x, files)
  BY <1>1, StartedKnows, Zenon
<1> HIDE DEF x
<1>3. Kin(x, job[j]) /\ x.pc \notin {"idle", "edit", "agent"} /\ \A files : Knows(x, files)
  BY <1>1, <1>2 DEF Kin, Stages, SeenIs
<1> QED
  BY <1>1, <1>2, <1>3, KinMoves DEF x

\* A review round that is decided keeps the invariant.
LEMMA DecidedStep ==
    ASSUME ForgeInv, NEW j \in Jobs, NEW ok \in BOOLEAN, job[j].kind = "review",
           job[j].pc = "verdict", ok => Smithy!Modelled(job[j]) \/ ~job[j].high,
           job' = [job EXCEPT ![j] = Smithy!Decided(job[j], ok)],
           tree' = tree, head' = head, tips' = tips, writes' = writes
    PROVE  ForgeInv' /\ Smithy!Isolation
<1> DEFINE rec == job[j]
           z == Smithy!Afresh(rec)
           n == z.round + 1
           h == FALSE
           y == [z EXCEPT !.round = n, !.heuristic = h]
<1>1. \/ ok /\ job' = [job EXCEPT ![j] = Smithy!Reported(rec, "PASS")]
      \/ ~ok /\ job' = [job EXCEPT ![j] = Smithy!Started(y)]
      \/ ~ok /\ job' = [job EXCEPT ![j] = Smithy!Reported(rec, "FAIL")]
  <2>1. /\ ok => Smithy!Decided(rec, ok) = Smithy!Reported(rec, "PASS")
        /\ ~ok => \/ Smithy!Decided(rec, ok) = Smithy!NextRound(rec)
                  \/ Smithy!Decided(rec, ok) = Smithy!Reported(rec, "FAIL")
    BY Zenon DEF Smithy!Decided
  <2>2. Smithy!NextRound(rec) = Smithy!Started(y)
    BY Zenon DEF Smithy!NextRound
  <2> QED
    BY <2>1, <2>2, Zenon
<1>2. Kin(y, rec)
  <2>1. rec \in JobRecord
    BY JobFacts
  <2>2. Kin(z, rec) /\ z \in JobRecord
    BY <2>1, AfreshFields DEF Kin
  <2> HIDE DEF z
  <2>3. n \in Nat /\ h \in BOOLEAN
    BY <2>2 DEF JobRecord
  <2> HIDE DEF rec, n, h
  <2>4. Kin(y, z)
    BY <2>2, <2>3, RedoneFields, Zenon
  <2> HIDE DEF y
  <2> QED
    BY <2>2, <2>4 DEF Kin
<1> HIDE DEF y
<1>3. CASE ok /\ job' = [job EXCEPT ![j] = Smithy!Reported(rec, "PASS")]
  BY <1>3, ReportStep DEF Marks, Earned, Gated
<1>4. CASE ~ok /\ job' = [job EXCEPT ![j] = Smithy!Started(y)]
  BY <1>2, <1>4, RoundStep
<1>5. CASE ~ok /\ job' = [job EXCEPT ![j] = Smithy!Reported(rec, "FAIL")]
  BY <1>5, ReportStep DEF Marks, Earned
<1> QED
  BY <1>1, <1>3, <1>4, <1>5

\* The decision by heuristics is one,
LEMMA HeuristicRoundStep ==
    ASSUME ForgeInv, NEW j \in Jobs, Smithy!HeuristicRound(j)
    PROVE  ForgeInv' /\ Smithy!Isolation
<1>1. PICK ok \in BOOLEAN :
          /\ job' = [job EXCEPT ![j] = Smithy!Decided(job[j], ok)]
          /\ ok => ~job[j].high
  <2>1. job' = [job EXCEPT ![j] = Smithy!Decided(job[j], Smithy!ReviewPasses(job[j]))]
    BY Zenon DEF Smithy!HeuristicRound
  <2>2. Smithy!ReviewPasses(job[j]) \in BOOLEAN /\ (Smithy!ReviewPasses(job[j]) => ~job[j].high)
    BY Zenon DEF Smithy!ReviewPasses
  <2> QED
    BY <2>1, <2>2
<1>2. /\ job[j].pc = "verdict" /\ job[j].kind = "review"
      /\ tree' = tree /\ head' = head /\ tips' = tips /\ writes' = writes
  BY DEF Smithy!HeuristicRound
<1> QED
  BY <1>1, <1>2, DecidedStep

\* and so is the decision by the model.
LEMMA ModelRoundStep ==
    ASSUME ForgeInv, NEW j \in Jobs, NEW answer, Smithy!ModelRound(j, answer)
    PROVE  ForgeInv' /\ Smithy!Isolation
<1> DEFINE rec == job[j]
           y == [Smithy!Afresh(rec) EXCEPT !.heuristic = TRUE]
           ok == answer = "pass"
<1>1. /\ rec.pc = "verdict" /\ rec.kind = "review" /\ Smithy!Modelled(rec)
      /\ tree' = tree /\ head' = head /\ tips' = tips /\ writes' = writes
  BY DEF Smithy!ModelRound
<1>2. job' = [job EXCEPT ![j] = IF answer = "none" THEN Smithy!Started(y) ELSE Smithy!Decided(rec, ok)]
  BY Zenon DEF Smithy!ModelRound, Smithy!Heuristics
<1>3. Kin(y, rec) /\ ok \in BOOLEAN
  <2>1. rec \in JobRecord
    BY JobFacts
  <2> HIDE DEF rec
  <2> QED
    BY <2>1, HeuristicsFields, Zenon
<1> HIDE DEF y, ok
<1>4. CASE answer = "none"
  BY <1>1, <1>2, <1>3, <1>4, RoundStep
<1>5. CASE answer # "none"
  BY <1>1, <1>2, <1>3, <1>5, DecidedStep
<1> QED
  BY <1>4, <1>5

\* A gate that raises keeps the invariant.
LEMMA GateRaisesStep ==
    ASSUME ForgeInv, NEW j \in Jobs, Smithy!GateRaises(j)
    PROVE  ForgeInv' /\ Smithy!Isolation
<1> DEFINE rec == job[j]
           h == rec.pc = "inspect" /\ rec.security = "FAIL" /\ rec.paths # {} /\ rec.form # "over"
           m == IF rec.pc = "scan" THEN 0 ELSE rec.medium
           d == [rec EXCEPT !.left = {}, !.skipped = TRUE, !.high = h, !.medium = m]
           i == IF rec.pc = "inspect" THEN "FAIL" ELSE rec.inspection
           s == IF rec.pc = "scan" THEN "FAIL" ELSE rec.security
           f == Raised(rec, i, s)
           y == [Smithy!Afresh(rec) EXCEPT !.heuristic = TRUE]
<1>1. /\ rec.pc \in {"inspect", "scan"}
      /\ tree' = tree /\ head' = head /\ tips' = tips /\ writes' = writes
  BY DEF Smithy!GateRaises
<1>2. \/ rec.kind = "pipeline" /\ job' = [job EXCEPT ![j] = Smithy!Idle]
      \/ rec.kind \in Smithy!CodeAgents /\ job' = [job EXCEPT ![j] = Smithy!Advanced(f)]
      \/ rec.kind = "review" /\ job' = [job EXCEPT ![j] = Smithy!Started(y)]
      \/ rec.kind = "review" /\ job' = [job EXCEPT ![j] = Smithy!Advanced(d)]
  BY Zenon DEF Smithy!GateRaises, Smithy!Heuristics, Raised
<1>3. rec \in JobRecord /\ Fit(rec) /\ rec.kind \in Gated \cup {"review"}
  <2>1. rec \in JobRecord /\ Fit(rec)
    BY JobFacts
  <2>2. rec.kind \in Works /\ (rec.kind \in {"evidence", "holdout"} => rec.pc \notin {"inspect", "scan"})
    <3>1. rec.kind \in Works
      BY <2>1 DEF JobRecord
    <3>2. /\ rec.stage \in 1 .. Len(Smithy!Order[rec.kind])
          /\ Smithy!Order[rec.kind][rec.stage] = rec.pc
      BY <1>1, <2>1 DEF Fit, Stages
    <3>3. CASE rec.kind \in {"evidence", "holdout"}
      <4>1. Len(Smithy!Order[rec.kind]) = 2
        BY <3>3, OrderPlaces
      <4>2. rec.stage = 1 \/ rec.stage = 2
        BY <3>2, <4>1
      <4>3. /\ Smithy!Order[rec.kind][1] \in {"hash", "scenario"}
            /\ Smithy!Order[rec.kind][2] \in {"command", "scenario"}
        BY <3>3, OrderPlaces
      <4>4. rec.pc \in {"hash", "scenario", "command"}
        <5> HIDE DEF rec
        <5> QED
          BY <3>2, <4>2, <4>3
      <4> QED
        BY <3>1, <4>4
    <3> QED
      BY <3>1, <3>3
  <2> QED
    BY <1>1, <2>1, <2>2 DEF Works, Gated
<1>4. h \in BOOLEAN /\ m \in Nat /\ i \in Marks /\ s \in Marks
  BY <1>3 DEF JobRecord, Marks
<1>5. /\ rec.pc = "inspect" => i = "FAIL" /\ s = rec.security
      /\ rec.pc = "scan" => s = "FAIL" /\ i = rec.inspection
  OBVIOUS
<1> HIDE DEF h, m, i, s
<1>6. CASE rec.kind = "pipeline" /\ job' = [job EXCEPT ![j] = Smithy!Idle]
  BY <1>1, <1>6, Vanishes
<1>7. CASE rec.kind \in Smithy!CodeAgents /\ job' = [job EXCEPT ![j] = Smithy!Advanced(f)]
  <2>1. rec.kind \in Gated
    BY <1>7 DEF Smithy!CodeAgents, Gated
  <2>2. /\ Keeps(f, rec) /\ f.left = {} /\ f.seen = rec.seen /\ f.skipped = rec.skipped
        /\ f.inspection = i /\ f.security = s
    <3> HIDE DEF rec
    <3> QED
      BY <1>3, <1>4, RaisedFields
  <2> HIDE DEF f
  <2>3. f.kind = rec.kind
    BY <2>2 DEF Keeps, Kin
  <2>4. ASSUME NEW files, Knows(rec, files) PROVE Knows(f, files)
    <3> HIDE DEF rec
    <3> QED
      BY <1>1, <1>5, <2>1, <2>2, <2>3, <2>4, RaisedKnows
  <2> QED
    BY <1>1, <1>7, <2>2, <2>4, RaisedStep
<1>8. CASE rec.kind = "review" /\ job' = [job EXCEPT ![j] = Smithy!Started(y)]
  <2>1. Kin(y, rec)
    <3> HIDE DEF rec
    <3> QED
      BY <1>3, HeuristicsFields, Zenon
  <2> HIDE DEF y
  <2> QED
    BY <1>1, <1>8, <2>1, RoundStep
<1>9. CASE rec.kind = "review" /\ job' = [job EXCEPT ![j] = Smithy!Advanced(d)]
  <2>1. Keeps(d, rec) /\ d.left = {} /\ d.skipped
    <3> HIDE DEF rec
    <3> QED
      BY <1>3, <1>4, DroppedFields, Zenon
  <2> HIDE DEF d
  <2>2. d.kind = rec.kind
    BY <2>1 DEF Keeps, Kin
  <2>3. ASSUME NEW files, Knows(rec, files) PROVE Knows(d, files)
    <3> HIDE DEF rec
    <3> QED
      BY <1>1, <1>3, <2>1, <2>2, <2>3, RaisedKnows
  <2> QED
    BY <1>1, <1>9, <2>1, <2>3, RaisedStep
<1> QED
  BY <1>2, <1>6, <1>7, <1>8, <1>9

(* Steps: a job begins, and agents and editors write.                      *)

\* A job that begins on an existing root keeps the invariant.
LEMMA CheckStep ==
    ASSUME ForgeInv, NEW j \in Jobs, NEW kind, NEW r, NEW paths, NEW form, NEW wants,
           NEW threshold, NEW llm, Requested(kind, r, paths, form, wants, threshold, llm),
           kind \notin Smithy!CodeAgents,
           Smithy!Check(j, kind, r, paths, form, wants, threshold, llm)
    PROVE  ForgeInv' /\ Smithy!Isolation
<1> DEFINE y == CheckOf(kind, r, paths, form, wants, threshold, llm)
           x == Smithy!Started(y)
<1>0. r \in {Base} \cup Jobs
  BY DEF Requested
<1>1. /\ job[j].pc = "idle" /\ tree[r] # None /\ job' = [job EXCEPT ![j] = x]
      /\ tree' = tree /\ head' = head /\ tips' = tips /\ writes' = writes
  BY DEF Smithy!Check, Smithy!Free, CheckOf
<1>2. y \in JobRecord /\ y.kind = kind /\ y.root = r /\ y.seen = {}
  BY CheckFields, Zenon
<1> HIDE DEF y
<1>3. /\ Kin(x, y) /\ x.pc \in Stages /\ Fit(x)
      /\ \A files : SeenIs(y, files) => Knows(x, files)
  BY <1>2, StartedKnows, Zenon
<1> HIDE DEF x
<1>4. /\ x \in JobRecord /\ x.kind = kind /\ x.root = r /\ x.pc \in Stages
      /\ \A files : Knows(x, files)
  BY <1>2, <1>3 DEF Kin, SeenIs
<1>5. /\ ForgeType' /\ job'[j] = x /\ \A k \in Jobs : k # j => job'[k] = job[k]
  BY <1>1, <1>4 DEF ForgeInv, ForgeType
<1>6. \A k \in Jobs : k # j => Like(job'[k], job[k])
  BY <1>5, LikeItself DEF ForgeInv, ForgeType
<1>7. x.pc \notin {"idle", "edit", "agent"} /\ x.kind \notin Smithy!CodeAgents
  BY <1>4 DEF Stages
<1>8. Placed(j, x)
  BY <1>3, <1>7 DEF Placed
<1>9. TreeInv'
  <2>1. tree[j] = None
    BY <1>1 DEF ForgeInv, TreeInv
  <2>2. \A i \in Jobs : i = j => job[i].kind \notin Smithy!CodeAgents \/ job[i].pc = "idle"
    BY <1>1
  <2>3. r \in Jobs => job[r].kind \in Smithy!CodeAgents /\ job[r].pc # "idle" /\ r # j
    BY <1>1, <2>1 DEF ForgeInv, TreeInv
  <2>4. \A i \in Jobs : tree'[i] # None => job'[i].kind \in Smithy!CodeAgents /\ job'[i].pc # "idle"
    BY <1>1, <1>5, <2>1 DEF ForgeInv, TreeInv
  <2>5. \A i \in Jobs : job'[i].pc \in {"edit", "agent"} => tree'[i] # None
    BY <1>1, <1>5, <1>7 DEF ForgeInv, TreeInv
  <2>6. \A i, k \in Jobs : tree'[i] # None /\ tree'[k] # None /\ job'[i].branch = job'[k].branch => i = k
    BY <1>1, <1>5, <2>1 DEF ForgeInv, TreeInv
  <2>7. \A i, k \in Jobs : job'[i].pc # "idle" /\ job'[i].fresh /\ job'[i].root = k /\ i # k =>
            job'[k].kind \in Smithy!CodeAgents /\ job'[k].pc # "idle"
    BY <1>4, <1>5, <2>2, <2>3 DEF ForgeInv, TreeInv
  <2> QED
    BY <2>4, <2>5, <2>6, <2>7 DEF TreeInv
<1>10. KnowsJob(j)'
  <2>1. job'[j].kind # "external" /\ Knows(job'[j], tree'[job'[j].root])
    BY <1>4, <1>5, <1>7 DEF Smithy!CodeAgents
  <2> QED
    BY <2>1, Zenon DEF KnowsJob
<1>11. Smithy!Isolation
  BY <1>1 DEF Smithy!Isolation
<1> QED
  BY <1>1, <1>5, <1>6, <1>8, <1>9, <1>10, <1>11, Framed

\* An agent that writes has no claim on what the gates will find.
LEMMA NothingKnown ==
    ASSUME NEW rec, rec.kind \in Smithy!CodeAgents, rec.pc \in {"edit", "agent"}
    PROVE  \A files : Knows(rec, files)
<1>1. rec.kind \notin {"review", "evidence", "holdout"}
  BY DEF Smithy!CodeAgents
<1>2. \A files : Gates(rec, files)
  BY <1>1 DEF Gates, InspectBegan, ScanRead, InspectRead, ReadBy
<1> QED
  BY <1>1, <1>2 DEF Knows

\* An agent that is launched on its own worktree keeps the invariant.
LEMMA LaunchStep ==
    ASSUME ForgeInv, NEW j \in Jobs, NEW kind \in Smithy!CodeAgents, NEW b \in Branches,
           NEW edits \in Nat, NEW wants \in BOOLEAN, Smithy!Launch(j, kind, b, edits, wants)
    PROVE  ForgeInv' /\ Smithy!Isolation
<1> DEFINE pc == IF kind = "coding" THEN "edit" ELSE "agent"
           failed == kind = "coding" /\ (edits = 0 \/ edits > MaxEdits)
           x == LaunchOf(j, kind, b, edits, wants, pc, failed)
           files == Smithy!Worktree(b)
<1>1. /\ job[j].pc = "idle" /\ ~Smithy!CheckedOut(b) /\ job' = [job EXCEPT ![j] = x]
      /\ tree' = [tree EXCEPT ![j] = files] /\ tips' = [tips EXCEPT ![b] = files]
      /\ head' = head /\ writes' = writes
  BY DEF Smithy!Launch, Smithy!Free, LaunchOf
<1>2. files \in Files /\ files # None
  BY ForgeAssumption DEF Smithy!Worktree, ForgeInv, ForgeType, Files, FileKinds
<1>3. /\ x \in JobRecord /\ x.kind = kind /\ x.root = j /\ x.branch = b /\ x.pc = pc
      /\ x.seen = {} /\ x.left = {}
  <2>1. pc \in Places /\ failed \in BOOLEAN
    BY DEF Places
  <2> HIDE DEF pc, failed
  <2> QED
    BY <2>1, LaunchFields
<1> HIDE DEF x, files
<1>4. pc \in {"edit", "agent"} /\ (pc = "edit" <=> kind = "coding") /\ (pc = "agent" <=> kind = "external")
  BY DEF Smithy!CodeAgents
<1> HIDE DEF pc
<1>5. /\ ForgeType' /\ job'[j] = x /\ \A k \in Jobs : k # j => job'[k] = job[k]
  BY <1>1, <1>2, <1>3, ForgeAssumption DEF ForgeInv, ForgeType
<1>6. \A k \in Jobs : k # j => Like(job'[k], job[k])
  BY <1>5, LikeItself DEF ForgeInv, ForgeType
<1>7. Placed(j, x)
  BY <1>3, <1>4 DEF Placed, Fit, Stages
<1>8. \A r \in {Base} \cup Jobs : tree'[r] = IF r = j THEN files ELSE tree[r]
  BY <1>1 DEF ForgeInv, ForgeType
<1>9. tree[j] = None /\ \A k \in Jobs : tree[k] # None => job[k].branch # b /\ k # j
  BY <1>1 DEF ForgeInv, TreeInv, Smithy!CheckedOut
<1>10. TreeInv'
  <2>1. \A i \in Jobs : tree'[i] # None => job'[i].kind \in Smithy!CodeAgents /\ job'[i].pc # "idle"
    BY <1>3, <1>4, <1>5, <1>8 DEF ForgeInv, TreeInv
  <2>2. \A i \in Jobs : job'[i].pc \in {"edit", "agent"} => tree'[i] # None
    BY <1>2, <1>5, <1>8 DEF ForgeInv, TreeInv
  <2>3. \A i, k \in Jobs : tree'[i] # None /\ tree'[k] # None /\ job'[i].branch = job'[k].branch => i = k
    BY <1>3, <1>5, <1>8, <1>9 DEF ForgeInv, TreeInv
  <2>4. \A i, k \in Jobs : job'[i].pc # "idle" /\ job'[i].fresh /\ job'[i].root = k /\ i # k =>
            job'[k].kind \in Smithy!CodeAgents /\ job'[k].pc # "idle"
    BY <1>1, <1>3, <1>4, <1>5 DEF ForgeInv, TreeInv
  <2> QED
    BY <2>1, <2>2, <2>3, <2>4 DEF TreeInv
<1>11. KnowsJob(j)'
  <2>1. \A f : Knows(job'[j], f)
    BY <1>3, <1>4, <1>5, NothingKnown
  <2>2. \A f, t : job'[j].kind = "external" => Covered(job'[j], f, t)
    BY <1>3, <1>4, <1>5 DEF Covered
  <2> QED
    BY <2>1, <2>2, Zenon DEF KnowsJob
<1>12. ASSUME NEW k \in Jobs, k # j, job'[k].fresh, job[k].pc # "idle", tree'[job[k].root] # None
       PROVE  /\ tree'[job[k].root] = tree[job[k].root]
              /\ job[k].kind = "external" => tips'[job[k].branch] = tips[job[k].branch]
  <2>1. job[k] \in JobRecord /\ Placed(k, job[k]) /\ job'[k] = job[k] /\ job[k].root \in {Base} \cup Jobs
    BY <1>5, <1>12, JobFacts
  <2>2. job[k].root # j
    BY <1>1, <1>12, <2>1 DEF ForgeInv, TreeInv
  <2>3. tree[job[k].root] # None /\ tree'[job[k].root] = tree[job[k].root]
    BY <1>8, <1>12, <2>1, <2>2
  <2>4. job[k].kind = "external" => job[k].branch \in Branches /\ job[k].branch # b
    BY <1>9, <1>12, <2>1, <2>3 DEF Placed, Smithy!CodeAgents
  <2> QED
    BY <1>1, <2>3, <2>4 DEF ForgeInv, ForgeType
<1>13. Smithy!Isolation
  BY <1>8, <1>9 DEF Smithy!Isolation
<1> QED
  BY <1>5, <1>6, <1>7, <1>10, <1>11, <1>12, <1>13, Framed

\* Nobody's place or worktree changes.
LEMMA TreesStay ==
    ASSUME ForgeInv,
           \A k \in Jobs : /\ job'[k].kind = job[k].kind /\ job'[k].root = job[k].root
                           /\ job'[k].branch = job[k].branch /\ job'[k].pc = job[k].pc
                           /\ job'[k].fresh => job[k].fresh,
           \A k \in Jobs : tree'[k] # None <=> tree[k] # None
    PROVE  TreeInv'
  BY DEF ForgeInv, TreeInv

\* One file of a root is written.
LEMMA FileWritten ==
    ASSUME ForgeInv, NEW r \in {Base} \cup Jobs, tree[r] # None, NEW p, NEW k \in FileKinds,
           tree' = [tree EXCEPT ![r][p] = k]
    PROVE  /\ tree' \in [{Base} \cup Jobs -> Files \cup {None}] /\ tree'[Base] \in Files
           /\ tree'[r] # None
           /\ \A s \in {Base} \cup Jobs : s # r => tree'[s] = tree[s]
           /\ \A s \in {Base} \cup Jobs : tree'[s] # None <=> tree[s] # None
<1> DEFINE files == [tree[r] EXCEPT ![p] = k]
<1>1. tree[r] \in Files
  BY JobFacts DEF ForgeInv, ForgeType
<1>2. files \in Files /\ files # None
  BY <1>1, ForgeAssumption DEF Files, FileKinds
<1>3. tree' = [tree EXCEPT ![r] = files]
  OBVIOUS
<1> HIDE DEF files
<1> QED
  BY <1>2, <1>3 DEF ForgeInv, ForgeType

Edited(x, rec) ==
    /\ x \in JobRecord /\ x.kind = rec.kind /\ x.root = rec.root /\ x.branch = rec.branch
    /\ x.pc = rec.pc /\ x.stage = rec.stage /\ x.left = rec.left /\ x.fresh = rec.fresh

\* What an edit changes of its job.
LEMMA EditFields ==
    ASSUME NEW rec \in JobRecord, NEW n \in Nat, NEW paths \in SUBSET Paths
    PROVE  Edited([rec EXCEPT !.edits = n, !.paths = paths], rec)
<1> DEFINE x == [rec EXCEPT !.edits = n, !.paths = paths]
<1>1. x \in JobRecord
  BY ZenonT(60) DEF JobRecord
<1> QED
  BY <1>1 DEF JobRecord, Edited

\* The same, written as the action writes it.
LEMMA EditedJob ==
    ASSUME NEW others \in [Jobs -> JobRecord], NEW j \in Jobs, NEW p \in Paths,
           NEW rec, rec = others[j]
    PROVE  [others EXCEPT ![j].edits = @ - 1, ![j].paths = @ \cup {p}] =
           [others EXCEPT ![j] = [rec EXCEPT !.edits = rec.edits - 1, !.paths = rec.paths \cup {p}]]
<1> DEFINE o == [others EXCEPT ![j].edits = @ - 1, ![j].paths = @ \cup {p}]
           x == [rec EXCEPT !.edits = rec.edits - 1, !.paths = rec.paths \cup {p}]
           q == [others EXCEPT ![j] = x]
<1>1. DOMAIN o = Jobs /\ \A i \in Jobs : i # j => o[i] = others[i]
  OBVIOUS
<1>2. o[j] = x
  OBVIOUS
<1>3. o = [i \in Jobs |-> o[i]] 
  BY <1>1
<1> HIDE DEF x
<1>4. q = [i \in Jobs |-> IF i = j THEN x ELSE others[i]]
  OBVIOUS
<1> HIDE DEF o, q
<1>5. o = q
  BY <1>1, <1>2, <1>3, <1>4
<1> QED
  BY <1>5, Zenon DEF o, q, x

\* An edit keeps the invariant: its agent knows nothing of its files yet.
LEMMA ApplyEditStep ==
    ASSUME ForgeInv, NEW j \in Jobs, NEW p \in Paths, NEW k \in Kinds, Smithy!ApplyEdit(j, p, k)
    PROVE  ForgeInv' /\ Smithy!Isolation
<1> DEFINE rec == job[j]
           others == Smithy!Disturbed(j, j)
           n == rec.edits - 1
           paths == rec.paths \cup {p}
           x == [rec EXCEPT !.edits = n, !.paths = paths]
<1>1. /\ rec.pc = "edit" /\ rec.edits > 0 /\ tree' = [tree EXCEPT ![j][p] = k]
      /\ head' = head /\ tips' = tips /\ writes' = writes
  BY DEF Smithy!ApplyEdit
<1>2. /\ rec \in JobRecord /\ Placed(j, rec)
      /\ others \in [Jobs -> JobRecord] /\ others[j] = rec
      /\ \A i \in Jobs : /\ Like(others[i], job[i])
                         /\ i # j /\ job[i].root = j /\ job[i].pc # "idle" => ~others[i].fresh
  BY JobFacts, DisturbedJobs DEF ForgeInv, ForgeType
<1>3. job' = [others EXCEPT ![j] = x]
  <2>1. job' = [others EXCEPT ![j].edits = @ - 1, ![j].paths = @ \cup {p}]
    BY Zenon DEF Smithy!ApplyEdit
  <2> HIDE DEF others
  <2> QED
    BY <1>2, <2>1, EditedJob, Zenon
<1>4. Edited(x, rec)
  <2>1. n \in Nat /\ paths \in SUBSET Paths
    BY <1>1, <1>2 DEF JobRecord
  <2> HIDE DEF rec, n, paths
  <2> QED
    BY <1>2, <2>1, EditFields, Zenon
<1> HIDE DEF x, others
<1>5. tree[j] # None /\ k \in FileKinds
  BY <1>1, ForgeAssumption DEF ForgeInv, TreeInv, FileKinds
<1>6. /\ tree' \in [{Base} \cup Jobs -> Files \cup {None}] /\ tree'[Base] \in Files
      /\ \A s \in {Base} \cup Jobs : s # j => tree'[s] = tree[s]
      /\ \A s \in {Base} \cup Jobs : tree'[s] # None <=> tree[s] # None
  BY <1>1, <1>5, FileWritten
<1>7. job' \in [Jobs -> JobRecord] /\ job'[j] = x /\ \A i \in Jobs : i # j => job'[i] = others[i]
  BY <1>2, <1>3, <1>4 DEF Edited
<1>8. ForgeType'
  BY <1>1, <1>6, <1>7 DEF ForgeInv, ForgeType
<1>9. TreeInv'
  BY <1>2, <1>4, <1>6, <1>7, TreesStay DEF Like, Edited
<1>10. Placed(j, job'[j])
  BY <1>2, <1>4, <1>7 DEF Placed, Fit, Edited
<1>11. KnowsJob(j)'
  <2>1. x.kind = "coding"
    BY <1>1, <1>2, <1>4 DEF Placed, Edited
  <2>2. \A f : Knows(job'[j], f)
    BY <1>1, <1>4, <1>7, <2>1, NothingKnown DEF Smithy!CodeAgents, Edited
  <2>3. job'[j].kind # "external"
    BY <1>7, <2>1
  <2> QED
    BY <2>2, <2>3, Zenon DEF KnowsJob
<1>12. ASSUME NEW i \in Jobs, i # j, job'[i].fresh, job[i].pc # "idle", tree'[job[i].root] # None
       PROVE  tree'[job[i].root] = tree[job[i].root] /\ tips'[job[i].branch] = tips[job[i].branch]
  BY <1>1, <1>2, <1>6, <1>7, <1>12, JobFacts
<1>13. Smithy!Isolation
  BY <1>1, <1>6 DEF Smithy!Isolation
<1> QED
  BY <1>2, <1>7, <1>8, <1>9, <1>10, <1>11, <1>12, <1>13, Framed

\* So does a write of an external agent,
LEMMA AgentWritesStep ==
    ASSUME ForgeInv, NEW j \in Jobs, NEW p \in Paths, NEW k \in Kinds, Smithy!AgentWrites(j, p, k)
    PROVE  ForgeInv' /\ Smithy!Isolation
<1>1. /\ job[j].pc = "agent" /\ tree' = [tree EXCEPT ![j][p] = k]
      /\ job' = Smithy!Disturbed(j, j) /\ head' = head /\ tips' = tips /\ writes' = writes + 1
  BY DEF Smithy!AgentWrites, Smithy!Written
<1>2. /\ job[j] \in JobRecord /\ Placed(j, job[j]) /\ writes \in Nat
      /\ job' \in [Jobs -> JobRecord] /\ job'[j] = job[j]
      /\ \A i \in Jobs : /\ Like(job'[i], job[i])
                         /\ i # j /\ job[i].root = j /\ job[i].pc # "idle" => ~job'[i].fresh
  BY <1>1, JobFacts, DisturbedJobs DEF ForgeInv, ForgeType
<1>3. tree[j] # None /\ k \in FileKinds
  BY <1>1, ForgeAssumption DEF ForgeInv, TreeInv, FileKinds
<1>4. /\ tree' \in [{Base} \cup Jobs -> Files \cup {None}] /\ tree'[Base] \in Files
      /\ \A s \in {Base} \cup Jobs : s # j => tree'[s] = tree[s]
      /\ \A s \in {Base} \cup Jobs : tree'[s] # None <=> tree[s] # None
  BY <1>1, <1>3, FileWritten
<1>5. ForgeType'
  BY <1>1, <1>2, <1>4 DEF ForgeInv, ForgeType
<1>6. TreeInv'
  BY <1>2, <1>4, TreesStay DEF Like
<1>7. KnowsJob(j)'
  <2>1. job[j].kind = "external"
    BY <1>1, <1>2 DEF Placed
  <2>2. \A f : Knows(job'[j], f)
    BY <1>1, <1>2, <2>1, NothingKnown DEF Smithy!CodeAgents
  <2>3. \A f, t : Covered(job'[j], f, t)
    BY <1>1, <1>2 DEF Covered
  <2> QED
    BY <2>2, <2>3, Zenon DEF KnowsJob
<1>8. ASSUME NEW i \in Jobs, i # j, job'[i].fresh, job[i].pc # "idle", tree'[job[i].root] # None
      PROVE  tree'[job[i].root] = tree[job[i].root] /\ tips'[job[i].branch] = tips[job[i].branch]
  BY <1>1, <1>2, <1>4, <1>8, JobFacts
<1>9. Smithy!Isolation
  BY <1>1, <1>2 DEF Smithy!Isolation
<1> QED
  BY <1>2, <1>5, <1>6, <1>7, <1>8, <1>9, Framed

\* and one of an editor, which disturbs all jobs of its root.
LEMMA EditorWritesStep ==
    ASSUME ForgeInv, NEW r \in {Base} \cup Jobs, NEW p \in Paths, NEW k \in Kinds,
           Smithy!Write(r, p, k)
    PROVE  ForgeInv' /\ Smithy!Isolation
<1>1. /\ tree[r] # None /\ tree' = [tree EXCEPT ![r][p] = k]
      /\ job' = Smithy!Disturbed(r, None) /\ head' = head /\ tips' = tips /\ writes' = writes + 1
  BY DEF Smithy!Write, Smithy!Written
<1>2. /\ writes \in Nat /\ job' \in [Jobs -> JobRecord]
      /\ \A i \in Jobs : /\ Like(job'[i], job[i])
                         /\ job[i].root = r /\ job[i].pc # "idle" => ~job'[i].fresh
  BY <1>1, JobFacts, DisturbedJobs, ForgeAssumption DEF ForgeInv, ForgeType
<1>3. k \in FileKinds
  BY ForgeAssumption DEF FileKinds
<1>4. /\ tree' \in [{Base} \cup Jobs -> Files \cup {None}] /\ tree'[Base] \in Files
      /\ \A s \in {Base} \cup Jobs : s # r => tree'[s] = tree[s]
      /\ \A s \in {Base} \cup Jobs : tree'[s] # None <=> tree[s] # None
  BY <1>1, <1>3, FileWritten
<1>5. ForgeType'
  BY <1>1, <1>2, <1>4 DEF ForgeInv, ForgeType
<1>6. TreeInv'
  BY <1>2, <1>4, TreesStay DEF Like
<1>7. ASSUME NEW i \in Jobs, job'[i].fresh, job[i].pc # "idle", tree'[job[i].root] # None
      PROVE  tree'[job[i].root] = tree[job[i].root] /\ tips'[job[i].branch] = tips[job[i].branch]
  BY <1>1, <1>2, <1>4, <1>7, JobFacts
<1>8. Smithy!Isolation
  BY <1>1, <1>2 DEF Smithy!Isolation
<1> QED
  BY <1>2, <1>5, <1>6, <1>7, <1>8, ForgeAssumption, Framed

\* An edit that fails keeps the invariant.
LEMMA EditFailsStep ==
    ASSUME ForgeInv, NEW j \in Jobs, Smithy!EditFails(j)
    PROVE  ForgeInv' /\ Smithy!Isolation
<1> DEFINE rec == job[j]
           x == [rec EXCEPT !.failed = TRUE]
<1>1. /\ rec.pc = "edit" /\ tree' = tree /\ head' = head /\ tips' = tips /\ writes' = writes
      /\ job' = [job EXCEPT ![j] = x]
  BY DEF Smithy!EditFails
<1>2. rec \in JobRecord /\ Placed(j, rec) /\ Fit(rec) /\ writes \in Nat
  BY JobFacts
<1>3. Keeps(x, rec) /\ x.left = rec.left
  <2> HIDE DEF rec
  <2> QED
    BY <1>2, FailedField, Zenon
<1> HIDE DEF x
<1>4. Fit(x) /\ Stays(x, rec) /\ x.pc = "edit" /\ x.kind = "coding"
  BY <1>1, <1>2, <1>3 DEF Keeps, Kin, Fit, Stays, Placed
<1>5. \A files : Knows(x, files)
  BY <1>4, NothingKnown DEF Smithy!CodeAgents
<1> QED
  BY <1>1, <1>2, <1>4, <1>5, JobMoves

\* The end of the edits keeps the invariant.
LEMMA EditsEndStep ==
    ASSUME ForgeInv, NEW j \in Jobs, Smithy!EditsEnd(j)
    PROVE  ForgeInv' /\ Smithy!Isolation
<1> DEFINE rec == job[j]
           x == Smithy!Started(rec)
<1>1. /\ rec.pc = "edit" /\ tree' = tree /\ head' = head /\ tips' = tips /\ writes' = writes
      /\ job' = [job EXCEPT ![j] = x]
  BY DEF Smithy!EditsEnd
<1>2. rec \in JobRecord /\ Placed(j, rec) /\ writes \in Nat
  BY JobFacts
<1>3. /\ Kin(x, rec) /\ x.pc \in Stages /\ Fit(x)
      /\ \A files : SeenIs(rec, files) => Knows(x, files)
  <2> HIDE DEF rec
  <2> QED
    BY <1>2, StartedKnows, Zenon
<1> HIDE DEF x
<1>4. x.pc \notin {"idle", "edit", "agent"} /\ rec.kind = "coding"
  BY <1>1, <1>2, <1>3 DEF Stages, Placed
<1>5. \A files : Knows(x, files)
  BY <1>3, <1>4 DEF SeenIs
<1> QED
  BY <1>1, <1>2, <1>3, <1>4, <1>5, KinMoves

\* Nobody else's worktree has the branch that an agent commits to.
LEMMA AgentCommitsStep ==
    ASSUME ForgeInv, NEW j \in Jobs, Smithy!AgentCommits(j)
    PROVE  ForgeInv' /\ Smithy!Isolation
<1>1. /\ job[j].pc = "agent" /\ tips' = [tips EXCEPT ![job[j].branch] = tree[j]]
      /\ tree' = tree /\ head' = head /\ job' = job /\ writes' = writes
  BY DEF Smithy!AgentCommits
<1>2. /\ job[j] \in JobRecord /\ Placed(j, job[j]) /\ job[j].kind = "external"
      /\ job[j].root = j /\ job[j].branch \in Branches
  BY <1>1, JobFacts DEF Placed, Smithy!CodeAgents
<1>3. tree[j] # None /\ tree[j] \in Files
  BY <1>1 DEF ForgeInv, ForgeType, TreeInv
<1>4. ForgeType'
  BY <1>1, <1>2, <1>3 DEF ForgeInv, ForgeType
<1>5. TreeInv'
  BY <1>1, TreesStay
<1>6. \A k \in Jobs : k # j => Like(job'[k], job[k])
  BY <1>1, LikeItself DEF ForgeInv, ForgeType
<1>7. KnowsJob(j)'
  <2>1. \A f : Knows(job'[j], f)
    BY <1>1, <1>2, NothingKnown DEF Smithy!CodeAgents
  <2>2. \A f, t : Covered(job'[j], f, t)
    BY <1>1 DEF Covered
  <2> QED
    BY <2>1, <2>2, Zenon DEF KnowsJob
<1>8. ASSUME NEW k \in Jobs, k # j, job[k].pc # "idle", tree[job[k].root] # None, job[k].kind = "external"
      PROVE  tips'[job[k].branch] = tips[job[k].branch]
  <2>1. job[k].root = k /\ job[k].branch \in Branches
    BY <1>8, JobFacts DEF Placed, Smithy!CodeAgents
  <2>2. job[k].branch # job[j].branch
    BY <1>3, <1>8, <2>1 DEF ForgeInv, TreeInv
  <2> QED
    BY <1>1, <2>1, <2>2 DEF ForgeInv, ForgeType
<1>9. Smithy!Isolation
  BY <1>1 DEF Smithy!Isolation
<1> QED
  BY <1>1, <1>2, <1>4, <1>5, <1>6, <1>7, <1>8, <1>9, Framed

ExitOf(rec, paths, lost, failed) == [rec EXCEPT !.paths = paths, !.lost = lost, !.failed = failed]

\* What the exit of an external agent changes of its job.
LEMMA ExitFields ==
    ASSUME NEW rec \in JobRecord, NEW paths \in SUBSET Paths, NEW lost \in SUBSET Paths,
           NEW failed \in BOOLEAN
    PROVE  LET x == ExitOf(rec, paths, lost, failed) IN
           /\ x \in JobRecord /\ x.kind = rec.kind /\ x.root = rec.root /\ x.branch = rec.branch
           /\ x.fresh = rec.fresh /\ x.paths = paths /\ x.lost = lost
<1> DEFINE x == ExitOf(rec, paths, lost, failed)
<1>1. x \in JobRecord
  BY Setters, Zenon DEF ExitOf
<1> QED
  BY <1>1 DEF JobRecord, ExitOf

\* What an agent leaves goes to the gates, but for what git did not list.
LEMMA AgentExitsStep ==
    ASSUME ForgeInv, NEW j \in Jobs, NEW code, NEW kinds, NEW ignored,
           Smithy!AgentExits(j, code, kinds, ignored)
    PROVE  ForgeInv' /\ Smithy!Isolation
<1> DEFINE rec == job[j]
           some == Smithy!Missed(j, kinds, ignored)
           paths == Smithy!Changed(j, some)
           failed == code # 0 \/ paths = {}
           y == ExitOf(rec, paths, some, failed)
           x == Smithy!Started(y)
<1>1. /\ rec.pc = "agent" /\ tree' = tree /\ head' = head /\ tips' = tips /\ writes' = writes
      /\ job' = [job EXCEPT ![j] = x]
  BY DEF ForgeInv, ForgeType, Smithy!AgentExits, ExitOf
<1>2. /\ rec \in JobRecord /\ Placed(j, rec) /\ writes \in Nat
      /\ paths \in SUBSET Paths /\ some \in SUBSET Paths /\ failed \in BOOLEAN
  BY JobFacts DEF Smithy!Changed, Smithy!Missed
<1>3. /\ y \in JobRecord /\ y.kind = rec.kind /\ y.root = rec.root /\ y.branch = rec.branch
      /\ y.fresh = rec.fresh /\ y.paths = paths /\ y.lost = some
  <2> HIDE DEF rec, paths, some, failed
  <2> QED
    BY <1>2, ExitFields
<1> HIDE DEF y
<1>4. /\ Kin(x, y) /\ x.pc \in Stages /\ Fit(x)
      /\ \A files : SeenIs(y, files) => Knows(x, files)
  BY <1>3, StartedKnows, Zenon
<1> HIDE DEF x
<1>5. /\ rec.kind = "external" /\ rec.root = j /\ tree[j] # None /\ tree[j] \in Files
      /\ x.pc \notin {"idle", "edit", "agent"}
  BY <1>1, <1>2, <1>4 DEF Placed, Smithy!CodeAgents, Stages, ForgeInv, ForgeType, TreeInv
<1>6. /\ x \in JobRecord /\ x.kind = "external" /\ x.root = j /\ x.branch = rec.branch
      /\ x.paths = paths /\ x.lost = some /\ x.fresh = rec.fresh
  BY <1>3, <1>4, <1>5 DEF Kin
<1>7. \A files : Knows(x, files)
  BY <1>3, <1>4, <1>5 DEF SeenIs
<1>8. Covered(x, tree[j], tips[rec.branch])
  <2>1. paths = {p \in Paths \ some : tree[j][p] # tips[rec.branch][p]}
    BY <1>5 DEF Smithy!Changed, Smithy!File
  <2> QED
    BY <1>6, <2>1 DEF Covered
<1>9. Stays(x, rec)
  BY <1>5, <1>6 DEF Stays
<1> HIDE DEF paths, some
<1> QED
  BY <1>1, <1>2, <1>4, <1>5, <1>6, <1>7, <1>8, <1>9, JobMoves

\* A commit of the checkout keeps the invariant.
LEMMA CommitStep ==
    ASSUME ForgeInv, Smithy!Commit
    PROVE  ForgeInv' /\ Smithy!Isolation
<1>1. /\ head' = tree[Base] /\ writes' = writes + 1 /\ tree' = tree /\ tips' = tips /\ job' = job
  BY DEF Smithy!Commit, Smithy!Written
<1>2. ForgeType'
  BY <1>1 DEF ForgeInv, ForgeType
<1>3. TreeInv'
  BY <1>1, TreesStay
<1>4. \A k \in Jobs : Like(job'[k], job[k])
  BY <1>1, LikeItself DEF ForgeInv, ForgeType
<1>5. Smithy!Isolation
  BY <1>1 DEF Smithy!Isolation
<1> QED
  BY <1>1, <1>2, <1>3, <1>4, <1>5, ForgeAssumption, Framed

\* A worktree is removed, and who worked in it sees that.
LEMMA DiscardStep ==
    ASSUME ForgeInv, NEW j \in Jobs, Smithy!Discard(j)
    PROVE  ForgeInv' /\ Smithy!Isolation
<1> DEFINE others == Smithy!Disturbed(j, j)
<1>1. /\ job[j].pc = "done" /\ job' = [others EXCEPT ![j] = Smithy!Idle]
      /\ tree' = [tree EXCEPT ![j] = None] /\ head' = head /\ tips' = tips /\ writes' = writes
  BY DEF Smithy!Discard
<1>2. /\ others \in [Jobs -> JobRecord]
      /\ \A k \in Jobs : /\ Like(others[k], job[k])
                         /\ k # j /\ job[k].root = j /\ job[k].pc # "idle" => ~others[k].fresh
  BY DisturbedJobs DEF ForgeInv, ForgeType
<1> HIDE DEF others
<1>3. job'[j] = Smithy!Idle /\ job'[j].pc = "idle" /\ \A k \in Jobs : k # j => job'[k] = others[k]
  BY <1>1, <1>2, IdleRecord
<1>4. /\ tree' \in [{Base} \cup Jobs -> Files \cup {None}] /\ tree'[Base] \in Files
      /\ tree'[j] = None /\ \A r \in {Base} \cup Jobs : r # j => tree'[r] = tree[r]
  BY <1>1, ForgeAssumption DEF ForgeInv, ForgeType
<1>5. ForgeType'
  BY <1>1, <1>2, <1>4, IdleRecord DEF ForgeInv, ForgeType
<1>6. \A k \in Jobs : k # j => Like(job'[k], job[k])
  BY <1>2, <1>3
<1>7. Placed(j, job'[j]) /\ KnowsJob(j)'
  <2>1. Fit(Smithy!Idle)
    BY DEF Fit, Smithy!Idle, Stages
  <2> QED
    BY <1>3, <2>1 DEF Placed, KnowsJob
<1>8. TreeInv'
  <2>1. \A i \in Jobs : tree'[i] # None => i # j /\ tree[i] # None
    BY <1>4
  <2>2. \A i \in Jobs : i # j => /\ job'[i].kind = job[i].kind /\ job'[i].root = job[i].root
                                 /\ job'[i].branch = job[i].branch /\ job'[i].pc = job[i].pc
                                 /\ job'[i].fresh => job[i].fresh
    BY <1>6 DEF Like
  <2>3. \A i \in Jobs : tree'[i] # None => job'[i].kind \in Smithy!CodeAgents /\ job'[i].pc # "idle"
    BY <2>1, <2>2 DEF ForgeInv, TreeInv
  <2>4. \A i \in Jobs : job'[i].pc \in {"edit", "agent"} => tree'[i] # None
    BY <1>3, <1>4, <2>2 DEF ForgeInv, TreeInv
  <2>5. \A i, k \in Jobs : tree'[i] # None /\ tree'[k] # None /\ job'[i].branch = job'[k].branch => i = k
    BY <2>1, <2>2 DEF ForgeInv, TreeInv
  <2>6. ASSUME NEW i \in Jobs, NEW k \in Jobs, job'[i].pc # "idle", job'[i].fresh, job'[i].root = k, i # k
        PROVE  job'[k].kind \in Smithy!CodeAgents /\ job'[k].pc # "idle"
    <3>1. i # j /\ k # j
      BY <1>2, <1>3, <2>2, <2>6
    <3> QED
      BY <2>2, <2>6, <3>1 DEF ForgeInv, TreeInv
  <2> QED
    BY <2>3, <2>4, <2>5, <2>6 DEF TreeInv
<1>9. ASSUME NEW k \in Jobs, k # j, tree'[job[k].root] # None
      PROVE  tree'[job[k].root] = tree[job[k].root]
  BY <1>4, <1>9, JobFacts
<1>10. Smithy!Isolation
  BY <1>4 DEF Smithy!Isolation
<1> QED
  BY <1>1, <1>5, <1>6, <1>7, <1>8, <1>9, <1>10, Framed

\* So does a step of another part.
LEMMA ForgeStays ==
    ASSUME ForgeInv, UNCHANGED smithy
    PROVE  ForgeInv'
<1>1. tree' = tree /\ head' = head /\ tips' = tips /\ job' = job /\ writes' = writes
  BY DEF smithy
<1>2. ForgeType' /\ \A k \in Jobs : Like(job'[k], job[k])
  BY <1>1, LikeItself DEF ForgeInv, ForgeType
<1>3. TreeInv'
  BY <1>1, TreesStay
<1> QED
  BY <1>1, <1>2, <1>3, ForgeAssumption, Framed

\* The invariant holds initially.
LEMMA ForgeInitial ==
    ASSUME MCInit
    PROVE  ForgeInv
<1>1. /\ head \in [Paths -> {"clean", "absent"}] /\ writes = 0
      /\ tree = [r \in {Base} \cup Jobs |-> IF r = Base THEN head ELSE None]
      /\ tips = [b \in Branches |-> None]
      /\ job = [j \in Jobs |-> Smithy!Idle]
  BY DEF MCInit, Smithy!Init
<1>2. head \in Files
  BY <1>1 DEF Files, FileKinds
<1>3. ForgeType
  BY <1>1, <1>2, IdleRecord DEF ForgeType
<1>4. \A j \in Jobs : job[j].pc = "idle" /\ Fit(job[j]) /\ tree[j] = None
  <2>1. Fit(Smithy!Idle)
    BY DEF Fit, Smithy!Idle, Stages
  <2> QED
    BY <1>1, <2>1, IdleRecord, ForgeAssumption
<1>5. TreeInv
  BY <1>4 DEF TreeInv
<1>6. \A j \in Jobs : Placed(j, job[j]) /\ KnowsJob(j)
  BY <1>4 DEF Placed, KnowsJob
<1> QED
  BY <1>3, <1>5, <1>6 DEF ForgeInv, KnowsInv

\* How a review is asked for.
LEMMA ReviewAsked ==
    ASSUME NEW how \in {<<4, FALSE>>, <<5, FALSE>>, <<4, TRUE>>}
    PROVE  how[1] \in {4, 5} /\ how[2] \in BOOLEAN
<1>1. \A a, b : <<a, b>>[1] = a
  OBVIOUS
<1>2. \A a, b : <<a, b>>[2] = b
  OBVIOUS
<1>3. how = <<4, FALSE>> \/ how = <<5, FALSE>> \/ how = <<4, TRUE>>
  OBVIOUS
<1>4. how[1] \in {4, 5}
  BY <1>1, <1>3, Zenon
<1>5. how[2] \in BOOLEAN
  BY <1>2, <1>3, Zenon
<1> QED
  BY <1>4, <1>5

\* Every step of the forge keeps the invariant and writes only its job's own worktree.
LEMMA ForgeNext ==
    ASSUME ForgeInv, Smithy!Next
    PROVE  ForgeInv' /\ Smithy!Isolation
<1>1. ASSUME NEW j \in Jobs, NEW r \in {Base} \cup Jobs, NEW asked \in Smithy!Requests,
             NEW wants \in BOOLEAN,
             \/ Smithy!Check(j, "pipeline", r, asked[1], asked[2], wants, 4, FALSE)
             \/ \E how \in {<<4, FALSE>>, <<5, FALSE>>, <<4, TRUE>>} :
                   Smithy!Check(j, "review", r, asked[1], asked[2], wants, how[1], how[2])
      PROVE  ForgeInv' /\ Smithy!Isolation
  <2>1. asked[1] \in SUBSET Paths /\ asked[2] \in {"ok", "bad", "over"}
    BY DEF Smithy!Requests
  <2>2. {"pipeline", "review"} \subseteq Works \ Smithy!CodeAgents
    BY DEF Works, Smithy!CodeAgents
  <2> DEFINE paths == asked[1]
             form == asked[2]
  <2>3. ASSUME NEW kind \in {"pipeline", "review"}, NEW threshold \in {4, 5}, NEW llm \in BOOLEAN,
               Smithy!Check(j, kind, r, paths, form, wants, threshold, llm)
        PROVE  ForgeInv' /\ Smithy!Isolation
    <3> HIDE DEF paths, form
    <3>1. paths \in SUBSET Paths /\ form \in {"ok", "bad", "over"}
      BY <2>1 DEF paths, form
    <3>2. kind \in Works /\ kind \notin Smithy!CodeAgents
      BY <2>2
    <3>3. Requested(kind, r, paths, form, wants, threshold, llm)
      BY <3>1, <3>2 DEF Requested
    <3> QED
      BY <2>3, <3>2, <3>3, CheckStep
  <2>4. ASSUME NEW how \in {<<4, FALSE>>, <<5, FALSE>>, <<4, TRUE>>},
               Smithy!Check(j, "review", r, asked[1], asked[2], wants, how[1], how[2])
        PROVE  ForgeInv' /\ Smithy!Isolation
    <3> DEFINE threshold == how[1]
               llm == how[2]
    <3>2. threshold \in {4, 5} /\ llm \in BOOLEAN
      BY ReviewAsked
    <3> HIDE DEF threshold, llm, paths, form
    <3>3. Smithy!Check(j, "review", r, paths, form, wants, threshold, llm)
      BY <2>4, Zenon DEF threshold, llm, paths, form
    <3>4. "review" \in {"pipeline", "review"}
      OBVIOUS
    <3> QED
      BY <2>3, <3>2, <3>3, <3>4, Zenon
  <2> QED
    BY <1>1, <2>3, <2>4
<1>2. ASSUME NEW j \in Jobs, NEW kind \in {"evidence", "holdout"}, NEW r \in {Base} \cup Jobs,
             Smithy!Check(j, kind, r, Paths, "ok", FALSE, 4, FALSE)
      PROVE  ForgeInv' /\ Smithy!Isolation
  <2>1. Requested(kind, r, Paths, "ok", FALSE, 4, FALSE) /\ kind \notin Smithy!CodeAgents
    BY DEF Requested, Works, Smithy!CodeAgents
  <2> QED
    BY <1>2, <2>1, CheckStep
<1>3. ASSUME NEW j \in Jobs, NEW b \in Branches, NEW wants \in BOOLEAN,
             \/ \E n \in 0 .. MaxEdits + 1 : Smithy!Launch(j, "coding", b, n, wants)
             \/ Smithy!Launch(j, "external", b, 0, wants)
      PROVE  ForgeInv' /\ Smithy!Isolation
  <2>1. \A n \in 0 .. MaxEdits + 1 : n \in Nat
    BY ForgeAssumption
  <2>2. "coding" \in Smithy!CodeAgents /\ "external" \in Smithy!CodeAgents
    BY DEF Smithy!CodeAgents
  <2> QED
    BY <1>3, <2>1, <2>2, LaunchStep
<1>4. ASSUME NEW j \in Jobs, NEW p \in Paths, NEW k \in Kinds,
             Smithy!ApplyEdit(j, p, k) \/ Smithy!AgentWrites(j, p, k)
      PROVE  ForgeInv' /\ Smithy!Isolation
  BY <1>4, ApplyEditStep, AgentWritesStep
<1>5. ASSUME NEW j \in Jobs, Smithy!EditFails(j) \/ Smithy!EditsEnd(j) \/ Smithy!AgentCommits(j)
      PROVE  ForgeInv' /\ Smithy!Isolation
  BY <1>5, EditFailsStep, EditsEndStep, AgentCommitsStep
<1>6. ASSUME NEW j \in Jobs, NEW code \in {0, 1}, NEW kinds \in SUBSET {"tracked", "new"},
             NEW ignored \in SUBSET Paths, Smithy!AgentExits(j, code, kinds, ignored)
      PROVE  ForgeInv' /\ Smithy!Isolation
  BY <1>6, AgentExitsStep
<1>7. ASSUME NEW j \in Jobs, NEW p \in Paths, Smithy!Read(j, p) \/ Smithy!ReadFails(j, p)
      PROVE  ForgeInv' /\ Smithy!Isolation
  BY <1>7, ReadStep
<1>8. ASSUME NEW j \in Jobs, NEW o,
             \/ Smithy!StageEnds(j) \/ Smithy!GateRaises(j)
             \/ o \in {"PASS", "FAIL", "raises"} /\ Smithy!Tests(j, o)
             \/ Smithy!Command(j, o) \/ Smithy!Scenario(j, o)
      PROVE  ForgeInv' /\ Smithy!Isolation
  BY <1>8, StageEndsStep, GateRaisesStep, TestsStep, CommandStep, ScenarioStep
<1>9. ASSUME NEW j \in Jobs, NEW a,
             \/ Smithy!Discard(j) \/ Smithy!Verdict(j) \/ Smithy!HeuristicRound(j)
             \/ Smithy!ModelRound(j, a)
      PROVE  ForgeInv' /\ Smithy!Isolation
  BY <1>9, DiscardStep, VerdictStep, HeuristicRoundStep, ModelRoundStep
<1>10. ASSUME NEW r \in {Base} \cup Jobs, NEW p \in Paths, NEW k \in Kinds, Smithy!Write(r, p, k)
       PROVE  ForgeInv' /\ Smithy!Isolation
  BY <1>10, EditorWritesStep
<1>11. CASE Smithy!Commit
  BY <1>11, CommitStep
<1> QED
  BY <1>1, <1>2, <1>3, <1>4, <1>5, <1>6, <1>7, <1>8, <1>9, <1>10, <1>11, ZenonT(60) DEF Smithy!Next

\* ForgeInv holds in every state, for any jobs, files, rounds and edits (src/agency/forge).
THEOREM ForgeInvariant == MCSpec => []ForgeInv
<1>1. MCInit => ForgeInv
  BY ForgeInitial
<1>2. ForgeInv /\ [MCNext]_vars => ForgeInv'
  <2> SUFFICES ASSUME ForgeInv, [MCNext]_vars
               PROVE  ForgeInv'
    OBVIOUS
  <2>1. CASE Smithy!Next
    BY <2>1, ForgeNext
  <2>2. CASE UNCHANGED smithy
    BY <2>2, ForgeStays
  <2> QED
    BY <2>1, <2>2, Zenon DEF MCNext, vars
<1> QED
  BY <1>1, <1>2, PTL DEF MCSpec

\* A passed report is about the files that are there.
LEMMA VerdictsHold ==
    ASSUME ForgeInv
    PROVE  Smithy!VerdictSound
<1> SUFFICES ASSUME NEW j \in Jobs, Smithy!Report(j), ~job[j].skipped, ~Smithy!Modelled(job[j])
             PROVE  LET rec == job[j]
                        now_ == tree[rec.root]
                    IN  /\ rec.kind \in {"pipeline", "review", "coding", "external"} =>
                              rec.paths # {} /\ \A p \in rec.paths : now_[p] \in Smithy!Good
                        /\ rec.kind = "external" =>
                              Smithy!Changed(j, rec.lost) \subseteq rec.paths
                        /\ rec.kind = "evidence" => \A s \in rec.seen : now_[s[1]] = s[2]
                        /\ rec.kind = "holdout" => rec.seen \subseteq {now_}
  BY Zenon DEF Smithy!VerdictSound
<1> DEFINE rec == job[j]
           files == tree[rec.root]
<1>1. /\ rec.pc = "done" /\ rec.gate = "PASS" /\ rec.fresh /\ files # None
      /\ rec \in JobRecord /\ Placed(j, rec)
      /\ Knows(rec, files)
      /\ rec.kind = "external" => Covered(rec, files, tips[rec.branch])
  BY JobFacts DEF Smithy!Report, KnowsJob
<1>2. rec.kind \in {"pipeline", "review", "coding", "external"} =>
          rec.paths # {} /\ \A p \in rec.paths : files[p] \in Smithy!Good
  <2>1. Ok(rec)
    BY <1>1 DEF Ok
  <2> QED
    BY <1>1, <2>1 DEF Knows, Gates, Gated
<1>3. rec.kind = "external" => Smithy!Changed(j, rec.lost) \subseteq rec.paths
  <2>1. ASSUME rec.kind = "external", NEW p \in Smithy!Changed(j, rec.lost)
        PROVE  p \in rec.paths
    <3>1. rec.root = j
      BY <1>1, <2>1 DEF Placed, Smithy!CodeAgents
    <3>2. p \in Paths /\ p \notin rec.lost /\ files[p] # tips[rec.branch][p]
      BY <1>1, <2>1, <3>1 DEF Smithy!Changed, Smithy!File
    <3> QED
      BY <1>1, <2>1, <3>2 DEF Covered
  <2> QED
    BY <2>1
<1>4. /\ rec.kind = "evidence" => \A s \in rec.seen : files[s[1]] = s[2]
      /\ rec.kind = "holdout" => rec.seen \subseteq {files}
  BY <1>1 DEF Knows
<1> QED
  BY <1>2, <1>3, <1>4

\* What the merge queue lets through was passed by its gates; of the protected paths only
\* those with a leading dot need no approval.
LEMMA MergesHold ==
    ASSUME ForgeInv
    PROVE  Smithy!MergeSound
<1> SUFFICES ASSUME NEW j \in Jobs, NEW approved \in BOOLEAN, Smithy!Change(j),
                    Smithy!MergeAllowed(job[j], "PASS", approved)
             PROVE  /\ job[j].fresh /\ ~job[j].skipped /\ tree[job[j].root] # None =>
                          /\ job[j].paths # {}
                          /\ \A p \in job[j].paths : tree[job[j].root][p] \in Smithy!Good
                    /\ ~approved => job[j].paths \cap Protected \subseteq Dotted
  BY Zenon DEF Smithy!MergeSound
<1>1. /\ job[j].pc = "done" /\ job[j].kind \in Gated
      /\ job[j].inspection = "PASS" /\ job[j].security = "PASS"
      /\ ~approved => job[j].paths \cap Protected \subseteq Dotted
  BY DEF Smithy!Change, Smithy!MergeAllowed, Smithy!Touched, Gated
<1>2. ASSUME job[j].fresh, ~job[j].skipped, tree[job[j].root] # None
      PROVE  job[j].paths # {} /\ \A p \in job[j].paths : tree[job[j].root][p] \in Smithy!Good
  <2>1. Knows(job[j], tree[job[j].root])
    BY <1>1, <1>2, JobFacts DEF KnowsJob
  <2>2. Ok(job[j])
    BY <1>1, <1>2 DEF Ok, Gated
  <2> QED
    BY <1>1, <2>1, <2>2 DEF Knows, Gates
<1> QED
  BY <1>1, <1>2

\* For any jobs, files, edits and rounds, beside any editors, commits and agents: a passed
\* report whose gates ran is about the files that are there as long as nobody else wrote them;
\* the merge queue lets nothing through that a gate would have refused, and no protected path
\* without approval unless it begins with a dot; a job writes nothing but its own worktree
\* (pipeline.py, reviewer.py, coding_agent.py, external_agent.py, merge_queue.py).
THEOREM ForgeSoundHolds == MCSpec => ForgeSound
<1>1. ForgeInv => (focus = "smithy" => Smithy!VerdictSound /\ Smithy!MergeSound)
  BY VerdictsHold, MergesHold
<1>2. ForgeInv /\ [MCNext]_vars => [focus = "smithy" => Smithy!Isolation]_smithy
  <2> SUFFICES ASSUME ForgeInv, [MCNext]_vars, smithy' # smithy
               PROVE  Smithy!Isolation
    OBVIOUS
  <2>1. Smithy!Next
    BY Zenon DEF MCNext, vars
  <2> QED
    BY <2>1, ForgeNext
<1> QED
  BY <1>1, <1>2, ForgeInvariant, PTL DEF MCSpec, ForgeSound

-----------------------------------------------------------------------------
(***************************************************************************)
(* Findings, their evidence and the scores of their agents (Evidence).      *)
(***************************************************************************)

\* The levels of the ladder.
EvLevels == 0 .. Top

\* A set of numbers has a least one.
LEMMA LeastNumber ==
    ASSUME NEW S, S \subseteq Nat, S # {}
    PROVE  \E m \in S : \A k \in S : m <= k
<1> DEFINE R == OpToRel(<, Nat)
<1>1. IsWellFoundedOn(R, Nat)
  BY NatLessThanWellFounded
<1>2. \A x, y \in Nat : x < y => <<x, y>> \in R
  BY DEF OpToRel
<1> HIDE DEF R
<1>3. PICK x \in S : \A y \in S : ~(<<y, x>> \in R)
  BY <1>1, WFMin
<1>4. ASSUME NEW k \in S PROVE x <= k
  <2>1. k \in Nat /\ x \in Nat /\ ~(k < x)
    BY <1>2, <1>3
  <2> QED
    BY <2>1
<1> QED
  BY <1>4

\* A set of numbers from 1 to n has a greatest one.
LEMMA GreatestNumber ==
    ASSUME NEW n \in Nat, NEW S, S \subseteq 1 .. n, S # {}
    PROVE  \E m \in S : \A k \in S : k <= m
<1> DEFINE D == {n - r : r \in S}
<1>0. PICK s \in S : TRUE
  OBVIOUS
<1>1. D \subseteq Nat /\ n - s \in D
  OBVIOUS
<1> HIDE DEF D
<1>2. PICK d \in D : \A k \in D : d <= k
  BY <1>1, LeastNumber
<1>3. PICK m \in S : d = n - m
  BY DEF D
<1>4. ASSUME NEW k \in S PROVE k <= m
  <2>1. n - k \in D
    BY DEF D
  <2>2. n - m <= n - k
    BY <1>2, <1>3, <2>1
  <2> QED
    BY <2>2
<1> QED
  BY <1>4

\* The levels of a finding after one more entry t, and after each of the first n entries.
Climbed(h, t, f) == IF t.finding = f THEN Append(h, t.level) ELSE h

History(g, n, f, trail) ==
    g = [i \in 0 .. n |-> IF i = 0 THEN <<>> ELSE Climbed(g[i - 1], trail[i], f)]

\* What the recursion that History stands for computes, entry by entry.
LEMMA HistoryValues ==
    ASSUME NEW g, NEW n \in Nat, NEW f, NEW trail, History(g, n, f, trail)
    PROVE  g[0] = <<>> /\ \A i \in 1 .. n : g[i] = Climbed(g[i - 1], trail[i], f)
<1> DEFINE body(i) == IF i = 0 THEN <<>> ELSE Climbed(g[i - 1], trail[i], f)
<1>1. g = [i \in 0 .. n |-> body(i)]
  BY DEF History
<1>2. body(0) = <<>> /\ \A i \in 1 .. n : body(i) = Climbed(g[i - 1], trail[i], f)
  OBVIOUS
<1> HIDE DEF body
<1>3. \A i \in 0 .. n : g[i] = body(i)
  BY <1>1
<1>4. 0 \in 0 .. n /\ \A i \in 1 .. n : i \in 0 .. n
  OBVIOUS
<1> QED
  BY <1>2, <1>3, <1>4

\* Every trail has its histories.
LEMMA HistoryExists ==
    ASSUME NEW f, NEW trail, NEW n \in Nat
    PROVE  \E g : History(g, n, f, trail)
<1> DEFINE D == {k \in Nat : ~\E g : History(g, k, f, trail)}
<1>1. ASSUME D # {} PROVE FALSE
  <2>1. D \subseteq Nat
    OBVIOUS
  <2>2. PICK k \in D : \A j \in D : k <= j
    <3> HIDE DEF D
    <3> QED
      BY <1>1, <2>1, LeastNumber
  <2>3. k \in Nat /\ ~\E g : History(g, k, f, trail)
    BY <2>2
  <2>4. k # 0
    <3> DEFINE g == [i \in {0} |-> <<>>]
    <3>1. g = [i \in 0 .. 0 |-> IF i = 0 THEN <<>> ELSE Climbed(g[i - 1], trail[i], f)]
      <4>1. 0 .. 0 = {0}
        OBVIOUS
      <4> QED
        BY <4>1
    <3>2. History(g, 0, f, trail)
      BY <3>1 DEF History
    <3> QED
      BY <2>3, <3>2
  <2>5. k - 1 \in Nat /\ k - 1 \notin D
    BY <2>2, <2>3, <2>4
  <2>6. PICK h : History(h, k - 1, f, trail)
    BY <2>5
  <2> DEFINE last == Climbed(h[k - 1], trail[k], f)
             g == [i \in 0 .. k |-> IF i = k THEN last ELSE h[i]]
  <2>7. h[0] = <<>> /\ \A i \in 1 .. k - 1 : h[i] = Climbed(h[i - 1], trail[i], f)
    BY <2>5, <2>6, HistoryValues
  <2>8. \A i \in 0 .. k : g[i] = IF i = k THEN last ELSE h[i]
    OBVIOUS
  <2>9. g = [i \in 0 .. k |-> g[i]]
    OBVIOUS
  <2>10. last = Climbed(h[k - 1], trail[k], f)
    OBVIOUS
  <2> HIDE DEF g, last
  <2>11. ASSUME NEW i \in 0 .. k
         PROVE  g[i] = IF i = 0 THEN <<>> ELSE Climbed(g[i - 1], trail[i], f)
    <3>1. CASE i = 0
      BY <2>3, <2>4, <2>7, <2>8, <3>1
    <3>2. CASE i = k
      <4>1. k - 1 \in 0 .. k /\ k - 1 # k /\ k \in 0 .. k
        BY <2>3, <2>4
      <4>2. g[k] = last /\ g[k - 1] = h[k - 1]
        BY <2>8, <4>1
      <4> QED
        BY <2>4, <2>10, <3>2, <4>2
    <3>3. CASE i # 0 /\ i # k
      <4>1. i \in 1 .. k - 1 /\ i - 1 \in 0 .. k /\ i - 1 # k
        BY <2>3, <3>3
      <4>2. g[i] = h[i] /\ g[i - 1] = h[i - 1] /\ h[i] = Climbed(h[i - 1], trail[i], f)
        BY <2>7, <2>8, <3>3, <4>1
      <4> QED
        BY <3>3, <4>2
    <3> QED
      BY <3>1, <3>2, <3>3
  <2>12. History(g, k, f, trail)
    BY <2>9, <2>11 DEF History
  <2> QED
    BY <2>3, <2>12
<1> QED
  BY <1>1

\* A row of the evidence table.
EvEntry == [id : Entries, finding : Findings, level : EvLevels]

\* The levels of a finding are levels.
LEMMA LevelsTyped ==
    ASSUME NEW f, NEW trail \in Seq(EvEntry)
    PROVE  Findbook!LevelsOf(f, trail) \in Seq(EvLevels)
<1> DEFINE n == Len(trail)
           upto == CHOOSE g : g = [i \in 0 .. n |->
               IF i = 0 THEN <<>>
               ELSE IF trail[i].finding = f THEN Append(g[i - 1], trail[i].level)
               ELSE g[i - 1]]
           D == {k \in 0 .. n : upto[k] \notin Seq(EvLevels)}
<1>1. Findbook!LevelsOf(f, trail) = upto[n]
  BY DEF Findbook!LevelsOf
<1>2. upto = CHOOSE g : History(g, n, f, trail)
  BY DEF History, Climbed
<1> HIDE DEF upto
<1>3. n \in Nat /\ \A i \in 1 .. n : trail[i] \in EvEntry
  OBVIOUS
<1>4. History(upto, n, f, trail)
  <2>1. \E g : History(g, n, f, trail)
    BY <1>3, HistoryExists
  <2> QED
    BY <1>2, <2>1
<1>5. upto[0] = <<>> /\ \A i \in 1 .. n : upto[i] = Climbed(upto[i - 1], trail[i], f)
  BY <1>3, <1>4, HistoryValues
<1>6. ASSUME D # {} PROVE FALSE
  <2>1. D \subseteq Nat
    BY <1>3
  <2>2. PICK k \in D : \A j \in D : k <= j
    <3> HIDE DEF D
    <3> QED
      BY <1>6, <2>1, LeastNumber
  <2>3. k \in 0 .. n /\ upto[k] \notin Seq(EvLevels)
    BY <2>2
  <2>4. k # 0
    <3>1. <<>> \in Seq(EvLevels)
      OBVIOUS
    <3> QED
      BY <1>5, <2>3, <3>1
  <2>5. k \in 1 .. n /\ k - 1 \in 0 .. n /\ ~(k <= k - 1)
    BY <1>3, <2>3, <2>4
  <2>6. upto[k - 1] \in Seq(EvLevels)
    BY <2>2, <2>5
  <2>7. trail[k].level \in EvLevels
    BY <1>3, <2>5 DEF EvEntry
  <2>8. upto[k] = Climbed(upto[k - 1], trail[k], f)
    BY <1>5, <2>5
  <2>9. Append(upto[k - 1], trail[k].level) \in Seq(EvLevels)
    BY <2>6, <2>7, AppendProperties
  <2>10. upto[k] \in Seq(EvLevels)
    BY <2>6, <2>8, <2>9, Zenon DEF Climbed
  <2> QED
    BY <2>3, <2>10
<1>7. n \in 0 .. n
  BY <1>3
<1> QED
  BY <1>1, <1>6, <1>7

-----------------------------------------------------------------------------
(* The ladder.                                                             *)

\* One rung above the level before, or above the hypothesis.
LEMMA RungIs ==
    ASSUME NEW from \in EvLevels \cup {None}, NEW to \in EvLevels
    PROVE  Findbook!CanTransition(from, to) <=> to = (IF from = None THEN 1 ELSE from + 1)
<1>1. None \notin EvLevels /\ \A e \in EvLevels : e \in Nat
  BY FindbookAssumption DEF EvLevels
<1>2. CASE from = None
  BY <1>1, <1>2 DEF Findbook!CanTransition
<1>3. CASE from # None
  BY <1>1, <1>3 DEF Findbook!CanTransition
<1> QED
  BY <1>2, <1>3

\* A valid history begins at 0 or 1 and then climbs by one.
Ascends(levels) ==
    /\ 1 \in DOMAIN levels => levels[1] \in {0, 1}
    /\ \A i \in DOMAIN levels : i # 1 => levels[i] = levels[i - 1] + 1

\* validate_chain accepts exactly these histories.
LEMMA ChainAscends ==
    ASSUME NEW levels \in Seq(EvLevels)
    PROVE  Findbook!ValidateChain(levels) <=> Ascends(levels)
<1>1. None \notin EvLevels /\ (\A e \in EvLevels : e \in Nat) /\ 0 \in EvLevels
  BY FindbookAssumption DEF EvLevels
<1>2. ASSUME NEW i \in DOMAIN levels
      PROVE  (IF levels[i] = 0 THEN i = 1
              ELSE Findbook!CanTransition(IF i = 1 THEN None ELSE levels[i - 1], levels[i]))
             <=> (IF i = 1 THEN levels[1] \in {0, 1} ELSE levels[i] = levels[i - 1] + 1)
  <2>1. i \in Nat \ {0} /\ levels[i] \in EvLevels
    OBVIOUS
  <2>2. CASE i = 1
    <3>1. Findbook!CanTransition(None, levels[1]) <=> levels[1] = 1
      BY <2>1, <2>2, RungIs
    <3> QED
      BY <2>2, <3>1
  <2>3. CASE i # 1
    <3>1. i - 1 \in DOMAIN levels
      BY <2>1, <2>3
    <3>2. levels[i - 1] \in EvLevels
      BY <3>1
    <3>3. Findbook!CanTransition(levels[i - 1], levels[i]) <=> levels[i] = levels[i - 1] + 1
      BY <1>1, <2>1, <3>2, RungIs
    <3>4. levels[i - 1] \in Nat /\ levels[i] \in Nat
      BY <1>1, <2>1, <3>2
    <3>5. levels[i] = levels[i - 1] + 1 => levels[i] # 0
      BY <3>4
    <3> QED
      BY <2>3, <3>3, <3>5, Zenon
  <2> QED
    BY <2>2, <2>3
<1> QED
  BY <1>2 DEF Ascends, Findbook!ValidateChain

\* Climbing by one from the first level.
LEMMA AscentIs ==
    ASSUME NEW levels \in Seq(EvLevels), Ascends(levels)
    PROVE  \A i \in DOMAIN levels : levels[i] = levels[1] + i - 1
<1> DEFINE D == {i \in DOMAIN levels : levels[i] # levels[1] + i - 1}
<1>1. \A e \in EvLevels : e \in Nat
  BY FindbookAssumption DEF EvLevels
<1>2. ASSUME D # {} PROVE FALSE
  <2>1. D \subseteq Nat
    OBVIOUS
  <2>2. PICK i \in D : \A j \in D : i <= j
    <3> HIDE DEF D
    <3> QED
      BY <1>2, <2>1, LeastNumber
  <2>3. i \in DOMAIN levels /\ i \in Nat \ {0} /\ levels[i] # levels[1] + i - 1
    BY <2>2
  <2>4. 1 \in DOMAIN levels
    BY <2>3
  <2>5. levels[1] \in EvLevels
    BY <2>4
  <2>55. levels[1] \in Nat
    BY <1>1, <2>5
  <2>6. i # 1
    BY <2>3, <2>55
  <2>7. i - 1 \in DOMAIN levels /\ ~(i <= i - 1)
    BY <2>3, <2>6
  <2>8. levels[i - 1] = levels[1] + (i - 1) - 1
    BY <2>2, <2>7
  <2>9. levels[i] = levels[i - 1] + 1
    BY <2>3, <2>6 DEF Ascends
  <2> QED
    BY <2>3, <2>55, <2>8, <2>9
<1> QED
  BY <1>2

\* The highest level of an ascent is its last one.
LEMMA ReachedIs ==
    ASSUME NEW levels \in Seq(EvLevels), Ascends(levels), levels # <<>>
    PROVE  Findbook!LatestEvidenceLevel(levels) = levels[Len(levels)]
<1> DEFINE R == Findbook!Range(levels)
           n == Len(levels)
<1>1. \A e \in EvLevels : e \in Nat
  BY FindbookAssumption DEF EvLevels
<1>2. n \in DOMAIN levels /\ 1 \in DOMAIN levels /\ n \in Nat
  OBVIOUS
<1>3. levels[1] \in Nat
  <2>1. levels[1] \in EvLevels
    BY <1>2
  <2> QED
    BY <1>1, <2>1
<1>4. \A i \in DOMAIN levels : levels[i] \in Nat /\ levels[n] >= levels[i]
  <2>1. \A i \in DOMAIN levels : i \in Nat /\ i <= n
    OBVIOUS
  <2>2. \A i \in DOMAIN levels : levels[i] = levels[1] + i - 1
    BY AscentIs
  <2>3. \A i \in DOMAIN levels : i # 0
    OBVIOUS
  <2> SUFFICES ASSUME NEW i \in DOMAIN levels PROVE levels[i] \in Nat /\ levels[n] >= levels[i]
    OBVIOUS
  <2> DEFINE a == levels[1]
             b == levels[i]
             c == levels[n]
             k == n
  <2>4. i \in Nat \ {0} /\ i <= k /\ k \in Nat /\ a \in Nat /\ b = a + i - 1 /\ c = a + k - 1
    BY <1>2, <1>3, <2>1, <2>2, <2>3
  <2> HIDE DEF a, b, c, k
  <2>5. b \in Nat /\ c >= b
    BY <2>4
  <2> QED
    BY <2>5 DEF b, c, k
<1>5. levels[n] \in R /\ \A l \in R : l \in Nat /\ levels[n] >= l
  BY <1>2, <1>4 DEF Findbook!Range
<1>6. Findbook!LatestEvidenceLevel(levels) = Findbook!Max(R)
  BY DEF Findbook!LatestEvidenceLevel
<1> HIDE DEF R
<1>7. Findbook!Max(R) = levels[n]
  <2> DEFINE m == Findbook!Max(R)
             top == levels[n]
  <2>1. m \in R /\ \A l \in R : m >= l
    BY <1>5 DEF Findbook!Max
  <2>2. top \in R /\ \A l \in R : l \in Nat /\ top >= l
    BY <1>5
  <2> HIDE DEF m, top
  <2>3. m \in Nat /\ top \in Nat /\ m >= top /\ top >= m
    BY <2>1, <2>2
  <2>4. m = top
    BY <2>3
  <2> QED
    BY <2>4 DEF m, top
<1> QED
  BY <1>6, <1>7

\* What may follow: the history goes on with a level exactly if it is the next rung.
LEMMA AppendAscends ==
    ASSUME NEW levels \in Seq(EvLevels), Ascends(levels), NEW l \in EvLevels, l # 0
    PROVE  Findbook!ValidateChain(Append(levels, l))
               <=> Findbook!CanTransition(Findbook!LatestEvidenceLevel(levels), l)
<1> DEFINE n == Len(levels)
           more == Append(levels, l)
           reached == Findbook!LatestEvidenceLevel(levels)
<1>1. None \notin EvLevels /\ \A e \in EvLevels : e \in Nat
  BY FindbookAssumption DEF EvLevels
<1>2. more \in Seq(EvLevels) /\ n \in Nat /\ DOMAIN more = 1 .. n + 1 /\ DOMAIN levels = 1 .. n
  OBVIOUS
<1>3. more[n + 1] = l /\ \A i \in 1 .. n : more[i] = levels[i]
  OBVIOUS
<1>4. Findbook!ValidateChain(more) <=> Ascends(more)
  BY <1>2, ChainAscends
<1> HIDE DEF more
<1>5. CASE n = 0
  <2>1. reached = None
    BY <1>5 DEF Findbook!LatestEvidenceLevel
  <2>2. Ascends(more) <=> l = 1
    BY <1>1, <1>2, <1>3, <1>5 DEF Ascends
  <2>3. Findbook!CanTransition(None, l) <=> l = 1
    BY RungIs
  <2> QED
    BY <1>4, <2>1, <2>2, <2>3 DEF more
<1>6. CASE n # 0
  <2>1. reached = levels[n]
    BY <1>6, ReachedIs
  <2>2. levels[n] \in EvLevels
    BY <1>2, <1>6
  <2>3. Ascends(more) <=> l = levels[n] + 1
    <3>1. ASSUME Ascends(more) PROVE l = levels[n] + 1
      <4>1. n + 1 \in DOMAIN more /\ n + 1 # 1 /\ (n + 1) - 1 = n /\ n \in 1 .. n
        BY <1>2, <1>6
      <4>2. more[n + 1] = more[(n + 1) - 1] + 1
        BY <3>1, <4>1 DEF Ascends
      <4> QED
        BY <1>3, <4>1, <4>2
    <3>2. ASSUME l = levels[n] + 1 PROVE Ascends(more)
      <4>1. 1 \in DOMAIN levels /\ more[1] = levels[1]
        BY <1>2, <1>3, <1>6
      <4>2. ASSUME NEW i \in DOMAIN more, i # 1 PROVE more[i] = more[i - 1] + 1
        <5>1. CASE i = n + 1
          <6>1. more[n] = levels[n] /\ (n + 1) - 1 = n
            BY <1>2, <1>3, <1>6
          <6> QED
            BY <1>3, <3>2, <5>1, <6>1
        <5>2. CASE i # n + 1
          <6>1. i \in 1 .. n /\ i - 1 \in 1 .. n
            BY <1>2, <4>2, <5>2
          <6> QED
            BY <1>2, <1>3, <4>2, <6>1 DEF Ascends
        <5> QED
          BY <5>1, <5>2
      <4> QED
        BY <4>1, <4>2 DEF Ascends
    <3> QED
      BY <3>1, <3>2
  <2>4. Findbook!CanTransition(levels[n], l) <=> l = levels[n] + 1
    BY <1>1, <2>2, RungIs
  <2> QED
    BY <1>4, <2>1, <2>3, <2>4 DEF more
<1> QED
  BY <1>5, <1>6

\* LadderSound speaks of every history there could be.
LEMMA LadderHolds ==
    ASSUME NEW levels \in Seq(EvLevels)
    PROVE  LET reached == Findbook!LatestEvidenceLevel(levels)
        IN  /\ reached # None => reached = Findbook!StrongestLevel(levels)
            /\ Findbook!ValidateChain(levels) <=>
                \E first \in {0, 1} :
                    levels = [i \in DOMAIN levels |-> first + i - 1]
            /\ Findbook!ValidateChain(levels) =>
                /\ \A l \in Findbook!Levels \ {0} :
                    Findbook!ValidateChain(Append(levels, l))
                        <=> Findbook!CanTransition(reached, l)
                /\ reached # Top =>
                    Findbook!ValidateChain(Append(levels, Findbook!SuggestNext(reached)))
<1> DEFINE reached == Findbook!LatestEvidenceLevel(levels)
           n == Len(levels)
<1>1. None \notin EvLevels /\ (\A e \in EvLevels : e \in Nat) /\ Top \in Nat \ {0} /\ EvLevels = 0 .. Top
  BY FindbookAssumption DEF EvLevels
<1>2. reached # None => reached = Findbook!StrongestLevel(levels)
  BY DEF Findbook!LatestEvidenceLevel, Findbook!StrongestLevel
<1>3. ASSUME Ascends(levels)
      PROVE  \E first \in {0, 1} : levels = [i \in DOMAIN levels |-> first + i - 1]
  <2>1. CASE levels = <<>>
    <3>1. levels = [i \in DOMAIN levels |-> 0 + i - 1]
      BY <2>1
    <3> QED
      BY <3>1
  <2>2. CASE levels # <<>>
    <3>1. 1 \in DOMAIN levels
      BY <2>2
    <3>2. levels[1] \in {0, 1}
      BY <1>3, <3>1 DEF Ascends
    <3>3. \A i \in DOMAIN levels : levels[i] = levels[1] + i - 1
      BY <1>3, AscentIs
    <3>4. levels = [i \in DOMAIN levels |-> levels[i]]
      OBVIOUS
    <3>5. levels = [i \in DOMAIN levels |-> levels[1] + i - 1]
      BY <3>3, <3>4
    <3> QED
      BY <3>2, <3>5
  <2> QED
    BY <2>1, <2>2
<1>4. ASSUME NEW first \in {0, 1}, levels = [i \in DOMAIN levels |-> first + i - 1]
      PROVE  Ascends(levels)
  <2>1. \A i \in DOMAIN levels : levels[i] = first + i - 1
    BY <1>4
  <2>2. \A i \in DOMAIN levels : i \in Nat \ {0} /\ (i # 1 => i - 1 \in DOMAIN levels)
    OBVIOUS
  <2>3. ASSUME 1 \in DOMAIN levels PROVE levels[1] \in {0, 1}
    BY <2>1, <2>3
  <2>4. ASSUME NEW i \in DOMAIN levels, i # 1 PROVE levels[i] = levels[i - 1] + 1
    BY <2>1, <2>2, <2>4
  <2> QED
    BY <2>3, <2>4 DEF Ascends
<1>5. ASSUME Ascends(levels), reached # Top
      PROVE  Findbook!SuggestNext(reached) \in EvLevels \ {0}
             /\ Findbook!CanTransition(reached, Findbook!SuggestNext(reached))
  <2>1. reached \in EvLevels \cup {None}
    <3>1. CASE levels = <<>>
      BY <3>1 DEF Findbook!LatestEvidenceLevel
    <3>2. CASE levels # <<>>
      <4>1. levels[n] \in EvLevels
        BY <3>2
      <4> QED
        BY <1>5, <3>2, <4>1, ReachedIs
    <3> QED
      BY <3>1, <3>2
  <2> HIDE DEF reached
  <2>2. CASE reached = None
    <3>1. Findbook!SuggestNext(reached) = 1
      BY <1>1, <2>2 DEF Findbook!SuggestNext
    <3>2. 1 \in EvLevels
      BY <1>1
    <3> QED
      BY <2>1, <2>2, <3>1, <3>2, RungIs
  <2>3. CASE reached # None
    <3>1. reached \in 0 .. Top /\ reached + 1 \in EvLevels /\ reached + 1 # 0
      BY <1>1, <1>5, <2>1, <2>3
    <3>2. Findbook!SuggestNext(reached) = reached + 1
      BY <1>1, <2>3, <3>1 DEF Findbook!SuggestNext
    <3> QED
      BY <2>1, <2>3, <3>1, <3>2, RungIs
  <2> QED
    BY <2>2, <2>3
<1>6. Findbook!ValidateChain(levels) <=> Ascends(levels)
  BY ChainAscends
<1>7. ASSUME Ascends(levels), NEW l \in EvLevels \ {0}
      PROVE  Findbook!ValidateChain(Append(levels, l)) <=> Findbook!CanTransition(reached, l)
  BY <1>7, AppendAscends
<1>8. Findbook!Levels = EvLevels
  BY DEF Findbook!Levels, EvLevels
<1> HIDE DEF reached
<1> QED
  BY <1>2, <1>3, <1>4, <1>5, <1>6, <1>7, <1>8 DEF reached

-----------------------------------------------------------------------------
(* The invariant of the two stores and of the calls on them.               *)

\* What the connection and the disk hold, and what the calls on them carry.
EvDoc   == [Fields -> Callers \cup {None}]
EvBook  == [finding : [Findings -> EvDoc \cup {None}], trail : Seq(EvEntry)]
EvScore == [finding : Findings, agent : Agents \cup {None}, damped : BOOLEAN]
Tallies == Agents \cup {"unknown"}
EvSheet == [row : Seq(EvScore), scored : [Tallies -> Nat],
            outcome : [Tallies -> [Findbook!Outcomes -> Nat]]]

BookStore  == [disk : EvBook, conn : EvBook, lock : Callers \cup {None}]
SheetStore == [disk : EvSheet, conn : EvSheet, lock : Callers \cup {None}]

FindingRequest  == [op : {"finding"}, pc : {"lock", "write", "commit"}, finding : Findings]
UpdateRequest   == [op : {"update"}, pc : {"read", "lock", "write", "commit"},
                    finding : Findings, field : Fields, seen : EvDoc \cup {None}]
EvidenceRequest == [op : {"evidence"}, pc : {"read", "lock", "write", "commit"},
                    finding : Findings, id : Entries, level : EvLevels,
                    seen : EvDoc \cup {None}]
ScoreRequest    == [op : {"score"}, pc : {"read", "lock", "write", "count", "commit"},
                    finding : Findings, agent : Agents \cup {None}, damped : BOOLEAN]
OutcomeRequest  == [op : {"outcome"}, pc : {"read", "lock", "write", "commit"},
                    finding : Findings, agent : Tallies \cup {None},
                    outcome : Findbook!Outcomes]
EvRequest == {Findbook!Idle} \cup FindingRequest \cup UpdateRequest \cup EvidenceRequest
             \cup ScoreRequest \cup OutcomeRequest

\* The calls on the evidence store and those on the scores.
BookOps  == {"finding", "update", "evidence"}
SheetOps == {"score", "outcome"}

\* The damping of a score has a cause.
Caused(sheet, a) == a # None /\ sheet.outcome[a]["false_positive"] > 0

\* What a call x of c knows: it holds the lock of its store past the lock; the finding it
\* found was there; the entry it is about to commit is recorded; a damped agent was wrong.
Recalls(c, x) ==
    /\ x.op \in BookOps /\ x.pc \in {"write", "commit"} => evidence.lock = c
    /\ x.op \in SheetOps /\ x.pc \in {"write", "count", "commit"} => scores.lock = c
    /\ x.op \in {"update", "evidence"} /\ x.pc # "read" => x.seen # None
    /\ x.op = "evidence" /\ x.pc = "commit" => Findbook!Recorded(evidence.conn.trail, x.id)
    /\ x.op = "score" /\ x.damped => Caused(scores.conn, x.agent)
    /\ x.op = "outcome" /\ x.pc # "read" => x.agent \in Tallies

\* A call about to commit evidence, and one between a score of a and its count.
Committing(x)  == x.op \in BookOps /\ x.pc = "commit"
Counting(x, a) == x.op = "score" /\ x.pc = "count" /\ x.agent = a

\* Nothing that is on disk is missing on the connection.
Grows(old, new) ==
    /\ Len(old.trail) <= Len(new.trail)
    /\ \A i \in 1 .. Len(old.trail) : new.trail[i] = old.trail[i]
    /\ \A f \in Findings : old.finding[f] # None => new.finding[f] # None

\* No entry is recorded twice.
Once(trail) == \A i, j \in DOMAIN trail : trail[i].id = trail[j].id => i = j

\* The two ends of the evidence store differ only while somebody is about to commit, unless
\* a call was interrupted.
BookInv ==
    /\ Grows(evidence.disk, evidence.conn)
    /\ Once(evidence.conn.trail)
    /\ faults = 0 =>
          /\ \A e \in acked : Findbook!Recorded(evidence.disk.trail, e)
          /\ evidence.conn = evidence.disk \/ \E c \in Callers : Committing(request[c])

\* The rows of an agent.
Rows(sheet, a) == {i \in DOMAIN sheet.row : sheet.row[i].agent = a}

\* The count of an agent agrees with its rows, or is behind by one.
Even(sheet, a)   == sheet.scored[Findbook!Bucket(a)] = Cardinality(Rows(sheet, a))
Behind(sheet, a) == sheet.scored[Findbook!Bucket(a)] + 1 = Cardinality(Rows(sheet, a))

\* Every damped score has its cause in the same rows.
Damping(sheet) ==
    \A i \in DOMAIN sheet.row : sheet.row[i].damped => Caused(sheet, sheet.row[i].agent)

\* Every row is counted, but the one that is about to be, unless a call was interrupted.
SheetInv ==
    /\ Damping(scores.disk) /\ Damping(scores.conn)
    /\ faults = 0 =>
        \A a \in Agents \cup {None} :
          /\ Even(scores.disk, a)
          /\ IF \E c \in Callers : Counting(request[c], a)
             THEN Behind(scores.conn, a) ELSE Even(scores.conn, a)

\* The types of what Evidence changes.
FindbookType ==
    /\ evidence \in BookStore /\ scores \in SheetStore
    /\ request \in [Callers -> EvRequest]
    /\ faults \in Nat

\* The inductive invariant of evidence and scores.
FindbookInv ==
    /\ FindbookType
    /\ \A c \in Callers : Recalls(c, request[c])
    /\ BookInv
    /\ SheetInv

-----------------------------------------------------------------------------
(* Requests.                                                               *)

\* The places a call of an operation goes through.
Pcs(op) == CASE op = "finding" -> {"lock", "write", "commit"}
             [] op = "score"   -> {"read", "lock", "write", "count", "commit"}
             [] OTHER          -> {"read", "lock", "write", "commit"}

\* A call is of one of five kinds.
LEMMA RequestKinds ==
    ASSUME NEW x \in EvRequest
    PROVE  /\ x.op \in {"idle"} \cup BookOps \cup SheetOps
           /\ x.op = "idle" => x = Findbook!Idle
           /\ x.op = "finding" => x \in FindingRequest
           /\ x.op = "update" => x \in UpdateRequest
           /\ x.op = "evidence" => x \in EvidenceRequest
           /\ x.op = "score" => x \in ScoreRequest
           /\ x.op = "outcome" => x \in OutcomeRequest
  BY DEF EvRequest, FindingRequest, UpdateRequest, EvidenceRequest, ScoreRequest,
         OutcomeRequest, Findbook!Idle, BookOps, SheetOps

\* A call that goes on stays the same call.
LEMMA GoesOn ==
    ASSUME NEW x \in EvRequest, x.op # "idle", NEW p \in Pcs(x.op)
    PROVE  LET y == [x EXCEPT !.pc = p] IN
           /\ y \in EvRequest /\ y.op = x.op /\ y.pc = p
           /\ x.op \in {"update", "evidence"} => y.seen = x.seen
           /\ x.op = "evidence" => y.id = x.id
           /\ x.op \in SheetOps => y.agent = x.agent
           /\ x.op = "score" => y.damped = x.damped
<1>1. CASE x \in FindingRequest
  BY <1>1 DEF EvRequest, FindingRequest, Pcs, SheetOps
<1>2. CASE x \in UpdateRequest
  BY <1>2 DEF EvRequest, UpdateRequest, Pcs, SheetOps
<1>3. CASE x \in EvidenceRequest
  BY <1>3 DEF EvRequest, EvidenceRequest, Pcs, SheetOps
<1>4. CASE x \in ScoreRequest
  BY <1>4 DEF EvRequest, ScoreRequest, Pcs, SheetOps
<1>5. CASE x \in OutcomeRequest
  BY <1>5 DEF EvRequest, OutcomeRequest, Pcs, SheetOps
<1> QED
  BY <1>1, <1>2, <1>3, <1>4, <1>5, RequestKinds DEF BookOps, SheetOps

\* One row more.
LEMMA RowsAppend ==
    ASSUME NEW rs \in Seq(EvScore), NEW r \in EvScore, NEW a,
           NEW s, s.row = rs, NEW t, t.row = Append(rs, r)
    PROVE  /\ Cardinality(Rows(s, a)) \in Nat
           /\ Cardinality(Rows(t, a))
                = Cardinality(Rows(s, a)) + (IF r.agent = a THEN 1 ELSE 0)
<1> DEFINE n == Len(rs)
           more == Append(rs, r)
           S == {i \in 1 .. n : rs[i].agent = a}
           T == {i \in 1 .. n + 1 : more[i].agent = a}
<1>1. /\ n \in Nat /\ DOMAIN rs = 1 .. n /\ DOMAIN more = 1 .. n + 1
      /\ more[n + 1] = r /\ \A i \in 1 .. n : more[i] = rs[i]
  OBVIOUS
<1>2. Rows(s, a) = S /\ Rows(t, a) = T
  BY <1>1 DEF Rows
<1>3. IsFiniteSet(S) /\ n + 1 \notin S
  <2>1. IsFiniteSet(1 .. n)
    BY <1>1, FS_Interval
  <2>2. S \in SUBSET (1 .. n) /\ n + 1 \notin S
    BY <1>1
  <2> QED
    BY <2>1, <2>2, FS_Subset
<1>4. Cardinality(S) \in Nat
  BY <1>3, FS_CardinalityType
<1> HIDE DEF more
<1>5. CASE r.agent = a
  <2>1. T = S \cup {n + 1}
    BY <1>1, <1>5
  <2>2. Cardinality(T) = Cardinality(S) + 1
    <3> HIDE DEF S, T, n
    <3> QED
      BY <1>3, <2>1, FS_AddElement
  <2> QED
    BY <1>2, <1>4, <1>5, <2>2
<1>6. CASE r.agent # a
  <2>1. T = S
    <3>1. /\ \A i \in 1 .. n + 1 : i = n + 1 \/ i \in 1 .. n
          /\ \A i \in 1 .. n : i \in 1 .. n + 1
      BY <1>1
    <3>2. n + 1 \notin T
      BY <1>1, <1>6
    <3> QED
      BY <1>1, <3>1, <3>2
  <2>2. Cardinality(T) = Cardinality(S) + 0
    <3> HIDE DEF S, T
    <3> QED
      BY <1>4, <2>1
  <2> HIDE DEF S, T
  <2> QED
    BY <1>2, <1>4, <1>6, <2>2
<1> QED
  BY <1>5, <1>6

\* The beginning of a sequence is a prefix of it.
LEMMA PrefixIs ==
    ASSUME NEW S, NEW s \in Seq(S), NEW t \in Seq(S), Len(s) <= Len(t),
           \A i \in 1 .. Len(s) : t[i] = s[i]
    PROVE  Findbook!IsPrefix(s, t)
<1> DEFINE n == Len(s)
           a == SubSeq(s, 1, n)
           b == SubSeq(t, 1, n)
<1>1. n \in Nat /\ Len(t) \in Nat /\ n <= Len(t)
  OBVIOUS
<1>2. CASE n = 0
  <2>1. a = <<>> /\ b = <<>>
    BY <1>2, SubSeqEmpty
  <2> QED
    BY <1>1, <2>1 DEF Findbook!IsPrefix
<1>3. CASE n # 0
  <2>1. 1 \in 1 .. Len(s) /\ n \in 1 .. Len(s) /\ 1 \in 1 .. Len(t) /\ n \in 1 .. Len(t)
    BY <1>1, <1>3
  <2>2. /\ a \in Seq(S) /\ b \in Seq(S) /\ Len(a) = n /\ Len(b) = n
        /\ \A i \in 1 .. n : a[i] = s[i] /\ b[i] = t[i]
    <3>1. /\ \A i \in 1 .. Len(s) : i \in 1 .. Len(s) + 1
          /\ 1 <= n /\ n - 1 + 1 = n /\ \A i \in 1 .. n : 1 + i - 1 = i
      BY <1>1, <1>3
    <3> HIDE DEF n
    <3> QED
      BY <1>1, <2>1, <3>1, SubSeqProperties
  <2>3. \A i \in 1 .. n : a[i] = b[i]
    BY <2>2
  <2> HIDE DEF a, b
  <2>4. a = b
    BY <2>2, <2>3, SeqEqual
  <2> QED
    BY <1>1, <2>4 DEF a, b, Findbook!IsPrefix
<1> QED
  BY <1>2, <1>3

\* Growing is transitive.
LEMMA GrowsOn ==
    ASSUME NEW a, NEW b, NEW d, a.trail \in Seq(EvEntry), b.trail \in Seq(EvEntry),
           d.trail \in Seq(EvEntry), Grows(a, b), Grows(b, d)
    PROVE  Grows(a, d)
<1>1. Len(a.trail) \in Nat /\ Len(b.trail) \in Nat /\ Len(d.trail) \in Nat
  OBVIOUS
<1>2. \A i \in 1 .. Len(a.trail) : i \in 1 .. Len(b.trail)
  BY <1>1 DEF Grows
<1> QED
  BY <1>1, <1>2 DEF Grows

\* What was recorded stays recorded.
LEMMA GrowsRecords ==
    ASSUME NEW a, NEW b, a.trail \in Seq(EvEntry), b.trail \in Seq(EvEntry), Grows(a, b), NEW e,
           Findbook!Recorded(a.trail, e)
    PROVE  Findbook!Recorded(b.trail, e)
<1>1. PICK i \in DOMAIN a.trail : a.trail[i].id = e
  BY DEF Findbook!Recorded
<1>2. i \in 1 .. Len(a.trail) /\ Len(a.trail) \in Nat /\ Len(b.trail) \in Nat
  OBVIOUS
<1>3. i \in DOMAIN b.trail /\ b.trail[i] = a.trail[i]
  BY <1>2 DEF Grows
<1> QED
  BY <1>1, <1>3 DEF Findbook!Recorded

-----------------------------------------------------------------------------
(* What a call of c leaves to the others.                                  *)

\* A call that has inserted its score and not counted it yet.
AtCount(x) == x.op = "score" /\ x.pc = "count"

\* The calls of the others are not touched.
OthersStay(c) == \A d \in Callers \ {c} : request'[d] = request[d]

\* The evidence store was neither written nor committed.
LEMMA BookKept ==
    ASSUME FindbookInv, NEW c \in Callers, OthersStay(c),
           evidence'.disk = evidence.disk, evidence'.conn = evidence.conn, acked' = acked,
           faults' = 0 => faults = 0 /\ ~Committing(request[c])
    PROVE  BookInv'
<1>1. BookInv
  BY DEF FindbookInv
<1>2. Grows(evidence'.disk, evidence'.conn) /\ Once(evidence'.conn.trail)
  BY <1>1 DEF BookInv
<1>3. ASSUME faults' = 0
      PROVE  /\ \A e \in acked' : Findbook!Recorded(evidence'.disk.trail, e)
             /\ evidence'.conn = evidence'.disk \/ \E d \in Callers : Committing(request'[d])
  <2>1. faults = 0 /\ \A d \in Callers : Committing(request[d]) => Committing(request'[d])
    BY <1>3 DEF OthersStay
  <2> QED
    BY <1>1, <2>1 DEF BookInv
<1> QED
  BY <1>2, <1>3 DEF BookInv

\* The scores were neither written nor committed.
LEMMA SheetKept ==
    ASSUME FindbookInv, NEW c \in Callers, OthersStay(c),
           scores'.disk = scores.disk, scores'.conn = scores.conn,
           faults' = 0 => faults = 0 /\ ~AtCount(request[c]) /\ ~AtCount(request'[c])
    PROVE  SheetInv'
<1>1. SheetInv
  BY DEF FindbookInv
<1>2. Damping(scores'.disk) /\ Damping(scores'.conn)
  BY <1>1 DEF SheetInv
<1>3. ASSUME faults' = 0, NEW a \in Agents \cup {None}
      PROVE  /\ Even(scores'.disk, a)
             /\ IF \E d \in Callers : Counting(request'[d], a)
                THEN Behind(scores'.conn, a) ELSE Even(scores'.conn, a)
  <2>1. faults = 0 /\ \A d \in Callers : Counting(request[d], a) <=> Counting(request'[d], a)
    BY <1>3 DEF OthersStay, Counting, AtCount
  <2> QED
    BY <1>1, <2>1 DEF SheetInv
<1> QED
  BY <1>2, <1>3 DEF SheetInv

\* The locks of the others stay theirs, and what was recorded or blamed stays so.
LEMMA OthersRecall ==
    ASSUME FindbookInv, NEW c \in Callers, OthersStay(c),
           \A d \in Callers \ {c} : evidence.lock = d => evidence'.lock = d,
           \A d \in Callers \ {c} : scores.lock = d => scores'.lock = d,
           \A e : Findbook!Recorded(evidence.conn.trail, e)
                      => Findbook!Recorded(evidence'.conn.trail, e),
           \A a \in Agents : Caused(scores.conn, a) => Caused(scores'.conn, a),
           Recalls(c, request[c])'
    PROVE  \A d \in Callers : Recalls(d, request[d])'
<1>1. ASSUME NEW d \in Callers, d # c PROVE Recalls(d, request[d])'
  <2>1. Recalls(d, request[d]) /\ request'[d] = request[d]
    BY <1>1 DEF FindbookInv, OthersStay
  <2>2. request[d] \in EvRequest
    BY DEF FindbookInv, FindbookType
  <2>3. request[d].op = "score" => request[d].agent \in Agents \cup {None}
    BY <2>2, RequestKinds DEF ScoreRequest
  <2>4. request[d].op = "score" /\ request[d].damped => Caused(scores'.conn, request[d].agent)
    BY <2>1, <2>3 DEF Recalls, Caused
  <2> QED
    BY <1>1, <2>1, <2>4 DEF Recalls
<1> QED
  BY <1>1

\* A step that touches no store.
LEMMA OnlyRequest ==
    ASSUME FindbookInv, NEW c \in Callers, NEW y \in EvRequest,
           request' = [request EXCEPT ![c] = y],
           evidence' = evidence, scores' = scores, acked' = acked, faults' = faults,
           ~Committing(request[c]), ~AtCount(request[c]), ~AtCount(y),
           Recalls(c, y)
    PROVE  FindbookInv'
<1>1. request' \in [Callers -> EvRequest] /\ request'[c] = y /\ OthersStay(c)
  BY DEF FindbookInv, FindbookType, OthersStay
<1>2. FindbookType'
  BY <1>1 DEF FindbookInv, FindbookType
<1>3. BookInv'
  BY <1>1, BookKept
<1>4. SheetInv'
  BY <1>1, SheetKept
<1>5. Recalls(c, request[c])'
  BY <1>1 DEF Recalls
<1>6. \A d \in Callers : Recalls(d, request[d])'
  BY <1>1, <1>5, OthersRecall
<1> QED
  BY <1>2, <1>3, <1>4, <1>6 DEF FindbookInv

\* A request arrives.
LEMMA BeginKeeps ==
    ASSUME FindbookInv, NEW c \in Callers, NEW r \in Findbook!Requests, Findbook!Begin(c, r)
    PROVE  FindbookInv'
<1>1. /\ request[c] = Findbook!Idle /\ request' = [request EXCEPT ![c] = r]
      /\ evidence' = evidence /\ scores' = scores /\ acked' = acked /\ faults' = faults
  BY DEF Findbook!Begin
<1>2. ~Committing(request[c]) /\ ~AtCount(request[c])
  BY <1>1 DEF Findbook!Idle, Committing, AtCount, BookOps
<1>3. r \in EvRequest /\ ~AtCount(r) /\ Recalls(c, r)
  <2>1. CASE r \in [op : {"finding"}, pc : {"lock"}, finding : Findings]
    BY <2>1 DEF EvRequest, FindingRequest, AtCount, Recalls, BookOps, SheetOps
  <2>2. CASE r \in [op : {"update"}, pc : {"read"}, finding : Findings, field : Fields,
                    seen : {None}]
    BY <2>2 DEF EvRequest, UpdateRequest, AtCount, Recalls, BookOps, SheetOps
  <2>3. CASE r \in [op : {"evidence"}, pc : {"read"}, finding : Findings, id : Entries,
                    level : Findbook!Levels, seen : {None}]
    BY <2>3 DEF EvRequest, EvidenceRequest, AtCount, Recalls, BookOps, SheetOps, EvLevels,
                Findbook!Levels
  <2>4. CASE r \in [op : {"score"}, pc : {"read"}, finding : Findings,
                    agent : Agents \cup {None}, damped : {FALSE}]
    BY <2>4 DEF EvRequest, ScoreRequest, AtCount, Recalls, BookOps, SheetOps
  <2>5. CASE r \in [op : {"outcome"}, pc : {"read"}, finding : Findings,
                    agent : Agents \cup {None}, outcome : Findbook!Outcomes]
    BY <2>5 DEF EvRequest, OutcomeRequest, AtCount, Recalls, BookOps, SheetOps, Tallies
  <2> QED
    BY <2>1, <2>2, <2>3, <2>4, <2>5 DEF Findbook!Requests
<1> QED
  BY <1>1, <1>2, <1>3, OnlyRequest

\* The finding is looked up.
LEMMA GetFindingKeeps ==
    ASSUME FindbookInv, NEW c \in Callers, Findbook!GetFinding(c)
    PROVE  FindbookInv'
<1> DEFINE x == request[c]
           seen == evidence.conn.finding[x.finding]
           y == IF seen = None THEN Findbook!Idle ELSE [x EXCEPT !.pc = "lock", !.seen = seen]
<1>1. /\ x.op \in {"update", "evidence"} /\ x.pc = "read"
      /\ request' = [request EXCEPT ![c] = y]
      /\ evidence' = evidence /\ scores' = scores /\ acked' = acked /\ faults' = faults
  BY DEF Findbook!GetFinding
<1>2. x \in EvRequest /\ evidence.conn.finding \in [Findings -> EvDoc \cup {None}]
  BY DEF FindbookInv, FindbookType, BookStore, EvBook
<1>3. ~Committing(x) /\ ~AtCount(x)
  BY <1>1 DEF Committing, AtCount
<1>4. y \in EvRequest /\ ~AtCount(y) /\ Recalls(c, y)
  <2>1. CASE seen = None
    <3>1. y = Findbook!Idle
      BY <2>1
    <3> HIDE DEF y
    <3> QED
      BY <3>1 DEF EvRequest, Findbook!Idle, AtCount, Recalls, BookOps, SheetOps
  <2>2. CASE seen # None /\ x \in UpdateRequest
    <3>1. seen \in EvDoc
      BY <1>2, <2>2 DEF UpdateRequest
    <3>2. y = [x EXCEPT !.pc = "lock", !.seen = seen]
      BY <2>2
    <3> HIDE DEF seen, y
    <3>3. y \in UpdateRequest /\ y.pc = "lock" /\ y.op = "update" /\ y.seen = seen
      BY <2>2, <3>1, <3>2 DEF UpdateRequest
    <3> QED
      BY <2>2, <3>3 DEF EvRequest, AtCount, Recalls, BookOps, SheetOps
  <2>3. CASE seen # None /\ x \in EvidenceRequest
    <3>1. seen \in EvDoc
      BY <1>2, <2>3 DEF EvidenceRequest
    <3>2. y = [x EXCEPT !.pc = "lock", !.seen = seen]
      BY <2>3
    <3> HIDE DEF seen, y
    <3>3. y \in EvidenceRequest /\ y.pc = "lock" /\ y.op = "evidence" /\ y.seen = seen
      BY <2>3, <3>1, <3>2 DEF EvidenceRequest
    <3> QED
      BY <2>3, <3>3 DEF EvRequest, AtCount, Recalls, BookOps, SheetOps
  <2> QED
    BY <1>1, <1>2, <2>1, <2>2, <2>3, RequestKinds
<1> QED
  BY <1>1, <1>3, <1>4, OnlyRequest

\* The prior of the agent is read, and may damp the score.
LEMMA ApplyPriorKeeps ==
    ASSUME FindbookInv, NEW c \in Callers, Findbook!ApplyPrior(c)
    PROVE  FindbookInv'
<1> DEFINE x == request[c]
           cause == x.agent # None /\ Findbook!Damped(scores.conn.outcome[x.agent])
           y == [x EXCEPT !.pc = "lock", !.damped = cause]
<1>1. /\ x.op = "score" /\ x.pc = "read"
      /\ request' = [request EXCEPT ![c].pc = "lock", ![c].damped = cause]
      /\ evidence' = evidence /\ scores' = scores /\ acked' = acked /\ faults' = faults
  BY DEF Findbook!ApplyPrior
<1>2. x \in ScoreRequest /\ scores.conn.outcome \in [Tallies -> [Findbook!Outcomes -> Nat]]
  BY <1>1, RequestKinds DEF FindbookInv, FindbookType, SheetStore, EvSheet
<1>3. request' = [request EXCEPT ![c] = y]
  BY <1>1
<1>4. ~Committing(x) /\ ~AtCount(x)
  BY <1>1 DEF Committing, AtCount, BookOps
<1>5. cause \in BOOLEAN /\ (cause => Caused(scores.conn, x.agent))
  <2>1. ASSUME cause PROVE Caused(scores.conn, x.agent)
    <3> DEFINE o == scores.conn.outcome[x.agent]
    <3>1. x.agent \in Tallies
      BY <1>2, <2>1 DEF ScoreRequest, Tallies
    <3>2. o["true_positive"] \in Nat /\ o["false_positive"] \in Nat
      BY <1>2, <3>1 DEF Findbook!Outcomes
    <3>3. 6 * o["true_positive"] < 5 * (o["true_positive"] + o["false_positive"])
      BY <2>1 DEF Findbook!Damped
    <3> HIDE DEF o
    <3>4. o["false_positive"] > 0
      BY <3>2, <3>3
    <3> QED
      BY <2>1, <3>4 DEF o, Caused
  <2>2. cause \in BOOLEAN
    BY DEF Findbook!Damped
  <2> QED
    BY <2>1, <2>2
<1> HIDE DEF cause
<1>6. y \in ScoreRequest /\ y.pc = "lock" /\ y.op = "score" /\ y.agent = x.agent /\ y.damped = cause
  BY <1>2, <1>5 DEF ScoreRequest
<1> HIDE DEF y
<1>7. y \in EvRequest /\ ~AtCount(y) /\ Recalls(c, y)
  BY <1>5, <1>6 DEF EvRequest, AtCount, Recalls, BookOps, SheetOps
<1> QED
  BY <1>1, <1>3, <1>4, <1>7, OnlyRequest

\* The agent of a finding's latest score.
LEMMA OwnerTyped ==
    ASSUME FindbookInv, NEW f
    PROVE  Findbook!OwningAgent(f) \in Agents \cup {None}
<1> DEFINE rs == scores.conn.row
           own == {i \in DOMAIN rs : rs[i].finding = f}
           m == Findbook!Max(own)
<1>1. rs \in Seq(EvScore)
  BY DEF FindbookInv, FindbookType, SheetStore, EvSheet
<1>2. CASE own = {}
  BY <1>2 DEF Findbook!OwningAgent
<1>3. CASE own # {}
  <2>1. DOMAIN rs = 1 .. Len(rs) /\ Len(rs) \in Nat
    BY <1>1
  <2>2. own \subseteq 1 .. Len(rs) /\ \A i \in own : i \in Nat
    BY <2>1
  <2>3. m \in own
    <3> HIDE DEF own
    <3>1. PICK g \in own : \A i \in own : i <= g
      BY <1>3, <2>1, <2>2, GreatestNumber
    <3>2. \A i \in own : g >= i
      BY <2>2, <3>1
    <3> QED
      BY <3>2 DEF Findbook!Max
  <2>4. rs[m] \in EvScore
    <3>1. m \in DOMAIN rs
      BY <2>3
    <3> HIDE DEF rs, m, own
    <3> QED
      BY <1>1, <3>1
  <2>5. Findbook!OwningAgent(f) = rs[m].agent
    BY <1>3 DEF Findbook!OwningAgent
  <2> QED
    BY <2>4, <2>5 DEF EvScore
<1> QED
  BY <1>2, <1>3

\* The agent to whom an outcome is counted.
LEMMA GetOwnerKeeps ==
    ASSUME FindbookInv, NEW c \in Callers, Findbook!GetOwner(c)
    PROVE  FindbookInv'
<1> DEFINE x == request[c]
           a == IF x.agent = None THEN Findbook!OwningAgent(x.finding) ELSE x.agent
           b == Findbook!Bucket(a)
           y == [x EXCEPT !.pc = "lock", !.agent = b]
<1>1. /\ x.op = "outcome" /\ x.pc = "read"
      /\ request' = [request EXCEPT ![c].pc = "lock", ![c].agent = b]
      /\ evidence' = evidence /\ scores' = scores /\ acked' = acked /\ faults' = faults
  BY DEF Findbook!GetOwner
<1>2. x \in OutcomeRequest
  BY <1>1, RequestKinds DEF FindbookInv, FindbookType
<1>3. request' = [request EXCEPT ![c] = y]
  BY <1>1
<1>4. ~Committing(x) /\ ~AtCount(x)
  BY <1>1 DEF Committing, AtCount, BookOps
<1>5. b \in Tallies
  <2>1. a \in Tallies \cup {None}
    BY <1>2, OwnerTyped DEF OutcomeRequest, Tallies
  <2> HIDE DEF a
  <2> QED
    BY <2>1 DEF Findbook!Bucket, Tallies
<1> HIDE DEF b
<1>6. y \in OutcomeRequest /\ y.pc = "lock" /\ y.op = "outcome" /\ y.agent = b
  BY <1>2, <1>5 DEF OutcomeRequest
<1> HIDE DEF y
<1>7. y \in EvRequest /\ ~AtCount(y) /\ Recalls(c, y)
  BY <1>5, <1>6 DEF EvRequest, AtCount, Recalls, BookOps, SheetOps
<1> QED
  BY <1>1, <1>3, <1>4, <1>7, OnlyRequest

\* A lock is taken or left, and nothing is written.
LEMMA LockMoves ==
    ASSUME FindbookInv, NEW c \in Callers, NEW y \in EvRequest,
           request' = [request EXCEPT ![c] = y],
           evidence.lock # evidence'.lock => evidence.lock \in {c, None},
           scores.lock # scores'.lock => scores.lock \in {c, None},
           NEW l \in {c, None}, NEW k \in {c, None},
           evidence' \in {evidence, [evidence EXCEPT !.lock = l]},
           scores' \in {scores, [scores EXCEPT !.lock = k]},
           BookInv', faults' = faults, ~AtCount(request[c]), ~AtCount(y),
           Recalls(c, request[c])'
    PROVE  FindbookInv'
<1>1. request' \in [Callers -> EvRequest] /\ request'[c] = y /\ OthersStay(c)
  BY DEF FindbookInv, FindbookType, OthersStay
<1>2. /\ evidence \in BookStore /\ scores \in SheetStore /\ None \notin Callers
      /\ l \in Callers \cup {None} /\ k \in Callers \cup {None}
  BY FindbookAssumption DEF FindbookInv, FindbookType
<1>3. evidence' \in BookStore /\ evidence'.disk = evidence.disk /\ evidence'.conn = evidence.conn
  BY <1>2 DEF BookStore
<1>4. scores' \in SheetStore /\ scores'.disk = scores.disk /\ scores'.conn = scores.conn
  BY <1>2 DEF SheetStore
<1>5. FindbookType'
  BY <1>1, <1>3, <1>4 DEF FindbookInv, FindbookType
<1>6. SheetInv'
  BY <1>1, <1>4, SheetKept
<1>7. \A d \in Callers \ {c} : /\ evidence.lock = d => evidence'.lock = d
                               /\ scores.lock = d => scores'.lock = d
  BY <1>2
<1>8. \A d \in Callers : Recalls(d, request[d])'
  <2>1. \A e : Findbook!Recorded(evidence.conn.trail, e)
                   => Findbook!Recorded(evidence'.conn.trail, e)
    BY <1>3
  <2>2. \A a \in Agents : Caused(scores.conn, a) => Caused(scores'.conn, a)
    BY <1>4
  <2> QED
    BY <1>1, <1>7, <2>1, <2>2, OthersRecall
<1> QED
  BY <1>5, <1>6, <1>8 DEF FindbookInv

\* A call takes its lock.
LEMMA LockKeeps ==
    ASSUME FindbookInv, NEW c \in Callers, Findbook!Lock(c, "write")
    PROVE  FindbookInv'
<1> DEFINE x == request[c]
           y == [x EXCEPT !.pc = "write"]
<1>1. /\ x.op # "idle" /\ x.pc = "lock" /\ request' = [request EXCEPT ![c].pc = "write"]
      /\ acked' = acked /\ faults' = faults
  BY DEF Findbook!Lock, Findbook!Goes
<1>2. x \in EvRequest /\ evidence \in BookStore /\ scores \in SheetStore
  BY DEF FindbookInv, FindbookType
<1>3. "write" \in Pcs(x.op)
  BY DEF Pcs
<1>4. /\ y \in EvRequest /\ y.op = x.op /\ y.pc = "write"
      /\ x.op \in {"update", "evidence"} => y.seen = x.seen
      /\ x.op \in SheetOps => y.agent = x.agent
      /\ x.op = "score" => y.damped = x.damped
  BY <1>1, <1>2, <1>3, GoesOn
<1>5. request' = [request EXCEPT ![c] = y] /\ request'[c] = y /\ OthersStay(c)
  BY <1>1 DEF FindbookInv, FindbookType, OthersStay
<1>6. ~AtCount(x) /\ ~AtCount(y) /\ ~Committing(x)
  BY <1>1, <1>4 DEF AtCount, Committing
<1>7. Recalls(c, x)
  BY DEF FindbookInv
<1> HIDE DEF y
<1>8. CASE x.op \in BookOps /\ evidence.lock = None /\ evidence' = [evidence EXCEPT !.lock = c]
           /\ scores' = scores
  <2>1. evidence'.lock = c /\ evidence'.disk = evidence.disk /\ evidence'.conn = evidence.conn
    BY <1>2, <1>8 DEF BookStore
  <2>2. BookInv'
    BY <1>1, <1>5, <1>6, <2>1, BookKept
  <2>3. Recalls(c, request[c])'
    BY <1>1, <1>4, <1>5, <1>7, <1>8, <2>1 DEF Recalls, BookOps, SheetOps
  <2> QED
    BY <1>1, <1>4, <1>5, <1>6, <1>8, <2>2, <2>3, LockMoves
<1>9. CASE x.op \in SheetOps /\ scores.lock = None /\ scores' = [scores EXCEPT !.lock = c]
           /\ evidence' = evidence
  <2>1. scores'.lock = c /\ scores'.disk = scores.disk /\ scores'.conn = scores.conn
    BY <1>2, <1>9 DEF SheetStore
  <2>2. BookInv'
    BY <1>1, <1>5, <1>6, <1>9, BookKept
  <2>3. Recalls(c, request[c])'
    BY <1>1, <1>4, <1>5, <1>7, <1>9, <2>1 DEF Recalls, BookOps, SheetOps
  <2> QED
    BY <1>1, <1>4, <1>5, <1>6, <1>9, <2>2, <2>3, LockMoves
<1> QED
  BY <1>8, <1>9 DEF Findbook!Lock, Findbook!LockFree, BookOps, SheetOps

\* A call that holds the lock writes into the evidence store and goes on to its commit.
LEMMA BookWritten ==
    ASSUME FindbookInv, NEW c \in Callers, evidence.lock = c,
           request[c].op \in BookOps, request[c].pc = "write",
           request' = [request EXCEPT ![c].pc = "commit"],
           evidence' \in BookStore, evidence'.disk = evidence.disk, evidence'.lock = c,
           Grows(evidence.conn, evidence'.conn), Once(evidence'.conn.trail),
           request[c].op = "evidence" =>
               Findbook!Recorded(evidence'.conn.trail, request[c].id),
           scores' = scores, acked' = acked, faults' = faults
    PROVE  FindbookInv'
<1> DEFINE x == request[c]
           y == [x EXCEPT !.pc = "commit"]
<1>1. x \in EvRequest /\ Recalls(c, x) /\ BookInv /\ evidence \in BookStore /\ None \notin Callers
  BY FindbookAssumption DEF FindbookInv, FindbookType
<1>2. "commit" \in Pcs(x.op) /\ x.op # "idle"
  BY DEF Pcs, BookOps
<1>3. /\ y \in EvRequest /\ y.op = x.op /\ y.pc = "commit"
      /\ x.op \in {"update", "evidence"} => y.seen = x.seen
      /\ x.op = "evidence" => y.id = x.id
  BY <1>1, <1>2, GoesOn
<1>4. /\ request' \in [Callers -> EvRequest] /\ request'[c] = y /\ OthersStay(c)
  BY <1>3 DEF FindbookInv, FindbookType, OthersStay
<1>5. ~AtCount(x) /\ ~AtCount(y) /\ Committing(y)
  BY <1>3 DEF AtCount, Committing, BookOps
<1> HIDE DEF y
<1>6. FindbookType'
  BY <1>4 DEF FindbookInv, FindbookType
<1>7. SheetInv'
  BY <1>4, <1>5, SheetKept
<1>8. /\ Grows(evidence.disk, evidence.conn)
      /\ evidence.disk.trail \in Seq(EvEntry) /\ evidence.conn.trail \in Seq(EvEntry)
      /\ evidence'.conn.trail \in Seq(EvEntry)
  BY <1>1 DEF BookInv, BookStore, EvBook
<1>9. BookInv'
  <2>1. Grows(evidence.disk, evidence'.conn)
    BY <1>8, GrowsOn
  <2>2. \E d \in Callers : Committing(request'[d])
    BY <1>4, <1>5
  <2> QED
    BY <1>1, <2>1, <2>2 DEF BookInv
<1>10. \A e : Findbook!Recorded(evidence.conn.trail, e)
                  => Findbook!Recorded(evidence'.conn.trail, e)
  BY <1>8, GrowsRecords
<1>11. Recalls(c, request[c])'
  BY <1>1, <1>3, <1>4 DEF Recalls, BookOps, SheetOps
<1>12. \A d \in Callers : Recalls(d, request[d])'
  BY <1>1, <1>4, <1>10, <1>11, OthersRecall
<1> QED
  BY <1>6, <1>7, <1>9, <1>12 DEF FindbookInv

\* A call that holds the lock of the evidence store leaves it.
LEMMA LeavesBook ==
    ASSUME FindbookInv, NEW c \in Callers, evidence.lock = c,
           ~Committing(request[c]), ~AtCount(request[c]),
           request' = [request EXCEPT ![c] = Findbook!Idle],
           evidence' = [evidence EXCEPT !.lock = None],
           BookInv', scores' = scores, faults' = faults
    PROVE  FindbookInv'
<1>1. Findbook!Idle \in EvRequest
  BY DEF EvRequest
<1>2. request'[c] = Findbook!Idle
  BY DEF FindbookInv, FindbookType
<1>3. Recalls(c, request[c])'
  BY <1>2 DEF Recalls, Findbook!Idle, BookOps, SheetOps
<1>4. ~AtCount(Findbook!Idle)
  BY DEF AtCount, Findbook!Idle
<1> QED
  BY <1>1, <1>3, <1>4, LockMoves

\* A finding is inserted, or refused because its id is known.
LEMMA InsertFindingKeeps ==
    ASSUME FindbookInv, NEW c \in Callers, Findbook!InsertFinding(c)
    PROVE  FindbookInv'
<1> DEFINE x == request[c]
           f == x.finding
           doc == [k \in Fields |-> None]
<1>1. /\ x.op = "finding" /\ x.pc = "write"
      /\ scores' = scores /\ acked' = acked /\ faults' = faults
  BY DEF Findbook!InsertFinding
<1>2. /\ x \in FindingRequest /\ Recalls(c, x) /\ BookInv /\ evidence \in BookStore
      /\ request \in [Callers -> EvRequest]
  BY <1>1, RequestKinds DEF FindbookInv, FindbookType
<1>3. f \in Findings /\ evidence.lock = c /\ x.op \in BookOps
  BY <1>1, <1>2 DEF FindingRequest, Recalls, BookOps
<1>4. doc \in EvDoc /\ doc # None
  BY FindbookAssumption DEF EvDoc
<1> HIDE DEF doc
<1>5. CASE evidence.conn.finding[f] = None
  <2>1. /\ evidence' = [evidence EXCEPT !.conn.finding[f] = doc]
        /\ request' = [request EXCEPT ![c].pc = "commit"]
    BY <1>5 DEF Findbook!InsertFinding, Findbook!Goes, doc
  <2>2. /\ evidence' \in BookStore /\ evidence'.disk = evidence.disk /\ evidence'.lock = c
        /\ evidence'.conn.trail = evidence.conn.trail
        /\ evidence'.conn.finding = [evidence.conn.finding EXCEPT ![f] = doc]
    BY <1>2, <1>3, <1>4, <2>1 DEF BookStore, EvBook
  <2>3. evidence.conn \in EvBook
    BY <1>2 DEF BookStore
  <2>4. Grows(evidence.conn, evidence'.conn) /\ Once(evidence'.conn.trail)
    BY <1>2, <1>3, <1>4, <2>2, <2>3 DEF Grows, BookInv, EvBook
  <2> QED
    BY <1>1, <1>3, <2>1, <2>2, <2>4, BookWritten
<1>6. CASE evidence.conn.finding[f] # None
  <2>1. /\ evidence' = [evidence EXCEPT !.lock = None]
        /\ request' = [request EXCEPT ![c] = Findbook!Idle]
    BY <1>6 DEF Findbook!InsertFinding, Findbook!Returns
  <2>2. ~Committing(x) /\ ~AtCount(x) /\ OthersStay(c)
    BY <1>1, <2>1 DEF Committing, AtCount, OthersStay
  <2>3. evidence'.disk = evidence.disk /\ evidence'.conn = evidence.conn
    BY <1>2, <2>1 DEF BookStore
  <2>4. BookInv'
    BY <1>1, <2>2, <2>3, BookKept
  <2> QED
    BY <1>1, <1>3, <2>1, <2>2, <2>4, LeavesBook
<1> QED
  BY <1>5, <1>6

\* A finding is replaced by what its caller read, with one field set.
LEMMA ReplaceFindingKeeps ==
    ASSUME FindbookInv, NEW c \in Callers, Findbook!ReplaceFinding(c)
    PROVE  FindbookInv'
<1> DEFINE x == request[c]
           f == x.finding
           doc == Findbook!Merged(c)
<1>1. /\ x.op = "update" /\ x.pc = "write"
      /\ evidence' = [evidence EXCEPT !.conn.finding[f] = doc]
      /\ request' = [request EXCEPT ![c].pc = "commit"]
      /\ scores' = scores /\ acked' = acked /\ faults' = faults
  BY DEF Findbook!ReplaceFinding, Findbook!Goes
<1>2. x \in UpdateRequest /\ Recalls(c, x) /\ BookInv /\ evidence \in BookStore
  BY <1>1, RequestKinds DEF FindbookInv, FindbookType
<1>3. f \in Findings /\ evidence.lock = c /\ x.op \in BookOps /\ x.seen # None
  BY <1>1, <1>2 DEF UpdateRequest, Recalls, BookOps
<1>4. doc \in EvDoc /\ doc # None
  <2>1. x.seen \in EvDoc /\ x.field \in Fields /\ c \in Callers \cup {None}
    BY <1>2, <1>3 DEF UpdateRequest
  <2>2. doc = [x.seen EXCEPT ![x.field] = c]
    BY DEF Findbook!Merged
  <2>3. doc \in EvDoc
    BY <2>1, <2>2 DEF EvDoc
  <2> QED
    BY <2>3, FindbookAssumption DEF EvDoc
<1> HIDE DEF doc
<1>5. /\ evidence' \in BookStore /\ evidence'.disk = evidence.disk /\ evidence'.lock = c
      /\ evidence'.conn.trail = evidence.conn.trail
      /\ evidence'.conn.finding = [evidence.conn.finding EXCEPT ![f] = doc]
  BY <1>1, <1>2, <1>3, <1>4 DEF BookStore, EvBook
<1>6. evidence.conn \in EvBook
  BY <1>2 DEF BookStore
<1>7. Grows(evidence.conn, evidence'.conn) /\ Once(evidence'.conn.trail)
  BY <1>2, <1>3, <1>4, <1>5, <1>6 DEF Grows, BookInv, EvBook
<1> QED
  BY <1>1, <1>3, <1>5, <1>7, BookWritten

\* An entry is appended, or acknowledged because its id is known.
LEMMA InsertEvidenceKeeps ==
    ASSUME FindbookInv, NEW c \in Callers, Findbook!InsertEvidence(c)
    PROVE  FindbookInv'
<1> DEFINE x == request[c]
           trail == evidence.conn.trail
           entry == Findbook!Entry(c)
           n == Len(trail)
<1>1. /\ x.op = "evidence" /\ x.pc = "write" /\ scores' = scores /\ faults' = faults
  BY DEF Findbook!InsertEvidence
<1>2. /\ x \in EvidenceRequest /\ Recalls(c, x) /\ BookInv /\ evidence \in BookStore
      /\ request \in [Callers -> EvRequest]
  BY <1>1, RequestKinds DEF FindbookInv, FindbookType
<1>3. evidence.lock = c /\ x.op \in BookOps /\ trail \in Seq(EvEntry) /\ n \in Nat
  BY <1>1, <1>2 DEF Recalls, BookOps, BookStore, EvBook
<1>4. entry \in EvEntry /\ entry.id = x.id
  BY <1>2 DEF Findbook!Entry, EvidenceRequest, EvEntry
<1>5. CASE ~Findbook!Recorded(trail, x.id)
  <2>1. /\ evidence' = [evidence EXCEPT !.conn.trail = Append(trail, entry)]
        /\ request' = [request EXCEPT ![c].pc = "commit"] /\ acked' = acked
    BY <1>5 DEF Findbook!InsertEvidence, Findbook!Goes
  <2> DEFINE more == Append(trail, entry)
  <2>2. more \in Seq(EvEntry)
    BY <1>3, <1>4, AppendProperties
  <2>3. /\ Len(more) = n + 1 /\ DOMAIN more = 1 .. n + 1 /\ DOMAIN trail = 1 .. n
        /\ more[n + 1] = entry /\ \A i \in 1 .. n : more[i] = trail[i]
    <3> HIDE DEF entry
    <3> QED
      BY <1>3, <1>4
  <2> HIDE DEF entry, more
  <2>4. /\ evidence' \in BookStore /\ evidence'.disk = evidence.disk /\ evidence'.lock = c
        /\ evidence'.conn.trail = more /\ evidence'.conn.finding = evidence.conn.finding
    BY <1>2, <1>3, <2>1, <2>2 DEF BookStore, EvBook, more
  <2>5. Grows(evidence.conn, evidence'.conn)
    BY <1>3, <2>3, <2>4 DEF Grows
  <2>6. Once(more)
    <3>1. \A i \in 1 .. n : trail[i].id # x.id
      BY <1>5, <2>3 DEF Findbook!Recorded
    <3>2. \A i, j \in 1 .. n : trail[i].id = trail[j].id => i = j
      BY <1>2, <2>3 DEF BookInv, Once
    <3>3. \A i \in 1 .. n + 1 : i = n + 1 \/ i \in 1 .. n
      BY <1>3
    <3> QED
      BY <1>4, <2>3, <3>1, <3>2, <3>3 DEF Once
  <2>7. Findbook!Recorded(more, x.id)
    <3>1. n + 1 \in DOMAIN more
      BY <1>3, <2>3
    <3> QED
      BY <1>4, <2>3, <3>1 DEF Findbook!Recorded
  <2> QED
    BY <1>1, <1>3, <2>1, <2>4, <2>5, <2>6, <2>7, BookWritten
<1>6. CASE Findbook!Recorded(trail, x.id)
  <2>1. /\ evidence' = [evidence EXCEPT !.lock = None]
        /\ request' = [request EXCEPT ![c] = Findbook!Idle] /\ acked' = acked \cup {x.id}
    BY <1>6 DEF Findbook!InsertEvidence, Findbook!Returns
  <2>2. ~Committing(x) /\ ~AtCount(x) /\ OthersStay(c)
    BY <1>1, <2>1 DEF Committing, AtCount, OthersStay
  <2>3. evidence'.disk = evidence.disk /\ evidence'.conn = evidence.conn
    BY <1>2, <2>1 DEF BookStore
  <2>4. \A d \in Callers : ~Committing(request[d])
    <3> SUFFICES ASSUME NEW d \in Callers, Committing(request[d]) PROVE FALSE
      OBVIOUS
    <3>1. evidence.lock = d
      BY DEF FindbookInv, Recalls, Committing
    <3> QED
      BY <1>1, <1>3, <3>1 DEF Committing
  <2>5. BookInv'
    BY <1>1, <1>2, <1>6, <2>1, <2>3, <2>4 DEF BookInv
  <2> QED
    BY <1>1, <1>3, <2>1, <2>2, <2>5, LeavesBook
<1> QED
  BY <1>5, <1>6

\* What the connection sees is committed.
LEMMA CommitEvidenceKeeps ==
    ASSUME FindbookInv, NEW c \in Callers, Findbook!CommitEvidence(c)
    PROVE  FindbookInv'
<1> DEFINE x == request[c]
<1>1. /\ x.op \in BookOps /\ x.pc = "commit"
      /\ evidence' = [evidence EXCEPT !.disk = evidence.conn, !.lock = None]
      /\ acked' = (IF x.op = "evidence" THEN acked \cup {x.id} ELSE acked)
      /\ request' = [request EXCEPT ![c] = Findbook!Idle]
      /\ scores' = scores /\ faults' = faults
  BY DEF Findbook!CommitEvidence, Findbook!Returns, BookOps
<1>2. /\ Recalls(c, x) /\ BookInv /\ evidence \in BookStore
      /\ request \in [Callers -> EvRequest] /\ None \notin Callers
  BY FindbookAssumption DEF FindbookInv, FindbookType
<1>3. evidence.lock = c /\ (x.op = "evidence" => Findbook!Recorded(evidence.conn.trail, x.id))
  BY <1>1, <1>2 DEF Recalls
<1>4. /\ evidence' \in BookStore /\ evidence'.disk = evidence.conn
      /\ evidence'.conn = evidence.conn /\ evidence'.lock = None
  BY <1>1, <1>2 DEF BookStore
<1>5. /\ request' \in [Callers -> EvRequest] /\ request'[c] = Findbook!Idle /\ OthersStay(c)
  BY <1>1, <1>2 DEF OthersStay, EvRequest
<1>6. FindbookType'
  BY <1>1, <1>4, <1>5 DEF FindbookInv, FindbookType
<1>7. evidence.disk.trail \in Seq(EvEntry) /\ evidence.conn.trail \in Seq(EvEntry)
  BY <1>2 DEF BookStore, EvBook
<1>8. BookInv'
  <2>1. Grows(evidence.conn, evidence.conn)
    BY <1>7 DEF Grows
  <2>2. ASSUME faults = 0, NEW e \in acked' PROVE Findbook!Recorded(evidence.conn.trail, e)
    <3>1. CASE e \in acked
      BY <1>2, <1>7, <2>2, <3>1, GrowsRecords DEF BookInv
    <3>2. CASE e \notin acked
      BY <1>1, <1>3, <2>2, <3>2
    <3> QED
      BY <3>1, <3>2
  <2> QED
    BY <1>1, <1>2, <1>4, <2>1, <2>2 DEF BookInv
<1>9. ~AtCount(x) /\ ~AtCount(Findbook!Idle)
  BY <1>1 DEF AtCount, Findbook!Idle
<1>10. SheetInv'
  BY <1>1, <1>5, <1>9, SheetKept
<1>11. Recalls(c, request[c])'
  BY <1>5 DEF Recalls, Findbook!Idle, BookOps, SheetOps
<1>12. \A d \in Callers : Recalls(d, request[d])'
  BY <1>1, <1>3, <1>4, <1>5, <1>11, OthersRecall
<1> QED
  BY <1>6, <1>8, <1>10, <1>12 DEF FindbookInv

\* While c holds the lock of the scores nobody else is between a row and its count.
LEMMA OneCounts ==
    ASSUME FindbookInv, NEW c \in Callers, scores.lock = c
    PROVE  \A d \in Callers \ {c} : ~AtCount(request[d])
  BY DEF FindbookInv, Recalls, AtCount, SheetOps

\* A call that holds the lock of the scores writes, counts or commits.
LEMMA SheetStep ==
    ASSUME FindbookInv, NEW c \in Callers, scores.lock = c, NEW y \in EvRequest,
           request' = [request EXCEPT ![c] = y], request[c].op \in SheetOps,
           scores' \in SheetStore,
           \A a \in Agents : Caused(scores.conn, a) => Caused(scores'.conn, a),
           evidence' = evidence, acked' = acked, faults' = faults,
           SheetInv', Recalls(c, request[c])'
    PROVE  FindbookInv'
<1>1. request' \in [Callers -> EvRequest] /\ request'[c] = y /\ OthersStay(c)
  BY DEF FindbookInv, FindbookType, OthersStay
<1>2. FindbookType'
  BY <1>1 DEF FindbookInv, FindbookType
<1>3. ~Committing(request[c])
  BY DEF Committing, BookOps, SheetOps
<1>4. BookInv'
  BY <1>1, <1>3, BookKept
<1>5. \A d \in Callers : Recalls(d, request[d])'
  BY <1>1, OthersRecall
<1> QED
  BY <1>2, <1>4, <1>5 DEF FindbookInv

\* What the bucket of an agent is.
LEMMA Buckets ==
    ASSUME NEW a \in Agents \cup {None}
    PROVE  /\ Findbook!Bucket(a) \in Tallies
           /\ \A b \in Agents \cup {None} :
                  Findbook!Bucket(a) = Findbook!Bucket(b) => a = b
  BY FindbookAssumption DEF Findbook!Bucket, Tallies

\* The rows of an agent can be counted.
LEMMA RowsCounted ==
    ASSUME NEW s \in EvSheet, NEW a
    PROVE  Cardinality(Rows(s, a)) \in Nat
<1>1. s.row \in Seq(EvScore) /\ Len(s.row) \in Nat /\ DOMAIN s.row = 1 .. Len(s.row)
  BY DEF EvSheet
<1>2. IsFiniteSet(1 .. Len(s.row))
  BY <1>1, FS_Interval
<1>3. Rows(s, a) \in SUBSET (1 .. Len(s.row))
  BY <1>1 DEF Rows
<1> QED
  BY <1>2, <1>3, FS_Subset, FS_CardinalityType

\* The score is inserted.
LEMMA InsertScoreKeeps ==
    ASSUME FindbookInv, NEW c \in Callers, Findbook!InsertScore(c)
    PROVE  FindbookInv'
<1> DEFINE x == request[c]
           y == [x EXCEPT !.pc = "count"]
           rs == scores.conn.row
           r == [finding |-> x.finding, agent |-> x.agent, damped |-> x.damped]
           n == Len(rs)
           more == Append(rs, r)
<1>1. /\ x.op = "score" /\ x.pc = "write"
      /\ scores' = [scores EXCEPT !.conn.row = Append(rs, r)]
      /\ request' = [request EXCEPT ![c].pc = "count"]
      /\ evidence' = evidence /\ acked' = acked /\ faults' = faults
  BY DEF Findbook!InsertScore, Findbook!Goes
<1>2. /\ x \in ScoreRequest /\ Recalls(c, x) /\ SheetInv /\ scores \in SheetStore
      /\ request \in [Callers -> EvRequest]
  BY <1>1, RequestKinds DEF FindbookInv, FindbookType
<1>3. /\ scores.lock = c /\ x.op \in SheetOps /\ rs \in Seq(EvScore) /\ n \in Nat
      /\ scores.conn \in EvSheet
  BY <1>1, <1>2 DEF Recalls, SheetOps, SheetStore, EvSheet
<1>4. r \in EvScore /\ r.agent = x.agent /\ r.damped = x.damped /\ x.agent \in Agents \cup {None}
  BY <1>2 DEF ScoreRequest, EvScore
<1>5. request' = [request EXCEPT ![c] = y]
  BY <1>1
<1>6. /\ y \in ScoreRequest /\ y.op = "score" /\ y.pc = "count"
      /\ y.agent = x.agent /\ y.damped = x.damped
  BY <1>2 DEF ScoreRequest
<1> HIDE DEF r, y
<1>7. /\ more \in Seq(EvScore) /\ DOMAIN more = 1 .. n + 1 /\ DOMAIN rs = 1 .. n
      /\ more[n + 1] = r /\ \A i \in 1 .. n : more[i] = rs[i]
  BY <1>3, <1>4
<1> HIDE DEF more
<1>8. /\ scores' \in SheetStore /\ scores'.disk = scores.disk /\ scores'.lock = c
      /\ scores'.conn.row = more /\ scores'.conn.scored = scores.conn.scored
      /\ scores'.conn.outcome = scores.conn.outcome
  BY <1>1, <1>2, <1>3, <1>7 DEF SheetStore, EvSheet, more
<1>9. request'[c] = y /\ OthersStay(c) /\ y \in EvRequest
  BY <1>2, <1>5, <1>6 DEF OthersStay, EvRequest
<1>10. \A a : Caused(scores'.conn, a) <=> Caused(scores.conn, a)
  BY <1>8 DEF Caused
<1>11. Damping(scores'.conn)
  <2>1. Damping(scores.conn)
    BY <1>2 DEF SheetInv
  <2>2. r.damped => Caused(scores.conn, r.agent)
    BY <1>1, <1>2, <1>4 DEF Recalls
  <2>3. \A i \in 1 .. n + 1 : i = n + 1 \/ i \in 1 .. n
    BY <1>3
  <2> QED
    BY <1>7, <1>8, <1>10, <2>1, <2>2, <2>3 DEF Damping
<1>12. ASSUME faults = 0, NEW a \in Agents \cup {None}
       PROVE  /\ Even(scores'.disk, a)
              /\ IF \E d \in Callers : Counting(request'[d], a)
                 THEN Behind(scores'.conn, a) ELSE Even(scores'.conn, a)
  <2>1. \A d \in Callers : ~AtCount(request[d])
    BY <1>1, <1>3, OneCounts DEF AtCount
  <2>2. Even(scores.disk, a) /\ Even(scores.conn, a)
    BY <1>2, <1>12, <2>1 DEF SheetInv, AtCount, Counting
  <2>3. (\E d \in Callers : Counting(request'[d], a)) <=> x.agent = a
    BY <1>6, <1>9, <2>1 DEF Counting, AtCount, OthersStay
  <2>4. /\ Cardinality(Rows(scores.conn, a)) \in Nat
        /\ Cardinality(Rows(scores'.conn, a))
             = Cardinality(Rows(scores.conn, a)) + (IF x.agent = a THEN 1 ELSE 0)
    <3> DEFINE s == scores.conn
               t == scores'.conn
    <3>1. s.row = rs /\ t.row = Append(rs, r) /\ rs \in Seq(EvScore) /\ r \in EvScore
      BY <1>3, <1>4, <1>8 DEF more
    <3> HIDE DEF s, t, rs
    <3>2. /\ Cardinality(Rows(s, a)) \in Nat
          /\ Cardinality(Rows(t, a)) = Cardinality(Rows(s, a)) + (IF r.agent = a THEN 1 ELSE 0)
      BY <3>1, RowsAppend
    <3> QED
      BY <1>4, <3>2 DEF s, t
  <2>5. CASE x.agent = a
    <3>1. Behind(scores'.conn, a)
      BY <1>8, <2>2, <2>4, <2>5 DEF Behind, Even
    <3> QED
      BY <1>8, <2>2, <2>3, <2>5, <3>1
  <2>6. CASE x.agent # a
    <3>1. Even(scores'.conn, a)
      BY <1>8, <2>2, <2>4, <2>6 DEF Even
    <3> QED
      BY <1>8, <2>2, <2>3, <2>6, <3>1
  <2> QED
    BY <2>5, <2>6
<1>13. SheetInv'
  BY <1>1, <1>2, <1>8, <1>11, <1>12 DEF SheetInv
<1>14. Recalls(c, request[c])'
  BY <1>1, <1>2, <1>6, <1>8, <1>9, <1>10 DEF Recalls, BookOps, SheetOps
<1> QED
  BY <1>1, <1>3, <1>5, <1>8, <1>9, <1>10, <1>13, <1>14, SheetStep

\* And its agent's count follows.
LEMMA CountScoreKeeps ==
    ASSUME FindbookInv, NEW c \in Callers, Findbook!CountScore(c)
    PROVE  FindbookInv'
<1> DEFINE x == request[c]
           y == [x EXCEPT !.pc = "commit"]
           b == Findbook!Bucket(x.agent)
<1>1. /\ x.op = "score" /\ x.pc = "count"
      /\ scores' = [scores EXCEPT !.conn.scored[b] = @ + 1]
      /\ request' = [request EXCEPT ![c].pc = "commit"]
      /\ evidence' = evidence /\ acked' = acked /\ faults' = faults
  BY DEF Findbook!CountScore, Findbook!Counted, Findbook!Goes
<1>2. /\ x \in ScoreRequest /\ Recalls(c, x) /\ SheetInv /\ scores \in SheetStore
      /\ request \in [Callers -> EvRequest]
  BY <1>1, RequestKinds DEF FindbookInv, FindbookType
<1>3. /\ scores.lock = c /\ x.op \in SheetOps /\ scores.conn \in EvSheet
      /\ x.agent \in Agents \cup {None}
  BY <1>1, <1>2 DEF Recalls, SheetOps, SheetStore, ScoreRequest
<1>4. b \in Tallies /\ \A a \in Agents \cup {None} : Findbook!Bucket(a) = b <=> a = x.agent
  BY <1>3, Buckets
<1>5. request' = [request EXCEPT ![c] = y]
  BY <1>1
<1>6. /\ y \in ScoreRequest /\ y.op = "score" /\ y.pc = "commit"
      /\ y.agent = x.agent /\ y.damped = x.damped
  BY <1>2 DEF ScoreRequest
<1> HIDE DEF y, b
<1>7. /\ scores' \in SheetStore /\ scores'.disk = scores.disk /\ scores'.lock = c
      /\ scores'.conn.row = scores.conn.row
      /\ scores'.conn.scored = [scores.conn.scored EXCEPT ![b] = @ + 1]
      /\ scores'.conn.outcome = scores.conn.outcome
  <2> DEFINE s == scores.conn
             more == [s.scored EXCEPT ![b] = @ + 1]
             t == [s EXCEPT !.scored = more]
  <2>1. scores' = [scores EXCEPT !.conn = t]
    BY <1>1, <1>2 DEF SheetStore
  <2>2. more \in [Tallies -> Nat]
    BY <1>3, <1>4 DEF EvSheet
  <2> HIDE DEF more
  <2>3. t \in EvSheet /\ t.row = s.row /\ t.scored = more /\ t.outcome = s.outcome
    BY <1>3, <2>2 DEF EvSheet
  <2> HIDE DEF s, t
  <2>4. /\ scores' \in SheetStore /\ scores'.disk = scores.disk /\ scores'.lock = c
        /\ scores'.conn = t
    BY <1>2, <1>3, <2>1, <2>3 DEF SheetStore
  <2> QED
    BY <2>3, <2>4 DEF s, more
<1>8. request'[c] = y /\ OthersStay(c) /\ y \in EvRequest
  BY <1>2, <1>5, <1>6 DEF OthersStay, EvRequest
<1>9. /\ \A a : Caused(scores'.conn, a) <=> Caused(scores.conn, a)
      /\ \A a : Rows(scores'.conn, a) = Rows(scores.conn, a)
  BY <1>7 DEF Caused, Rows
<1>10. Damping(scores'.conn)
  BY <1>2, <1>7, <1>9 DEF SheetInv, Damping
<1>11. ASSUME faults = 0, NEW a \in Agents \cup {None}
       PROVE  /\ Even(scores'.disk, a)
              /\ IF \E d \in Callers : Counting(request'[d], a)
                 THEN Behind(scores'.conn, a) ELSE Even(scores'.conn, a)
  <2>1. \A d \in Callers \ {c} : ~AtCount(request[d])
    BY <1>3, OneCounts
  <2>2. ~\E d \in Callers : Counting(request'[d], a)
    BY <1>6, <1>8, <2>1 DEF Counting, AtCount, OthersStay
  <2>3. /\ scores.conn.scored \in [Tallies -> Nat] /\ Findbook!Bucket(a) \in Tallies
        /\ Cardinality(Rows(scores.conn, a)) \in Nat
    BY <1>3, Buckets, RowsCounted DEF EvSheet
  <2>4. CASE a = x.agent
    <3>1. Behind(scores.conn, a)
      BY <1>1, <1>2, <1>11, <2>4 DEF SheetInv, Counting
    <3>2. scores'.conn.scored[b] = scores.conn.scored[b] + 1 /\ Findbook!Bucket(a) = b
      BY <1>4, <1>7, <2>3, <2>4
    <3>3. Even(scores'.conn, a)
      BY <1>9, <3>1, <3>2 DEF Behind, Even
    <3> QED
      BY <1>2, <1>7, <1>11, <2>2, <3>3 DEF SheetInv
  <2>5. CASE a # x.agent
    <3>1. Even(scores.conn, a)
      BY <1>2, <1>11, <2>1, <2>5 DEF SheetInv, Counting, AtCount
    <3>2. scores'.conn.scored[Findbook!Bucket(a)] = scores.conn.scored[Findbook!Bucket(a)]
      BY <1>4, <1>7, <2>3, <2>5
    <3>3. Even(scores'.conn, a)
      BY <1>9, <3>1, <3>2 DEF Even
    <3> QED
      BY <1>2, <1>7, <1>11, <2>2, <3>3 DEF SheetInv
  <2> QED
    BY <2>4, <2>5
<1>12. SheetInv'
  BY <1>1, <1>2, <1>7, <1>10, <1>11 DEF SheetInv
<1>13. Recalls(c, request[c])'
  BY <1>1, <1>2, <1>6, <1>7, <1>8, <1>9 DEF Recalls, BookOps, SheetOps
<1> QED
  BY <1>1, <1>3, <1>5, <1>7, <1>8, <1>9, <1>12, <1>13, SheetStep

\* An outcome is counted.
LEMMA CountOutcomeKeeps ==
    ASSUME FindbookInv, NEW c \in Callers, Findbook!CountOutcome(c)
    PROVE  FindbookInv'
<1> DEFINE x == request[c]
           y == [x EXCEPT !.pc = "commit"]
           old == scores.conn.outcome
<1>1. /\ x.op = "outcome" /\ x.pc = "write"
      /\ scores' = [scores EXCEPT !.conn.outcome[x.agent][x.outcome] = @ + 1]
      /\ request' = [request EXCEPT ![c].pc = "commit"]
      /\ evidence' = evidence /\ acked' = acked /\ faults' = faults
  BY DEF Findbook!CountOutcome, Findbook!Goes
<1>2. /\ x \in OutcomeRequest /\ Recalls(c, x) /\ SheetInv /\ scores \in SheetStore
      /\ request \in [Callers -> EvRequest]
  BY <1>1, RequestKinds DEF FindbookInv, FindbookType
<1>3. /\ scores.lock = c /\ x.op \in SheetOps /\ scores.conn \in EvSheet
      /\ x.agent \in Tallies /\ x.outcome \in Findbook!Outcomes
      /\ old \in [Tallies -> [Findbook!Outcomes -> Nat]]
  BY <1>1, <1>2 DEF Recalls, SheetOps, SheetStore, EvSheet, OutcomeRequest
<1>4. request' = [request EXCEPT ![c] = y]
  BY <1>1
<1>5. y \in OutcomeRequest /\ y.op = "outcome" /\ y.pc = "commit" /\ y.agent = x.agent
  BY <1>2 DEF OutcomeRequest
<1> HIDE DEF y
<1>6. /\ scores' \in SheetStore /\ scores'.disk = scores.disk /\ scores'.lock = c
      /\ scores'.conn.row = scores.conn.row /\ scores'.conn.scored = scores.conn.scored
      /\ scores'.conn.outcome = [old EXCEPT ![x.agent][x.outcome] = @ + 1]
  <2> DEFINE s == scores.conn
             more == [old EXCEPT ![x.agent][x.outcome] = @ + 1]
             t == [s EXCEPT !.outcome = more]
  <2>1. scores' = [scores EXCEPT !.conn = t]
    BY <1>1, <1>2 DEF SheetStore
  <2>2. more \in [Tallies -> [Findbook!Outcomes -> Nat]]
    BY <1>3
  <2> HIDE DEF more
  <2>3. t \in EvSheet /\ t.row = s.row /\ t.scored = s.scored /\ t.outcome = more
    BY <1>3, <2>2 DEF EvSheet
  <2> HIDE DEF s, t
  <2>4. /\ scores' \in SheetStore /\ scores'.disk = scores.disk /\ scores'.lock = c
        /\ scores'.conn = t
    BY <1>2, <1>3, <2>1, <2>3 DEF SheetStore
  <2> QED
    BY <2>3, <2>4 DEF s, more
<1>7. request'[c] = y /\ OthersStay(c) /\ y \in EvRequest
  BY <1>2, <1>4, <1>5 DEF OthersStay, EvRequest
<1>8. \A a \in Agents : Caused(scores.conn, a) => Caused(scores'.conn, a)
  <2> SUFFICES ASSUME NEW a \in Agents, Caused(scores.conn, a) PROVE Caused(scores'.conn, a)
    OBVIOUS
  <2> DEFINE new == scores'.conn.outcome
             fp == "false_positive"
  <2>1. a \in Tallies /\ fp \in Findbook!Outcomes
    BY DEF Tallies, Findbook!Outcomes
  <2>2. new = [old EXCEPT ![x.agent][x.outcome] = @ + 1]
    BY <1>6
  <2>3. a # None /\ old[a][fp] \in Nat /\ old[a][fp] > 0
    BY <1>3, <2>1 DEF Caused
  <2> HIDE DEF new, old, fp
  <2>4. new[a][fp] = old[a][fp] \/ new[a][fp] = old[a][fp] + 1
    BY <1>3, <2>1, <2>2
  <2>5. new[a][fp] > 0
    BY <2>3, <2>4
  <2> QED
    BY <2>3, <2>5 DEF Caused, new, fp
<1>9. \A a : Rows(scores'.conn, a) = Rows(scores.conn, a)
  BY <1>6 DEF Rows
<1>10. Damping(scores'.conn)
  <2> SUFFICES ASSUME NEW i \in DOMAIN scores.conn.row, scores.conn.row[i].damped
               PROVE  Caused(scores'.conn, scores.conn.row[i].agent)
    BY <1>6 DEF Damping
  <2>1. Caused(scores.conn, scores.conn.row[i].agent)
    BY <1>2 DEF SheetInv, Damping
  <2>2. scores.conn.row[i] \in EvScore
    BY <1>3 DEF EvSheet
  <2> QED
    BY <1>8, <2>1, <2>2 DEF EvScore, Caused
<1>11. ASSUME faults = 0, NEW a \in Agents \cup {None}
       PROVE  /\ Even(scores'.disk, a)
              /\ IF \E d \in Callers : Counting(request'[d], a)
                 THEN Behind(scores'.conn, a) ELSE Even(scores'.conn, a)
  <2>1. \A d \in Callers : ~AtCount(request[d])
    BY <1>1, <1>3, OneCounts DEF AtCount
  <2>2. Even(scores.disk, a) /\ Even(scores.conn, a)
    BY <1>2, <1>11, <2>1 DEF SheetInv, AtCount, Counting
  <2>3. ~\E d \in Callers : Counting(request'[d], a)
    BY <1>5, <1>7, <2>1 DEF Counting, AtCount, OthersStay
  <2>4. Even(scores'.conn, a)
    BY <1>6, <1>9, <2>2 DEF Even
  <2> QED
    BY <1>6, <2>2, <2>3, <2>4
<1>12. SheetInv'
  BY <1>1, <1>2, <1>6, <1>10, <1>11 DEF SheetInv
<1>13. Recalls(c, request[c])'
  BY <1>3, <1>5, <1>6, <1>7 DEF Recalls, BookOps, SheetOps
<1> QED
  BY <1>1, <1>3, <1>4, <1>6, <1>7, <1>8, <1>12, <1>13, SheetStep

\* What the connection of the scorer sees is committed.
LEMMA CommitScoresKeeps ==
    ASSUME FindbookInv, NEW c \in Callers, Findbook!CommitScores(c)
    PROVE  FindbookInv'
<1> DEFINE x == request[c]
<1>1. /\ x.op \in SheetOps /\ x.pc = "commit"
      /\ scores' = [scores EXCEPT !.disk = scores.conn, !.lock = None]
      /\ request' = [request EXCEPT ![c] = Findbook!Idle]
      /\ evidence' = evidence /\ acked' = acked /\ faults' = faults
  BY DEF Findbook!CommitScores, Findbook!Returns, SheetOps
<1>2. /\ Recalls(c, x) /\ SheetInv /\ scores \in SheetStore
      /\ request \in [Callers -> EvRequest]
  BY DEF FindbookInv, FindbookType
<1>3. scores.lock = c
  BY <1>1, <1>2 DEF Recalls
<1>4. /\ scores' \in SheetStore /\ scores'.disk = scores.conn /\ scores'.conn = scores.conn
  BY <1>1, <1>2 DEF SheetStore
<1>5. Findbook!Idle \in EvRequest /\ request'[c] = Findbook!Idle /\ OthersStay(c)
  BY <1>1, <1>2 DEF OthersStay, EvRequest
<1>6. \A d \in Callers : ~AtCount(request[d]) /\ ~AtCount(request'[d])
  BY <1>1, <1>3, <1>5, OneCounts DEF AtCount, OthersStay, Findbook!Idle
<1>7. ASSUME faults = 0, NEW a \in Agents \cup {None}
      PROVE  /\ Even(scores'.disk, a)
             /\ IF \E d \in Callers : Counting(request'[d], a)
                THEN Behind(scores'.conn, a) ELSE Even(scores'.conn, a)
  BY <1>2, <1>4, <1>6, <1>7 DEF SheetInv, AtCount, Counting
<1>8. SheetInv'
  BY <1>1, <1>2, <1>4, <1>7 DEF SheetInv
<1>9. Recalls(c, request[c])'
  BY <1>5 DEF Recalls, Findbook!Idle, BookOps, SheetOps
<1> QED
  BY <1>1, <1>3, <1>4, <1>5, <1>8, <1>9, SheetStep

\* A call breaks off and leaves its lock, and its part of a transaction.
LEMMA BreakOffKeeps ==
    ASSUME FindbookInv, NEW c \in Callers, Findbook!Interrupt(c)
    PROVE  FindbookInv'
<1>1. /\ request' = [request EXCEPT ![c] = Findbook!Idle] /\ faults' = faults + 1
      /\ evidence' = (IF evidence.lock = c THEN [evidence EXCEPT !.lock = None] ELSE evidence)
      /\ scores' = (IF scores.lock = c THEN [scores EXCEPT !.lock = None] ELSE scores)
      /\ acked' = acked
  BY DEF Findbook!Interrupt, Findbook!Returns
<1>2. /\ evidence \in BookStore /\ scores \in SheetStore /\ faults \in Nat
      /\ request \in [Callers -> EvRequest] /\ BookInv /\ SheetInv
  BY DEF FindbookInv, FindbookType
<1>3. /\ evidence' \in BookStore /\ evidence'.disk = evidence.disk
      /\ evidence'.conn = evidence.conn
      /\ \A d \in Callers \ {c} : evidence.lock = d => evidence'.lock = d
  BY <1>1, <1>2 DEF BookStore
<1>4. /\ scores' \in SheetStore /\ scores'.disk = scores.disk /\ scores'.conn = scores.conn
      /\ \A d \in Callers \ {c} : scores.lock = d => scores'.lock = d
  BY <1>1, <1>2 DEF SheetStore
<1>5. /\ request' \in [Callers -> EvRequest] /\ request'[c] = Findbook!Idle /\ OthersStay(c)
  BY <1>1, <1>2 DEF OthersStay, EvRequest
<1>6. faults' \in Nat /\ faults' # 0
  BY <1>1, <1>2
<1>7. FindbookType'
  BY <1>3, <1>4, <1>5, <1>6 DEF FindbookType
<1>8. BookInv'
  BY <1>2, <1>3, <1>6 DEF BookInv
<1>9. SheetInv'
  BY <1>2, <1>4, <1>6 DEF SheetInv
<1>10. Recalls(c, request[c])'
  BY <1>5 DEF Recalls, Findbook!Idle, BookOps, SheetOps
<1>11. \A d \in Callers : Recalls(d, request[d])'
  BY <1>3, <1>4, <1>5, <1>10, OthersRecall
<1> QED
  BY <1>7, <1>8, <1>9, <1>11 DEF FindbookInv

\* The process starts again: both connections see what is on disk.
LEMMA RestartKeeps ==
    ASSUME FindbookInv, Findbook!Restart
    PROVE  FindbookInv'
<1>1. /\ evidence' = [evidence EXCEPT !.conn = evidence.disk, !.lock = None]
      /\ scores' = [scores EXCEPT !.conn = scores.disk, !.lock = None]
      /\ request' = [c \in Callers |-> Findbook!Idle]
      /\ faults' = faults /\ acked' = acked
  BY DEF Findbook!Restart
<1>2. /\ evidence \in BookStore /\ scores \in SheetStore /\ faults \in Nat
      /\ BookInv /\ SheetInv
  BY DEF FindbookInv, FindbookType
<1>3. /\ evidence' \in BookStore /\ evidence'.disk = evidence.disk
      /\ evidence'.conn = evidence.disk
  BY <1>1, <1>2 DEF BookStore
<1>4. /\ scores' \in SheetStore /\ scores'.disk = scores.disk /\ scores'.conn = scores.disk
  BY <1>1, <1>2 DEF SheetStore
<1>5. /\ request' \in [Callers -> EvRequest]
      /\ \A d \in Callers : request'[d] = Findbook!Idle
  BY <1>1 DEF EvRequest
<1>6. FindbookType'
  BY <1>1, <1>2, <1>3, <1>4, <1>5 DEF FindbookType
<1>7. /\ evidence.disk.trail \in Seq(EvEntry) /\ evidence.conn.trail \in Seq(EvEntry)
      /\ Grows(evidence.disk, evidence.conn) /\ Once(evidence.conn.trail)
  BY <1>2 DEF BookStore, EvBook, BookInv
<1>8. BookInv'
  <2>1. Grows(evidence.disk, evidence.disk)
    BY <1>7 DEF Grows
  <2>2. Once(evidence.disk.trail)
    <3>1. \A i \in DOMAIN evidence.disk.trail :
              i \in DOMAIN evidence.conn.trail /\ evidence.conn.trail[i] = evidence.disk.trail[i]
      BY <1>7 DEF Grows
    <3> QED
      BY <1>7, <3>1 DEF Once
  <2> QED
    BY <1>1, <1>2, <1>3, <2>1, <2>2 DEF BookInv
<1>9. SheetInv'
  <2>1. \A d \in Callers, a \in Agents \cup {None} : ~Counting(request'[d], a)
    BY <1>5 DEF Counting, Findbook!Idle
  <2> QED
    BY <1>1, <1>2, <1>4, <2>1 DEF SheetInv
<1>10. \A d \in Callers : Recalls(d, request[d])'
  BY <1>5 DEF Recalls, Findbook!Idle, BookOps, SheetOps
<1> QED
  BY <1>6, <1>8, <1>9, <1>10 DEF FindbookInv

\* A step of another part leaves it all alone.
LEMMA FindbookStays == ASSUME FindbookInv, UNCHANGED findbook PROVE FindbookInv'
<1>1. /\ evidence' = evidence /\ scores' = scores /\ request' = request
      /\ faults' = faults /\ acked' = acked
  BY DEF findbook
<1>2. FindbookType'
  BY <1>1 DEF FindbookInv, FindbookType
<1>3. \A d \in Callers : Recalls(d, request[d])'
  BY <1>1 DEF FindbookInv, Recalls
<1>4. BookInv'
  BY <1>1 DEF FindbookInv, BookInv
<1>5. SheetInv'
  BY <1>1 DEF FindbookInv, SheetInv
<1> QED
  BY <1>2, <1>3, <1>4, <1>5 DEF FindbookInv

\* Every step of Evidence keeps the invariant.
LEMMA FindbookNext == ASSUME FindbookInv, Findbook!Next PROVE FindbookInv'
<1>1. ASSUME NEW c \in Callers, NEW r \in Findbook!Requests, Findbook!Begin(c, r)
      PROVE  FindbookInv'
  BY <1>1, BeginKeeps
<1>2. ASSUME NEW c \in Callers, Findbook!Lock(c, "write") PROVE FindbookInv'
  BY <1>2, LockKeeps
<1>3. ASSUME NEW c \in Callers,
             \/ Findbook!InsertFinding(c) \/ Findbook!GetFinding(c)
             \/ Findbook!ReplaceFinding(c)
      PROVE  FindbookInv'
  BY <1>3, InsertFindingKeeps, GetFindingKeeps, ReplaceFindingKeeps
<1>4. ASSUME NEW c \in Callers, Findbook!InsertEvidence(c) \/ Findbook!CommitEvidence(c)
      PROVE  FindbookInv'
  BY <1>4, InsertEvidenceKeeps, CommitEvidenceKeeps
<1>5. ASSUME NEW c \in Callers,
             \/ Findbook!ApplyPrior(c) \/ Findbook!InsertScore(c) \/ Findbook!CountScore(c)
      PROVE  FindbookInv'
  BY <1>5, ApplyPriorKeeps, InsertScoreKeeps, CountScoreKeeps
<1>6. ASSUME NEW c \in Callers,
             \/ Findbook!GetOwner(c) \/ Findbook!CountOutcome(c) \/ Findbook!CommitScores(c)
      PROVE  FindbookInv'
  BY <1>6, GetOwnerKeeps, CountOutcomeKeeps, CommitScoresKeeps
<1>7. ASSUME NEW c \in Callers, Findbook!Interrupt(c) PROVE FindbookInv'
  BY <1>7, BreakOffKeeps
<1> QED
  BY <1>1, <1>2, <1>3, <1>4, <1>5, <1>6, <1>7, RestartKeeps, Zenon DEF Findbook!Next

\* Nothing is recorded at first.
LEMMA FindbookInitial == ASSUME Findbook!Init PROVE FindbookInv
<1> DEFINE none == Findbook!NoEvidence
           zero == Findbook!NoScores
<1>1. /\ evidence = [disk |-> none, conn |-> none, lock |-> None]
      /\ scores = [disk |-> zero, conn |-> zero, lock |-> None]
      /\ request = [c \in Callers |-> Findbook!Idle] /\ faults = 0 /\ acked = {}
  BY DEF Findbook!Init
<1>2. none \in EvBook /\ none.trail = <<>> /\ \A f \in Findings : none.finding[f] = None
  <2>1. <<>> \in Seq(EvEntry)
    OBVIOUS
  <2> QED
    BY <2>1 DEF Findbook!NoEvidence, EvBook
<1>3. /\ zero \in EvSheet /\ zero.row = <<>> /\ \A a \in Tallies : zero.scored[a] = 0
  <2>1. <<>> \in Seq(EvScore)
    OBVIOUS
  <2> QED
    BY <2>1 DEF Findbook!NoScores, EvSheet, Tallies
<1> HIDE DEF none, zero
<1>4. /\ \A c \in Callers : request[c] = Findbook!Idle
      /\ request \in [Callers -> EvRequest]
  BY <1>1 DEF EvRequest
<1>5. FindbookType
  BY <1>1, <1>2, <1>3, <1>4 DEF FindbookType, BookStore, SheetStore
<1>6. \A c \in Callers : Recalls(c, request[c])
  BY <1>4 DEF Recalls, Findbook!Idle, BookOps, SheetOps
<1>7. BookInv
  <2>1. Grows(none, none) /\ Once(none.trail)
    BY <1>2 DEF Grows, Once
  <2> QED
    BY <1>1, <2>1 DEF BookInv
<1>8. SheetInv
  <2>1. Damping(zero)
    BY <1>3 DEF Damping
  <2>2. ASSUME NEW a \in Agents \cup {None} PROVE Even(zero, a)
    <3>1. Rows(zero, a) = {}
      BY <1>3 DEF Rows
    <3>2. Cardinality(Rows(zero, a)) = 0
      BY <3>1, FS_EmptySet
    <3>3. zero.scored[Findbook!Bucket(a)] = 0
      BY <1>3, Buckets
    <3> QED
      BY <3>2, <3>3 DEF Even
  <2>3. \A d \in Callers, a \in Agents \cup {None} : ~Counting(request[d], a)
    BY <1>4 DEF Counting, Findbook!Idle
  <2> QED
    BY <1>1, <2>1, <2>2, <2>3 DEF SheetInv
<1> QED
  BY <1>5, <1>6, <1>7, <1>8 DEF FindbookInv

\* The invariant of the evidence store and of the scores (EvidenceStore, RiskScorer): what the
\* connection has and the disk has not belongs to the call about to commit, and every score
\* but the one in progress is counted, as long as no call was interrupted.
THEOREM FindbookInvariant == MCSpec => []FindbookInv
<1>1. MCInit => FindbookInv
  BY FindbookInitial DEF MCInit
<1>2. FindbookInv /\ [MCNext]_vars => FindbookInv'
  <2> SUFFICES ASSUME FindbookInv, [MCNext]_vars PROVE FindbookInv'
    OBVIOUS
  <2>1. Findbook!Next \/ UNCHANGED findbook
    BY Zenon DEF MCNext, vars
  <2> QED
    BY <2>1, FindbookNext, FindbookStays
<1> QED
  BY <1>1, <1>2, PTL DEF MCSpec

\* What the invariant says of the committed trail, of every history and of the scores.
LEMMA FindbookSays ==
    ASSUME FindbookInv
    PROVE  Findbook!TrailDurable /\ Findbook!LadderSound /\ Findbook!ScoresSound
<1>1. evidence \in BookStore /\ scores \in SheetStore /\ BookInv /\ SheetInv
  BY DEF FindbookInv, FindbookType
<1>2. Findbook!TrailDurable
  BY <1>1 DEF Findbook!TrailDurable, BookInv, Once
<1>3. Findbook!LadderSound
  <2>1. evidence.conn.trail \in Seq(EvEntry)
    BY <1>1 DEF BookStore, EvBook
  <2>2. \A f \in Findings : Findbook!LevelsOf(f, evidence.conn.trail) \in Seq(EvLevels)
    BY <2>1, LevelsTyped
  <2>3. ASSUME NEW f \in Findings
        PROVE  LET levels  == Findbook!LevelsOf(f, evidence.conn.trail)
                   reached == Findbook!LatestEvidenceLevel(levels)
               IN  /\ reached # None => reached = Findbook!StrongestLevel(levels)
                   /\ Findbook!ValidateChain(levels) <=>
                       \E first \in {0, 1} :
                           levels = [i \in DOMAIN levels |-> first + i - 1]
                   /\ Findbook!ValidateChain(levels) =>
                       /\ \A l \in Findbook!Levels \ {0} :
                           Findbook!ValidateChain(Append(levels, l))
                               <=> Findbook!CanTransition(reached, l)
                       /\ reached # Top =>
                           Findbook!ValidateChain(Append(levels, Findbook!SuggestNext(reached)))
    <3> DEFINE history == Findbook!LevelsOf(f, evidence.conn.trail)
    <3>1. history \in Seq(EvLevels)
      BY <2>2
    <3> HIDE DEF history
    <3>2. LET reached == Findbook!LatestEvidenceLevel(history)
          IN  /\ reached # None => reached = Findbook!StrongestLevel(history)
              /\ Findbook!ValidateChain(history) <=>
                  \E first \in {0, 1} :
                      history = [i \in DOMAIN history |-> first + i - 1]
              /\ Findbook!ValidateChain(history) =>
                  /\ \A l \in Findbook!Levels \ {0} :
                      Findbook!ValidateChain(Append(history, l))
                          <=> Findbook!CanTransition(reached, l)
                  /\ reached # Top =>
                      Findbook!ValidateChain(Append(history, Findbook!SuggestNext(reached)))
      BY <3>1, LadderHolds, Zenon
    <3> QED
      BY <3>2, Zenon DEF history
  <2> QED
    BY <2>3, Zenon DEF Findbook!LadderSound
<1>4. Findbook!ScoresSound
  <2>1. ASSUME faults = 0, NEW a \in Agents \cup {None}
        PROVE  scores.disk.scored[Findbook!Bucket(a)] =
                   Cardinality({i \in DOMAIN scores.disk.row : scores.disk.row[i].agent = a})
    BY <1>1, <2>1 DEF SheetInv, Even, Rows
  <2>2. Damping(scores.disk)
    BY <1>1 DEF SheetInv
  <2>3. \A S : Findbook!Cardinality(S) = Cardinality(S)
    BY DEF Findbook!Cardinality, Cardinality
  <2> QED
    BY <2>1, <2>2, <2>3 DEF Findbook!ScoresSound, Damping, Caused
<1> QED
  BY <1>2, <1>3, <1>4

\* Whatever a step commits begins with what was on disk.
LEMMA FindbookGrows ==
    ASSUME FindbookInv, Findbook!Next
    PROVE  Findbook!TrailGrows
<1> DEFINE old == evidence.disk
           new == evidence'.disk
<1>1. /\ evidence \in BookStore /\ Grows(old, evidence.conn)
      /\ old.trail \in Seq(EvEntry) /\ evidence.conn.trail \in Seq(EvEntry)
  BY DEF FindbookInv, FindbookType, BookInv, BookStore, EvBook
<1>2. new = old \/ new = evidence.conn
  <2>1. ASSUME NEW c \in Callers, NEW r \in Findbook!Requests, Findbook!Begin(c, r)
        PROVE  new = old
    BY <2>1 DEF Findbook!Begin
  <2>2. ASSUME NEW c \in Callers,
               \/ Findbook!Lock(c, "write") \/ Findbook!InsertFinding(c)
               \/ Findbook!GetFinding(c) \/ Findbook!ReplaceFinding(c)
               \/ Findbook!InsertEvidence(c) \/ Findbook!Interrupt(c)
        PROVE  new = old
    BY <1>1, <2>2 DEF BookStore, Findbook!Lock, Findbook!InsertFinding, Findbook!GetFinding,
           Findbook!ReplaceFinding, Findbook!InsertEvidence, Findbook!Interrupt
  <2>3. ASSUME NEW c \in Callers, Findbook!CommitEvidence(c) PROVE new = evidence.conn
    BY <1>1, <2>3 DEF BookStore, Findbook!CommitEvidence
  <2>4. ASSUME NEW c \in Callers,
               \/ Findbook!ApplyPrior(c) \/ Findbook!InsertScore(c) \/ Findbook!CountScore(c)
               \/ Findbook!GetOwner(c) \/ Findbook!CountOutcome(c) \/ Findbook!CommitScores(c)
        PROVE  new = old
    BY <2>4 DEF Findbook!ApplyPrior, Findbook!InsertScore, Findbook!CountScore,
           Findbook!GetOwner, Findbook!CountOutcome, Findbook!CommitScores
  <2>5. ASSUME Findbook!Restart PROVE new = old
    BY <1>1, <2>5 DEF BookStore, Findbook!Restart
  <2> HIDE DEF new, old
  <2> QED
    BY <2>1, <2>2, <2>3, <2>4, <2>5, Zenon DEF Findbook!Next
<1>3. Grows(old, old)
  BY <1>1 DEF Grows
<1>4. new.trail \in Seq(EvEntry) /\ Grows(old, new)
  BY <1>1, <1>2, <1>3
<1> HIDE DEF old, new
<1>5. Findbook!IsPrefix(old.trail, new.trail)
  <2>1. old.trail \in Seq(EvEntry)
    BY <1>1 DEF old
  <2> QED
    BY <1>4, <2>1, PrefixIs DEF Grows
<1> QED
  BY <1>4, <1>5 DEF Findbook!TrailGrows, Grows, old, new

\* For any callers, findings, entries and agents, and any interrupted calls and restarts: what
\* add_evidence acknowledged is on disk, once, unless a call was interrupted, and what is on
\* disk stays; the level a finding has reached agrees with its history; the committed scores
\* and counts of an agent agree (EvidenceStore, levels.py, RiskScorer).
THEOREM EvidenceSoundHolds == MCSpec => EvidenceSound
<1>1. FindbookInv => (focus = "findbook" => Findbook!TrailDurable /\ Findbook!LadderSound
                                            /\ Findbook!ScoresSound)
  BY FindbookSays
<1>2. FindbookInv /\ [MCNext]_vars => [focus = "findbook" => Findbook!TrailGrows]_findbook
  <2> SUFFICES ASSUME FindbookInv, [MCNext]_vars, findbook' # findbook
               PROVE  Findbook!TrailGrows
    OBVIOUS
  <2>1. Findbook!Next
    BY Zenon DEF MCNext, vars
  <2> QED
    BY <2>1, FindbookGrows
<1> QED
  BY <1>1, <1>2, FindbookInvariant, PTL DEF MCSpec, EvidenceSound
=============================================================================
