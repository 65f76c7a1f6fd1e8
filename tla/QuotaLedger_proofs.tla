------------------------- MODULE QuotaLedger_proofs -------------------------
(***************************************************************************)
(* Theorems about the quota ledger for any number of bots, updates, users,  *)
(* processes and tasks, any limits and any clock bound.                     *)
(***************************************************************************)
EXTENDS QuotaLedger, FiniteSetTheorems, FunctionTheorems, WellFoundedInduction, TLAPS

-----------------------------------------------------------------------------
(* Execution rights.  ExclusiveExecution is not inductive: that two tasks   *)
(* never execute one key follows from whose reservation the live row is.    *)

\* A task that executes a key is the one whose transaction inserted its row.
Reserver ==
    \A t \in Tasks : pc[t] \in Executing =>
        /\ req[arg[t].key].state \in Live
        /\ req[arg[t].key].by = t

RightsInv ==
    /\ req \in [Keys -> Row]
    /\ pc \in [Tasks -> Stages]
    /\ arg \in [Tasks -> Arg]
    /\ Reserver

\* _prune_txn keeps the table's type and every live row.
LEMMA PruneKeepsLive ==
  ASSUME req \in [Keys -> Row], NEW now
  PROVE  /\ KeptRequests(now) \in [Keys -> Row]
         /\ \A k \in Keys : req[k].state \in Live => KeptRequests(now)[k] = req[k]
         /\ \A k \in Keys : KeptRequests(now)[k] \in {req[k], NoRow}
<1>1. NoRow \in Row
  BY LedgerAssumption DEF NoRow, Row, Time
<1>2. \A k \in Keys : req[k].state \in Live => ~Pruned(k, now)
  BY DEF Pruned, Live, Terminal
<1> QED
  BY <1>1, <1>2 DEF KeptRequests

\* Initially nobody executes anything.
LEMMA RightsInit == Init => RightsInv
<1> SUFFICES ASSUME Init PROVE RightsInv
  OBVIOUS
<1>1. NoRow \in Row
  BY LedgerAssumption DEF NoRow, Row, Time
<1> QED
  BY <1>1 DEF Init, RightsInv, Reserver, Stages, Executing

\* Every step keeps the rights, because only the reserver ends a live row.
LEMMA RightsStep == RightsInv /\ [Next]_vars => RightsInv'
<1> SUFFICES ASSUME RightsInv, [Next]_vars PROVE RightsInv'
  OBVIOUS
<1> USE DEF RightsInv
<1>t. \A t \in Tasks : arg[t].key \in Keys /\ arg[t].user \in Users
  BY DEF Arg
<1>1. ASSUME NEW t \in Tasks, Coroutine(t) PROVE RightsInv'
  <2>1. CASE \E k \in Keys, u \in Users : ReserveRequest(t, k, u)
    BY <2>1 DEF ReserveRequest, Goto, Reserver, Stages, Executing, Arg, durable
  <2>2. CASE ~(\E k \in Keys, u \in Users : ReserveRequest(t, k, u))
    <3>1. /\ UNCHANGED <<req, arg>>
          /\ \E stage \in Stages : /\ Goto(t, stage)
                                   /\ stage \in Executing => pc[t] \in Executing
      BY <1>1, <2>2 DEF Coroutine, ReserveRequestReturn, MarkRunning, ReserveModelCall,
         ReserveModelCallReturn, DispatchEnd, FinishRequest, FinishRequestReturn,
         TxnFails, Abandon, Goto, Stages, Executing, durable
    <3> QED
      BY <3>1 DEF Goto, Reserver
  <2> QED
    BY <2>1, <2>2
<1>2. ASSUME NEW t \in Tasks, NEW now \in Time, Transaction(t, now) PROVE RightsInv'
  <2> DEFINE k == arg[t].key
  <2>k. k \in Keys /\ arg[t].user \in Users
    BY <1>t
  <2>p. /\ KeptRequests(now) \in [Keys -> Row]
        /\ \A j \in Keys : req[j].state \in Live => KeptRequests(now)[j] = req[j]
    BY PruneKeepsLive
  <2>1. CASE ReserveRequestTxn(t, now)
    <3>1. CASE pc'[t] = "granted"
      <4>1. /\ IsNew(KeptRequests(now), k)
            /\ req' = [KeptRequests(now) EXCEPT ![k] =
                 [state |-> "RESERVED", user |-> arg[t].user, at |-> now, by |-> t]]
            /\ pc' = [pc EXCEPT ![t] = "granted"]
            /\ arg' = arg
        BY <2>1, <3>1 DEF ReserveRequestTxn, Goto
      <4>2. \A s \in Tasks : pc[s] \in Executing => arg[s].key # k
        BY <4>1, <2>p, <2>k DEF Reserver, IsNew, Live
      <4> QED
        BY <4>1, <4>2, <2>p, <2>k, <1>t DEF Reserver, Row, Stages, Executing, Live, States, Time
    <3>2. CASE pc'[t] # "granted"
      <4>1. /\ req' = KeptRequests(now)
            /\ pc' = [pc EXCEPT ![t] = "idle"]
            /\ arg' = arg
        BY <2>1, <3>2 DEF ReserveRequestTxn, Goto
      <4> QED
        BY <4>1, <2>p, <1>t DEF Reserver, Stages, Executing
    <3> QED
      BY <3>1, <3>2
  <2>2. CASE MarkRunningTxn(t, now)
    <3>1. /\ req' = [req EXCEPT ![k] = [@ EXCEPT !.state = "RUNNING"]]
          /\ pc[t] = "mark" /\ pc' = [pc EXCEPT ![t] = "held"]
          /\ arg' = arg
      BY <2>2 DEF MarkRunningTxn, Goto
    <3> QED
      BY <3>1, <2>k, <1>t DEF Reserver, Row, Stages, Executing, Live, States
  <2>3. CASE ReserveModelCallTxn(t, now)
    <3>1. /\ req' = KeptRequests(now)
          /\ pc[t] = "model"
          /\ pc' \in {[pc EXCEPT ![t] = "counted"], [pc EXCEPT ![t] = "held"]}
          /\ arg' = arg
      BY <2>3 DEF ReserveModelCallTxn, Goto
    <3> QED
      BY <3>1, <2>p, <1>t DEF Reserver, Stages, Executing
  <2>4. CASE \E success \in BOOLEAN : FinishRequestTxn(t, now, success)
    <3>1. PICK s \in Terminal : req' = [req EXCEPT ![k] = [@ EXCEPT !.state = s]]
      BY <2>4 DEF FinishRequestTxn, Terminal
    <3>2. /\ pc[t] = "finish" /\ pc' = [pc EXCEPT ![t] = "finished"]
          /\ arg' = arg
      BY <2>4 DEF FinishRequestTxn, Goto
    <3>3. \A r \in Tasks : pc'[r] \in Executing => r # t /\ arg[r].key # k
      BY <3>2, <2>k DEF Reserver, Executing
    <3> QED
      BY <3>1, <3>2, <3>3, <2>k, <1>t DEF Reserver, Row, Stages, Executing, Live, States, Terminal
  <2> QED
    BY <1>2, <2>1, <2>2, <2>3, <2>4 DEF Transaction
<1>3. ASSUME NEW p \in Procs, Close(p) PROVE RightsInv'
  BY <1>3 DEF Close, durable, Reserver
<1>4. ASSUME NEW p \in Procs, Restart(p) PROVE RightsInv'
  BY <1>4 DEF Restart, durable, Reserver, Stages, Executing
<1>5. CASE UNCHANGED vars
  BY <1>5 DEF vars, durable, local, Reserver
<1> QED
  BY <1>1, <1>2, <1>3, <1>4, <1>5 DEF Next

\* In every reachable state each executing task is its key's reserver.
THEOREM RightsInvariant == Spec => []RightsInv
<1> QED
  BY RightsInit, RightsStep, PTL DEF Spec

\* At most one task, of all processes, executes an update, and its row is live.
THEOREM ExclusiveExecutionHolds == Spec => []ExclusiveExecution
<1>1. RightsInv => ExclusiveExecution
  BY DEF RightsInv, Reserver, ExclusiveExecution, Arg
<1> QED
  BY <1>1, RightsInvariant, PTL

\* No step deletes a live row or gives it to another task.
THEOREM LiveRowsSurviveHolds == Spec => LiveRowsSurvive
<1> DEFINE A == \A k \in Keys : req[k].state \in Live =>
                   /\ req'[k].state \in States
                   /\ req'[k].by = req[k].by
                   /\ req'[k].at = req[k].at
<1>1. RightsInv /\ [Next]_vars => [A]_vars
  <2> SUFFICES ASSUME RightsInv, Next PROVE A
    OBVIOUS
  <2>t. \A t \in Tasks : arg[t].key \in Keys
    BY DEF RightsInv, Arg
  <2>u. UNCHANGED req => A
    BY DEF Live, States
  <2>1. ASSUME NEW t \in Tasks, NEW now \in Time, Transaction(t, now) PROVE A
    <3>p. \A j \in Keys : req[j].state \in Live => KeptRequests(now)[j] = req[j]
      BY PruneKeepsLive DEF RightsInv
    <3>q. /\ KeptRequests(now) \in [Keys -> Row]
          /\ req \in [Keys -> Row]
      BY PruneKeepsLive DEF RightsInv
    <3>1. CASE ReserveRequestTxn(t, now)
      BY <3>1, <3>p, <3>q, <2>t DEF ReserveRequestTxn, IsNew, Live, States
    <3>2. CASE MarkRunningTxn(t, now)
      BY <3>2, <3>q, <2>t DEF MarkRunningTxn, Row, Live, States
    <3>3. CASE ReserveModelCallTxn(t, now)
      BY <3>3, <3>p DEF ReserveModelCallTxn, Live, States
    <3>4. CASE \E success \in BOOLEAN : FinishRequestTxn(t, now, success)
      BY <3>4, <3>q, <2>t DEF FinishRequestTxn, Row, Live, Terminal, States
    <3> QED
      BY <2>1, <3>1, <3>2, <3>3, <3>4 DEF Transaction
  <2>2. ASSUME NEW t \in Tasks, Coroutine(t) PROVE A
    BY <2>2, <2>u DEF Coroutine, ReserveRequest, ReserveRequestReturn, MarkRunning,
       ReserveModelCall, ReserveModelCallReturn, DispatchEnd, FinishRequest,
       FinishRequestReturn, TxnFails, Abandon, durable
  <2>3. ASSUME NEW p \in Procs, Close(p) \/ Restart(p) PROVE A
    BY <2>3, <2>u DEF Close, Restart, durable
  <2> QED
    BY <2>1, <2>2, <2>3 DEF Next
<1> QED
  BY <1>1, RightsInvariant, PTL DEF Spec, LiveRowsSurvive

-----------------------------------------------------------------------------
(* Quotas.  The limits are about the history, the transactions count rows:  *)
(* the history and the tables agree on everything that is still recent.     *)

\* No bot's clock has moved past the retention of moment m.
Recent(m) == \A b \in Bots : m >= clock[b] - Retention

\* A recent grant still has its row, with the same user and age.
GrantsStored ==
    \A g \in grants :
        /\ g.at <= clock[g.bot]
        /\ Recent(g.at) => /\ req[<<g.bot, g.update>>].state # "ABSENT"
                           /\ req[<<g.bot, g.update>>].user = g.user
                           /\ req[<<g.bot, g.update>>].at = g.at

\* Every row was granted.
RowsGranted ==
    \A k \in Keys : req[k].state # "ABSENT" =>
        [bot |-> k[1], update |-> k[2], user |-> req[k].user, at |-> req[k].at]
            \in grants

\* A recent attempt is still in the table.
AttemptsStored ==
    \A a \in spent : a.at <= clock[a.bot] /\ (Recent(a.at) => a \in att)

\* The indexes in use are bounded, so that a maximum exists.
IndexBounded == \E n \in Nat : \A a \in att : a.index <= n

LedgerTypes ==
    /\ req \in [Keys -> Row]
    /\ att \subseteq Attempt /\ IsFiniteSet(att)
    /\ clock \in [Bots -> Time]
    /\ arg \in [Tasks -> Arg]
    /\ grants \subseteq Grant /\ IsFiniteSet(grants)
    /\ spent \subseteq Attempt /\ IsFiniteSet(spent)

LedgerInv ==
    /\ LedgerTypes
    /\ GrantsStored /\ RowsGranted /\ AttemptsStored /\ IndexBounded
    /\ ReplayRetention /\ Quotas

\* A nonempty set of integers that has bounds has a greatest element.
LEMMA MaxExists ==
  ASSUME NEW S, S \subseteq Int, S # {},
         NEW lo \in Int, NEW hi \in Int, \A x \in S : lo <= x /\ x <= hi
  PROVE  Max(S) \in S /\ \A x \in S : x <= Max(S)
<1> DEFINE T == {n \in Nat : hi - n \in S}
<1>1. T # {}
  <2>1. PICK x \in S : TRUE
    OBVIOUS
  <2>2. hi - x \in T
    BY <2>1
  <2> QED
    BY <2>2
<1>2. \E n \in T : \A m \in T : ~(<<m, n>> \in OpToRel(<, Nat))
  <2> HIDE DEF T
  <2>1. T \subseteq Nat
    BY DEF T
  <2> QED
    BY <1>1, <2>1, WFMin, NatLessThanWellFounded
<1>3. PICK n \in T : \A m \in T : ~(m < n)
  BY <1>2 DEF OpToRel
<1>4. \A x \in S : x <= hi - n
  <2> SUFFICES ASSUME NEW x \in S PROVE x <= hi - n
    OBVIOUS
  <2>1. hi - x \in T
    OBVIOUS
  <2>2. ~(hi - x < n)
    BY <2>1, <1>3
  <2> QED
    BY <2>2
<1>5. \E x \in S : \A y \in S : x >= y
  BY <1>3, <1>4
<1> QED
  BY <1>5 DEF Max

\* The rows of one user that a transaction counts are finitely many.
LEMMA RowsFinite ==
  ASSUME LedgerTypes, RowsGranted, NEW now \in Time, NEW b, NEW u, NEW m
  PROVE  IsFiniteSet(RequestsSince(KeptRequests(now), b, u, m))
<1> DEFINE R == RequestsSince(KeptRequests(now), b, u, m)
           f == [k \in R |-> [bot |-> k[1], update |-> k[2],
                              user |-> req[k].user, at |-> req[k].at]]
<1>1. \A k \in R : k \in Keys /\ req[k].state # "ABSENT"
  BY DEF RequestsSince, KeptRequests, NoRow
<1>2. f \in [R -> grants]
  BY <1>1 DEF RowsGranted
<1>3. \A j, k \in R : f[j] = f[k] => j = k
  BY <1>1 DEF Keys
<1>4. f \in Injection(R, grants)
  <2> HIDE DEF f, R
  <2> QED
    BY <1>2, <1>3 DEF Injection, IsInjective
<1> HIDE DEF f, R
<1>5. IsFiniteSet(R)
  BY <1>4, FS_Injection DEF LedgerTypes
<1> QED
  BY <1>5 DEF R

\* The COUNT(*) of a window no longer than the retention sees every grant that
\* the history has in it.
LEMMA GrantsCounted ==
  ASSUME LedgerTypes, GrantsStored, RowsGranted, NEW now \in Time,
         \A b \in Bots : now >= clock[b],
         NEW w \in Nat, w <= Retention, NEW b \in Bots, NEW u \in Users
  PROVE  LET W == AttemptsSince(grants, b, u, now - w)
         IN  /\ IsFiniteSet(W)
             /\ Cardinality(W) <=
                  Cardinality(RequestsSince(KeptRequests(now), b, u, now - w))
<1> DEFINE W == AttemptsSince(grants, b, u, now - w)
           R == RequestsSince(KeptRequests(now), b, u, now - w)
           f == [g \in W |-> <<g.bot, g.update>>]
<1>t. Retention \in Nat /\ now \in Int /\ \A c \in Bots : clock[c] \in Int
  BY LedgerAssumption DEF LedgerTypes, Time
<1>1. ASSUME NEW g \in W
      PROVE  /\ g \in Grant /\ <<g.bot, g.update>> \in Keys
             /\ KeptRequests(now)[<<g.bot, g.update>>] = req[<<g.bot, g.update>>]
             /\ req[<<g.bot, g.update>>].state # "ABSENT"
             /\ req[<<g.bot, g.update>>].user = u
             /\ req[<<g.bot, g.update>>].at = g.at
  <2> USE DEF AttemptsSince
  <2>1. g \in Grant /\ <<g.bot, g.update>> \in Keys /\ g.at \in Int
    BY DEF LedgerTypes, Grant, Keys, Time
  <2>2. g.at >= now - Retention
    BY <2>1, <1>t
  <2>3. Recent(g.at)
    BY <2>1, <2>2, <1>t DEF Recent
  <2>4. ~Pruned(<<g.bot, g.update>>, now)
    BY <2>1, <2>2, <2>3, <1>t DEF Pruned, GrantsStored
  <2> QED
    BY <2>1, <2>3, <2>4 DEF GrantsStored, KeptRequests
<1>2. f \in [W -> R]
  <2> SUFFICES ASSUME NEW g \in W PROVE <<g.bot, g.update>> \in R
    OBVIOUS
  <2> QED
    BY <1>1 DEF RequestsSince, AttemptsSince
<1>3. \A g, h \in W : f[g] = f[h] => g = h
  <2> SUFFICES ASSUME NEW g \in W, NEW h \in W, f[g] = f[h] PROVE g = h
    OBVIOUS
  <2>1. g \in Grant /\ h \in Grant /\ g.bot = h.bot /\ g.update = h.update
    BY <1>1
  <2>2. g.user = h.user
    BY DEF AttemptsSince
  <2>3. g.at = h.at
    BY <1>1, <2>1
  <2> QED
    BY <2>1, <2>2, <2>3 DEF Grant
<1>4. f \in Injection(W, R)
  <2> HIDE DEF f, W, R
  <2> QED
    BY <1>2, <1>3 DEF Injection, IsInjective
<1>5. IsFiniteSet(R)
  BY RowsFinite
<1> HIDE DEF f, W, R
<1>6. IsFiniteSet(W) /\ Cardinality(W) <= Cardinality(R)
  BY <1>4, <1>5, FS_Injection
<1> QED
  BY <1>6 DEF W, R

\* A window stays within its limit when a row of the present joins a history
\* whose rows since now - w were fewer than the limit.
LEMMA WindowStep ==
  ASSUME NEW H, IsFiniteSet(H), \A r \in H : r.at \in Int,
         NEW n, n.at \in Int, NEW b, NEW u,
         NEW w \in Nat, NEW limit \in Nat, NEW to \in Int,
         Cardinality(InWindow(H, b, u, to - w, to)) <= limit,
         n.bot = b /\ n.user = u =>
            Cardinality(AttemptsSince(H, b, u, n.at - w)) < limit
  PROVE  Cardinality(InWindow(H \cup {n}, b, u, to - w, to)) <= limit
<1> DEFINE now == n.at
           W == AttemptsSince(H, b, u, now - w)
           I == InWindow(H, b, u, to - w, to)
           J == InWindow(H \cup {n}, b, u, to - w, to)
<1>1. CASE n.bot # b \/ n.user # u \/ now > to
  <2>1. J = I
    BY <1>1 DEF InWindow
  <2> QED
    BY <2>1
<1>2. CASE n.bot = b /\ n.user = u /\ now <= to
  <2>1. I \subseteq W
    BY <1>2 DEF InWindow, AttemptsSince
  <2>2. J \subseteq W \cup {n}
    BY <1>2, <2>1 DEF InWindow, AttemptsSince
  <2>3. IsFiniteSet(W) /\ Cardinality(W) \in Nat
    <3>1. W \subseteq H
      BY DEF AttemptsSince
    <3> HIDE DEF W
    <3> QED
      BY <3>1, FS_Subset, FS_CardinalityType
  <2>4. Cardinality(W) < limit
    BY <1>2
  <2> HIDE DEF W, J
  <2>5. IsFiniteSet(W \cup {n}) /\ Cardinality(W \cup {n}) <= Cardinality(W) + 1
    <3>1. /\ IsFiniteSet(W \cup {n})
          /\ Cardinality(W \cup {n}) =
               IF n \in W THEN Cardinality(W) ELSE Cardinality(W) + 1
      BY <2>3, FS_AddElement, Zenon
    <3> QED
      BY <3>1, <2>3
  <2>6. IsFiniteSet(J) /\ Cardinality(J) <= Cardinality(W \cup {n})
    BY <2>2, <2>5, FS_Subset
  <2>8. Cardinality(J) \in Nat /\ Cardinality(W \cup {n}) \in Nat
    BY <2>5, <2>6, FS_CardinalityType
  <2>7. Cardinality(J) <= limit
    BY <2>3, <2>4, <2>5, <2>6, <2>8
  <2> QED
    BY <2>7 DEF J
<1> QED
  BY <1>1, <1>2

\* A transaction's clock: no bot's clock goes back or passes now, and what is
\* recent afterwards was recent before and is not older than the retention.
LEMMA ClockStep ==
  ASSUME LedgerTypes, NEW k \in Keys, NEW now \in Time,
         \A b \in Bots : now >= clock[b], AdvanceClock(k, now)
  PROVE  /\ clock' \in [Bots -> Time]
         /\ \A b \in Bots : clock[b] <= clock'[b] /\ clock'[b] <= now
         /\ clock'[k[1]] = now
         /\ \A m \in Int : Recent(m)' => Recent(m) /\ m >= now - Retention
<1>1. k[1] \in Bots
  BY DEF Keys
<1>2. /\ clock' = [clock EXCEPT ![k[1]] = now]
      /\ clock \in [Bots -> Time]
      /\ now \in Int /\ Retention \in Int
      /\ \A b \in Bots : clock[b] \in Int
  BY LedgerAssumption DEF LedgerTypes, AdvanceClock, Time
<1>3. /\ clock' \in [Bots -> Time]
      /\ \A b \in Bots : clock[b] <= clock'[b] /\ clock'[b] <= now /\ clock'[b] \in Int
      /\ clock'[k[1]] = now
  BY <1>1, <1>2
<1>4. ASSUME NEW m \in Int, Recent(m)'
      PROVE  Recent(m) /\ m >= now - Retention
  <2>1. \A b \in Bots : m >= clock'[b] - Retention
    BY <1>4 DEF Recent
  <2> QED
    BY <2>1, <1>1, <1>2, <1>3 DEF Recent
<1> QED
  BY <1>3, <1>4

\* What pruning at now leaves behind: the recent history, and only granted rows.
LEMMA PruneStep ==
  ASSUME LedgerInv, NEW k \in Keys, NEW now \in Time,
         \A b \in Bots : now >= clock[b], AdvanceClock(k, now)
  PROVE  /\ KeptAttempts(now) \subseteq att /\ IsFiniteSet(KeptAttempts(now))
         /\ \A a \in spent : /\ a.at <= clock'[a.bot]
                             /\ Recent(a.at)' => a \in KeptAttempts(now)
         /\ \A g \in grants :
              /\ g.at <= clock'[g.bot]
              /\ Recent(g.at)' =>
                   LET row == KeptRequests(now)[<<g.bot, g.update>>]
                   IN  row.state # "ABSENT" /\ row.user = g.user /\ row.at = g.at
         /\ \A j \in Keys : KeptRequests(now)[j].state # "ABSENT" =>
              [bot |-> j[1], update |-> j[2], user |-> KeptRequests(now)[j].user,
               at |-> KeptRequests(now)[j].at] \in grants
<1>1. LedgerTypes
  BY DEF LedgerInv
<1>2. /\ clock' \in [Bots -> Time]
      /\ \A b \in Bots : clock[b] <= clock'[b]
      /\ \A m \in Int : Recent(m)' => Recent(m) /\ m >= now - Retention
  BY <1>1, ClockStep
<1>3. now \in Int /\ Retention \in Int /\ \A b \in Bots : clock[b] \in Int /\ clock'[b] \in Int
  BY <1>1, <1>2, LedgerAssumption DEF LedgerTypes, Time
<1>4. KeptAttempts(now) \subseteq att /\ IsFiniteSet(KeptAttempts(now))
  <2>1. KeptAttempts(now) \subseteq att
    BY DEF KeptAttempts
  <2> QED
    BY <2>1, <1>1, FS_Subset DEF LedgerTypes
<1>5. ASSUME NEW a \in spent
      PROVE  a.at <= clock'[a.bot] /\ (Recent(a.at)' => a \in KeptAttempts(now))
  <2>1. a.bot \in Bots /\ a.at \in Int /\ a.at <= clock[a.bot]
    BY <1>1 DEF LedgerTypes, Attempt, Time, LedgerInv, AttemptsStored
  <2>2. ASSUME Recent(a.at)' PROVE a \in KeptAttempts(now)
    <3>1. Recent(a.at) /\ a.at >= now - Retention
      BY <2>1, <2>2, <1>2
    <3> QED
      BY <3>1 DEF KeptAttempts, LedgerInv, AttemptsStored
  <2> QED
    BY <2>1, <2>2, <1>2, <1>3
<1>6. ASSUME NEW g \in grants
      PROVE  /\ g.at <= clock'[g.bot]
             /\ Recent(g.at)' =>
                   LET row == KeptRequests(now)[<<g.bot, g.update>>]
                   IN  row.state # "ABSENT" /\ row.user = g.user /\ row.at = g.at
  <2>1. /\ g.bot \in Bots /\ <<g.bot, g.update>> \in Keys
        /\ g.at \in Int /\ g.at <= clock[g.bot]
    BY <1>1 DEF LedgerTypes, Grant, Keys, Time, LedgerInv, GrantsStored
  <2>2. ASSUME Recent(g.at)'
        PROVE  /\ req[<<g.bot, g.update>>].state # "ABSENT"
               /\ req[<<g.bot, g.update>>].user = g.user
               /\ req[<<g.bot, g.update>>].at = g.at
               /\ KeptRequests(now)[<<g.bot, g.update>>] = req[<<g.bot, g.update>>]
    <3>1. Recent(g.at) /\ g.at >= now - Retention
      BY <2>1, <2>2, <1>2
    <3>2. /\ req[<<g.bot, g.update>>].state # "ABSENT"
          /\ req[<<g.bot, g.update>>].user = g.user
          /\ req[<<g.bot, g.update>>].at = g.at
      BY <3>1 DEF LedgerInv, GrantsStored
    <3>3. ~Pruned(<<g.bot, g.update>>, now)
      BY <3>1, <3>2, <2>1, <1>3 DEF Pruned
    <3> QED
      BY <3>2, <3>3, <2>1 DEF KeptRequests
  <2> QED
    BY <2>1, <2>2, <1>2, <1>3
<1>7. \A j \in Keys : KeptRequests(now)[j].state # "ABSENT" =>
              [bot |-> j[1], update |-> j[2], user |-> KeptRequests(now)[j].user,
               at |-> KeptRequests(now)[j].at] \in grants
  BY DEF KeptRequests, NoRow, LedgerInv, RowsGranted
<1> QED
  BY <1>4, <1>5, <1>6, <1>7

\* Fewer attempts of a request keep its own limit and their distinct indexes.
LEMMA FewerAttempts ==
  ASSUME LedgerTypes, PerRequestQuota, NEW A, A \subseteq att, NEW k \in Keys
  PROVE  /\ IsFiniteSet(AttemptsOf(A, k))
         /\ Cardinality(AttemptsOf(A, k)) <= ModelCallsPerRequest
         /\ \A a, b \in AttemptsOf(A, k) : a.index = b.index => a = b
<1> DEFINE S == AttemptsOf(att, k)
           T == AttemptsOf(A, k)
<1>1. T \subseteq S /\ S \subseteq att
  BY DEF AttemptsOf
<1>2. /\ Cardinality(S) <= ModelCallsPerRequest
      /\ \A a, b \in S : a.index = b.index => a = b
  BY DEF PerRequestQuota
<1>n. ModelCallsPerRequest \in Nat
  BY LedgerAssumption
<1> HIDE DEF S, T
<1>3. IsFiniteSet(S)
  BY <1>1, FS_Subset DEF LedgerTypes
<1>4. IsFiniteSet(T) /\ Cardinality(T) <= Cardinality(S)
  BY <1>1, <1>3, FS_Subset
<1>5. Cardinality(T) \in Nat /\ Cardinality(S) \in Nat
  BY <1>3, <1>4, FS_CardinalityType
<1>6. Cardinality(T) <= ModelCallsPerRequest
  BY <1>2, <1>4, <1>5, <1>n
<1>7. \A a, b \in T : a.index = b.index => a = b
  BY <1>1, <1>2
<1> QED
  BY <1>4, <1>6, <1>7 DEF T

\* A transaction that prunes and grants nothing keeps the invariant.
LEMMA PruneOnly ==
  ASSUME LedgerInv, NEW k \in Keys, NEW now \in Time,
         \A b \in Bots : now >= clock[b], AdvanceClock(k, now),
         req' = KeptRequests(now), att' = KeptAttempts(now),
         UNCHANGED <<arg, grants, spent>>
  PROVE  LedgerInv'
<1>1. LedgerTypes /\ Quotas /\ ReplayRetention /\ IndexBounded
  BY DEF LedgerInv
<1>2. /\ KeptAttempts(now) \subseteq att /\ IsFiniteSet(KeptAttempts(now))
      /\ clock' \in [Bots -> Time]
      /\ KeptRequests(now) \in [Keys -> Row]
  BY <1>1, PruneStep, ClockStep, PruneKeepsLive DEF LedgerTypes
<1>3. LedgerTypes'
  BY <1>1, <1>2 DEF LedgerTypes
<1>4. GrantsStored' /\ RowsGranted' /\ AttemptsStored'
  <2>1. AttemptsStored'
    BY PruneStep DEF AttemptsStored
  <2>2. GrantsStored'
    BY PruneStep DEF GrantsStored
  <2>3. RowsGranted'
    BY PruneStep DEF RowsGranted
  <2> QED
    BY <2>1, <2>2, <2>3
<1>5. IndexBounded'
  BY <1>1, <1>2 DEF IndexBounded
<1>6. PerRequestQuota'
  BY <1>1, <1>2, FewerAttempts DEF PerRequestQuota, Quotas
<1>7. RequestQuota' /\ ModelCallQuota' /\ ReplayRetention'
  BY <1>1 DEF Quotas, RequestQuota, ModelCallQuota, ReplayRetention
<1> QED
  BY <1>3, <1>4, <1>5, <1>6, <1>7 DEF LedgerInv, Quotas

\* A granted reservation keeps the invariant: it was counted against both
\* windows, and an earlier grant of its key is older than the retention.
LEMMA GrantKeeps ==
  ASSUME LedgerInv, NEW t \in Tasks, NEW now \in Time,
         \A b \in Bots : now >= clock[b],
         NEW k \in Keys, NEW u \in Users, AdvanceClock(k, now),
         IsNew(KeptRequests(now), k), ~OverRequestLimit(KeptRequests(now), k, u, now),
         att' = KeptAttempts(now),
         req' = [KeptRequests(now) EXCEPT ![k] =
                   [state |-> "RESERVED", user |-> u, at |-> now, by |-> t]],
         grants' = grants \cup {[bot |-> k[1], update |-> k[2], user |-> u, at |-> now]},
         UNCHANGED <<arg, spent>>
  PROVE  LedgerInv'
<1> DEFINE g0 == [bot |-> k[1], update |-> k[2], user |-> u, at |-> now]
<1>1. LedgerTypes /\ Quotas /\ ReplayRetention /\ IndexBounded /\ GrantsStored /\ RowsGranted
  BY DEF LedgerInv
<1>2. /\ KeptAttempts(now) \subseteq att /\ IsFiniteSet(KeptAttempts(now))
      /\ clock' \in [Bots -> Time] /\ clock'[k[1]] = now
      /\ KeptRequests(now) \in [Keys -> Row]
  BY <1>1, PruneStep, ClockStep, PruneKeepsLive DEF LedgerTypes
<1>3. /\ now \in Int /\ Retention \in Int
      /\ \A b \in Bots : clock[b] \in Int /\ clock'[b] \in Int
      /\ k = <<k[1], k[2]>> /\ k[1] \in Bots /\ k[2] \in Updates
  BY <1>1, <1>2, LedgerAssumption DEF LedgerTypes, Time, Keys
<1>4. LedgerTypes'
  <2>1. g0 \in Grant
    BY <1>3 DEF Grant
  <2>2. IsFiniteSet(grants \cup {g0})
    BY <1>1, FS_AddElement DEF LedgerTypes
  <2>3. [state |-> "RESERVED", user |-> u, at |-> now, by |-> t] \in Row
    BY DEF Row, States, Live
  <2> QED
    BY <1>1, <1>2, <2>1, <2>2, <2>3 DEF LedgerTypes
<1>5. \A g \in grants : g.bot = k[1] /\ g.update = k[2] => now - g.at > Retention
  <2> SUFFICES ASSUME NEW g \in grants, g.bot = k[1], g.update = k[2]
               PROVE  now - g.at > Retention
    OBVIOUS
  <2>1. g.at \in Int
    BY <1>1 DEF LedgerTypes, Grant, Time
  <2>2. CASE ~Recent(g.at)
    BY <2>1, <2>2, <1>3 DEF Recent
  <2>3. CASE Recent(g.at)
    <3>1. req[k].state # "ABSENT" /\ req[k].at = g.at
      BY <2>3, <1>1, <1>3 DEF GrantsStored
    <3>2. Pruned(k, now)
      BY <3>1 DEF IsNew, KeptRequests
    <3> QED
      BY <3>1, <3>2, <2>1, <1>3 DEF Pruned
  <2> QED
    BY <2>2, <2>3
<1>6. ReplayRetention'
  <2> SUFFICES ASSUME NEW g \in grants \cup {g0}, NEW h \in grants \cup {g0},
                      g # h, g.bot = h.bot, g.update = h.update
               PROVE  g.at - h.at > Retention \/ h.at - g.at > Retention
    BY DEF ReplayRetention
  <2>1. CASE g \in grants /\ h \in grants
    BY <2>1, <1>1 DEF ReplayRetention
  <2>2. CASE g = g0 /\ h \in grants
    BY <2>2, <1>5
  <2>3. CASE h = g0 /\ g \in grants
    BY <2>3, <1>5
  <2> QED
    BY <2>1, <2>2, <2>3
<1>7. GrantsStored'
  <2> SUFFICES ASSUME NEW g \in grants \cup {g0}
               PROVE  /\ g.at <= clock'[g.bot]
                      /\ Recent(g.at)' => /\ req'[<<g.bot, g.update>>].state # "ABSENT"
                                          /\ req'[<<g.bot, g.update>>].user = g.user
                                          /\ req'[<<g.bot, g.update>>].at = g.at
    BY DEF GrantsStored
  <2>1. CASE g = g0
    BY <2>1, <1>2, <1>3
  <2>2. CASE g \in grants
    <3>1. /\ g.at <= clock'[g.bot]
          /\ Recent(g.at)' =>
               LET row == KeptRequests(now)[<<g.bot, g.update>>]
               IN  row.state # "ABSENT" /\ row.user = g.user /\ row.at = g.at
      BY <2>2, PruneStep
    <3>2. <<g.bot, g.update>> \in Keys
      BY <2>2, <1>1 DEF LedgerTypes, Grant, Keys
    <3>3. CASE <<g.bot, g.update>> = k
      BY <3>1, <3>3 DEF IsNew
    <3>4. CASE <<g.bot, g.update>> # k
      BY <3>1, <3>2, <3>4, <1>2
    <3> QED
      BY <3>3, <3>4
  <2> QED
    BY <2>1, <2>2
<1>8. RowsGranted'
  <2> SUFFICES ASSUME NEW j \in Keys, req'[j].state # "ABSENT"
               PROVE  [bot |-> j[1], update |-> j[2], user |-> req'[j].user,
                       at |-> req'[j].at] \in grants \cup {g0}
    BY DEF RowsGranted
  <2>1. CASE j = k
    BY <2>1, <1>2
  <2>2. CASE j # k
    <3>1. req'[j] = KeptRequests(now)[j]
      BY <2>2, <1>2
    <3> QED
      BY <3>1, PruneStep
  <2> QED
    BY <2>1, <2>2
<1>9. AttemptsStored' /\ IndexBounded' /\ PerRequestQuota'
  <2>1. AttemptsStored'
    BY PruneStep DEF AttemptsStored
  <2>2. IndexBounded'
    BY <1>1, <1>2 DEF IndexBounded
  <2>3. PerRequestQuota'
    BY <1>1, <1>2, FewerAttempts DEF PerRequestQuota, Quotas
  <2> QED
    BY <2>1, <2>2, <2>3
<1>10. RequestQuota'
  <2>1. ASSUME NEW b \in Bots, NEW v \in Users, NEW to \in Time,
               NEW w \in Nat, w <= Retention, NEW limit \in Nat,
               Cardinality(InWindow(grants, b, v, to - w, to)) <= limit,
               ~(Cardinality(RequestsSince(KeptRequests(now), k[1], u, now - w)) >= limit)
        PROVE  Cardinality(InWindow(grants', b, v, to - w, to)) <= limit
    <3> DEFINE W == AttemptsSince(grants, b, v, now - w)
               R == RequestsSince(KeptRequests(now), b, v, now - w)
    <3>1. IsFiniteSet(W) /\ Cardinality(W) <= Cardinality(R) /\ IsFiniteSet(R)
      BY <1>1, <2>1, GrantsCounted, RowsFinite
    <3>2. Cardinality(W) \in Nat /\ Cardinality(R) \in Nat
      <4> HIDE DEF W, R
      <4> QED
        BY <3>1, FS_CardinalityType
    <3>3. g0.bot = b /\ g0.user = v => Cardinality(W) < limit
      BY <2>1, <3>1, <3>2
    <3>4. IsFiniteSet(grants) /\ (\A r \in grants : r.at \in Int) /\ to \in Int /\ g0.at = now
      BY <1>1 DEF LedgerTypes, Grant, Time
    <3> HIDE DEF g0
    <3>5. Cardinality(InWindow(grants \cup {g0}, b, v, to - w, to)) <= limit
      BY <2>1, <3>3, <3>4, <1>3, WindowStep
    <3> QED
      BY <3>5 DEF g0
  <2>2. /\ Hour \in Nat /\ Day \in Nat /\ Hour <= Retention /\ Day <= Retention
        /\ RequestsPerHour \in Nat /\ RequestsPerDay \in Nat
    BY LedgerAssumption
  <2> QED
    BY <1>1, <2>1, <2>2 DEF RequestQuota, Quotas, OverRequestLimit
<1>11. ModelCallQuota'
  BY <1>1 DEF Quotas, ModelCallQuota
<1> QED
  BY <1>4, <1>6, <1>7, <1>8, <1>9, <1>10, <1>11 DEF LedgerInv, Quotas

\* The next attempt_index is a natural number above every index of the request.
LEMMA NextIndexFresh ==
  ASSUME LedgerTypes, IndexBounded, NEW A, A \subseteq att, NEW k
  PROVE  /\ NextIndex(A, k) \in Nat
         /\ \A a \in AttemptsOf(A, k) : a.index < NextIndex(A, k)
         /\ \A n \in Nat : (\A a \in att : a.index <= n) => NextIndex(A, k) <= n + 1
<1> DEFINE S == {-1} \cup {a.index : a \in AttemptsOf(A, k)}
<1>1. \A a \in AttemptsOf(A, k) : a \in att /\ a.index \in Nat
  BY DEF AttemptsOf, LedgerTypes, Attempt
<1>2. S \subseteq Int /\ -1 \in S
  BY <1>1
<1>3. PICK n \in Nat : \A a \in att : a.index <= n
  BY DEF IndexBounded
<1>4. \A x \in S : -1 <= x /\ x <= n
  BY <1>1, <1>3
<1>5. -1 \in Int /\ n \in Int /\ S # {}
  BY <1>2
<1>6. Max(S) \in S /\ \A x \in S : x <= Max(S)
  <2> HIDE DEF S
  <2> QED
    BY <1>2, <1>4, <1>5, MaxExists
<1>7. NextIndex(A, k) = Max(S) + 1
  BY DEF NextIndex
<1> DEFINE m == Max(S)
<1>8. m \in S /\ (\A x \in S : x <= m) /\ NextIndex(A, k) = m + 1
  BY <1>6, <1>7
<1> HIDE DEF m
<1>9. m \in Int /\ -1 <= m
  BY <1>2, <1>8
<1>10. \A a \in AttemptsOf(A, k) : a.index <= m
  BY <1>8
<1>11. ASSUME NEW p \in Nat, \A a \in att : a.index <= p PROVE m <= p
  BY <1>1, <1>8, <1>11
<1> QED
  BY <1>1, <1>8, <1>9, <1>10, <1>11

\* A counted model attempt keeps the invariant.
LEMMA AttemptKeeps ==
  ASSUME LedgerInv, NEW now \in Time, \A b \in Bots : now >= clock[b],
         NEW k \in Keys, NEW u \in Users, AdvanceClock(k, now),
         ~OverModelLimit(KeptAttempts(now), k, u, now),
         NEW row, row = [bot |-> k[1], update |-> k[2], user |-> u,
                         index |-> NextIndex(KeptAttempts(now), k), at |-> now],
         req' = KeptRequests(now),
         att' = KeptAttempts(now) \cup {row}, spent' = spent \cup {row},
         UNCHANGED <<arg, grants>>
  PROVE  LedgerInv'
<1> DEFINE kept == KeptAttempts(now)
<1>1. LedgerTypes /\ Quotas /\ ReplayRetention /\ IndexBounded /\ AttemptsStored
  BY DEF LedgerInv
<1>2. /\ kept \subseteq att /\ IsFiniteSet(kept)
      /\ clock' \in [Bots -> Time] /\ clock'[k[1]] = now
      /\ KeptRequests(now) \in [Keys -> Row]
  BY <1>1, PruneStep, ClockStep, PruneKeepsLive DEF LedgerTypes
<1>3. /\ now \in Int /\ Retention \in Nat
      /\ \A b \in Bots : clock[b] \in Int /\ clock'[b] \in Int
      /\ k = <<k[1], k[2]>> /\ k[1] \in Bots /\ k[2] \in Updates
  BY <1>1, <1>2, LedgerAssumption DEF LedgerTypes, Time, Keys
<1>4. /\ row.index \in Nat
      /\ \A a \in AttemptsOf(kept, k) : a.index < row.index
      /\ \A n \in Nat : (\A a \in att : a.index <= n) => row.index <= n + 1
  BY <1>1, <1>2, NextIndexFresh
<1>r. row \in Attempt /\ row.bot = k[1] /\ row.update = k[2] /\ row.user = u /\ row.at = now
  BY <1>3, <1>4 DEF Attempt
<1> HIDE DEF kept
<1>5. LedgerTypes'
  <2>1. IsFiniteSet(kept \cup {row}) /\ IsFiniteSet(spent \cup {row})
    BY <1>1, <1>2, FS_AddElement DEF LedgerTypes
  <2> QED
    BY <1>1, <1>2, <1>r, <2>1 DEF LedgerTypes, kept
<1>6. GrantsStored' /\ RowsGranted'
  <2>1. GrantsStored'
    BY PruneStep DEF GrantsStored
  <2>2. RowsGranted'
    BY PruneStep DEF RowsGranted
  <2> QED
    BY <2>1, <2>2
<1>7. AttemptsStored'
  <2> SUFFICES ASSUME NEW a \in spent \cup {row}
               PROVE  a.at <= clock'[a.bot] /\ (Recent(a.at)' => a \in att')
    BY DEF AttemptsStored
  <2>1. CASE a = row
    BY <2>1, <1>2, <1>3, <1>r
  <2>2. CASE a \in spent
    BY <2>2, PruneStep
  <2> QED
    BY <2>1, <2>2
<1>8. IndexBounded'
  <2>1. PICK n \in Nat : \A a \in att : a.index <= n
    BY <1>1 DEF IndexBounded
  <2>2. \A a \in kept \cup {row} : a.index <= n + 1
    BY <2>1, <1>1, <1>2, <1>4 DEF LedgerTypes, Attempt
  <2> QED
    BY <2>2 DEF IndexBounded, kept
<1>9. PerRequestQuota'
  <2> SUFFICES ASSUME NEW j \in Keys
               PROVE  /\ Cardinality(AttemptsOf(kept \cup {row}, j)) <= ModelCallsPerRequest
                      /\ \A a, b \in AttemptsOf(kept \cup {row}, j) :
                            a.index = b.index => a = b
    BY DEF PerRequestQuota, kept
  <2> DEFINE S == AttemptsOf(kept, j)
             T == AttemptsOf(kept \cup {row}, j)
  <2>1. /\ IsFiniteSet(S) /\ Cardinality(S) <= ModelCallsPerRequest
        /\ \A a, b \in S : a.index = b.index => a = b
    BY <1>1, <1>2, FewerAttempts DEF Quotas
  <2>2. CASE j # k
    <3>1. T = S
      BY <2>2, <1>3, <1>r DEF AttemptsOf, Keys
    <3> QED
      BY <3>1, <2>1
  <2>3. CASE j = k
    <3>1. T = S \cup {row}
      BY <2>3, <1>r DEF AttemptsOf
    <3>2. row \notin S /\ \A a \in S : a.index # row.index
      BY <2>3, <1>1, <1>2, <1>4 DEF AttemptsOf, LedgerTypes, Attempt
    <3>3. ~(Cardinality(S) >= ModelCallsPerRequest)
      BY <2>3 DEF OverModelLimit, kept
    <3> HIDE DEF S, T
    <3>4. Cardinality(T) = Cardinality(S) + 1
      BY <3>1, <3>2, <2>1, FS_AddElement
    <3>5. Cardinality(S) \in Nat /\ ModelCallsPerRequest \in Nat
      BY <2>1, FS_CardinalityType, LedgerAssumption
    <3>6. Cardinality(T) <= ModelCallsPerRequest
      BY <3>3, <3>4, <3>5
    <3>7. \A a, b \in T : a.index = b.index => a = b
      BY <3>1, <3>2, <2>1
    <3> QED
      BY <3>6, <3>7 DEF T
  <2> QED
    BY <2>2, <2>3
<1>10. ModelCallQuota'
  <2>1. ASSUME NEW b \in Bots, NEW v \in Users, NEW to \in Time,
               NEW w \in Nat, w <= Retention, NEW limit \in Nat,
               Cardinality(InWindow(spent, b, v, to - w, to)) <= limit,
               ~(Cardinality(AttemptsSince(kept, k[1], u, now - w)) >= limit)
        PROVE  Cardinality(InWindow(spent \cup {row}, b, v, to - w, to)) <= limit
    <3> DEFINE W == AttemptsSince(spent, b, v, now - w)
               R == AttemptsSince(kept, b, v, now - w)
    <3>1. W \subseteq R
      <4> SUFFICES ASSUME NEW a \in W PROVE a \in kept
        BY DEF AttemptsSince
      <4>1. a \in spent /\ a.at \in Int /\ a.at > now - w
        BY <1>1 DEF AttemptsSince, LedgerTypes, Attempt, Time
      <4>2. a.at >= now - Retention
        BY <4>1, <2>1, <1>3
      <4>3. Recent(a.at)
        BY <4>1, <4>2, <1>3 DEF Recent
      <4> QED
        BY <4>1, <4>2, <4>3, <1>1 DEF AttemptsStored, kept, KeptAttempts
    <3>2. R \subseteq kept
      BY DEF AttemptsSince
    <3>3. IsFiniteSet(R) /\ IsFiniteSet(W) /\ Cardinality(W) <= Cardinality(R)
      <4> HIDE DEF W, R
      <4> QED
        BY <3>1, <3>2, <1>2, FS_Subset
    <3>4. Cardinality(W) \in Nat /\ Cardinality(R) \in Nat
      <4> HIDE DEF W, R
      <4> QED
        BY <3>3, FS_CardinalityType
    <3>5. row.bot = b /\ row.user = v => Cardinality(W) < limit
      BY <2>1, <3>3, <3>4, <1>r
    <3>6. IsFiniteSet(spent) /\ (\A r \in spent : r.at \in Int) /\ to \in Int /\ row.at = now
      BY <1>1, <1>r DEF LedgerTypes, Attempt, Time
    <3> QED
      BY <2>1, <3>5, <3>6, <1>3, WindowStep
  <2>2. /\ Hour \in Nat /\ Day \in Nat /\ Hour <= Retention /\ Day <= Retention
        /\ ModelCallsPerHour \in Nat /\ ModelCallsPerDay \in Nat
    BY LedgerAssumption
  <2> QED
    BY <1>1, <2>1, <2>2 DEF ModelCallQuota, Quotas, OverModelLimit, kept
<1>11. RequestQuota' /\ ReplayRetention'
  BY <1>1 DEF Quotas, RequestQuota, ReplayRetention
<1> QED
  BY <1>5, <1>6, <1>7, <1>8, <1>9, <1>10, <1>11 DEF LedgerInv, Quotas

\* mark_running and finish_request change the state of one row and the clock.
LEMMA StateChangeKeeps ==
  ASSUME LedgerInv, NEW now \in Time, \A b \in Bots : now >= clock[b],
         NEW k \in Keys, AdvanceClock(k, now), NEW s \in States,
         req[k].state # "ABSENT",
         req' = [req EXCEPT ![k] = [@ EXCEPT !.state = s]],
         UNCHANGED <<att, arg, grants, spent>>
  PROVE  LedgerInv'
<1>1. LedgerTypes /\ Quotas /\ ReplayRetention /\ IndexBounded
  BY DEF LedgerInv
<1>2. /\ clock' \in [Bots -> Time]
      /\ \A b \in Bots : clock[b] <= clock'[b]
      /\ \A m \in Int : Recent(m)' => Recent(m)
  BY <1>1, ClockStep
<1>3. /\ \A b \in Bots : clock[b] \in Int /\ clock'[b] \in Int
      /\ \A g \in grants : g.bot \in Bots /\ g.at \in Int /\ <<g.bot, g.update>> \in Keys
      /\ \A a \in spent : a.bot \in Bots /\ a.at \in Int
  BY <1>1, <1>2 DEF LedgerTypes, Grant, Attempt, Keys, Time
<1>4. \A j \in Keys : /\ req'[j].user = req[j].user /\ req'[j].at = req[j].at
                      /\ req'[j].state # "ABSENT" <=> req[j].state # "ABSENT"
                      /\ req'[j] \in Row
  BY <1>1 DEF LedgerTypes, Row, States, Live, Terminal
<1>5. LedgerTypes'
  BY <1>1, <1>2, <1>4 DEF LedgerTypes
<1>6. GrantsStored'
  <2> SUFFICES ASSUME NEW g \in grants
               PROVE  /\ g.at <= clock'[g.bot]
                      /\ Recent(g.at)' => /\ req'[<<g.bot, g.update>>].state # "ABSENT"
                                          /\ req'[<<g.bot, g.update>>].user = g.user
                                          /\ req'[<<g.bot, g.update>>].at = g.at
    BY DEF GrantsStored
  <2>1. g.at <= clock[g.bot]
    BY DEF LedgerInv, GrantsStored
  <2>b. /\ clock[g.bot] <= clock'[g.bot] /\ g.at \in Int
        /\ clock[g.bot] \in Int /\ clock'[g.bot] \in Int
    BY <1>2, <1>3
  <2>2. g.at <= clock'[g.bot]
    BY <2>1, <2>b
  <2>3. ASSUME Recent(g.at)'
        PROVE  /\ req[<<g.bot, g.update>>].state # "ABSENT"
               /\ req[<<g.bot, g.update>>].user = g.user
               /\ req[<<g.bot, g.update>>].at = g.at
    BY <2>3, <1>2, <1>3 DEF LedgerInv, GrantsStored
  <2> QED
    BY <2>2, <2>3, <1>3, <1>4
<1>7. RowsGranted'
  BY <1>4 DEF LedgerInv, RowsGranted
<1>8. AttemptsStored'
  <2> SUFFICES ASSUME NEW a \in spent
               PROVE  a.at <= clock'[a.bot] /\ (Recent(a.at)' => a \in att)
    BY DEF AttemptsStored
  <2>1. a.at <= clock[a.bot]
    BY DEF LedgerInv, AttemptsStored
  <2>2. a.at <= clock'[a.bot]
    BY <2>1, <1>2, <1>3
  <2> QED
    BY <2>2, <1>2, <1>3 DEF LedgerInv, AttemptsStored
<1>9. IndexBounded' /\ Quotas' /\ ReplayRetention'
  BY <1>1 DEF IndexBounded, Quotas, RequestQuota, ModelCallQuota, PerRequestQuota,
              ReplayRetention
<1> QED
  BY <1>5, <1>6, <1>7, <1>8, <1>9 DEF LedgerInv

\* A step that leaves the tables and the history alone.
LEMMA QuietKeeps ==
  ASSUME LedgerInv, UNCHANGED <<durable, history>>, arg' \in [Tasks -> Arg]
  PROVE  LedgerInv'
<1>1. UNCHANGED <<req, att, clock, grants, spent>>
  BY DEF durable, history
<1> QED
  BY <1>1 DEF LedgerInv, LedgerTypes, GrantsStored, RowsGranted, AttemptsStored, Recent,
     IndexBounded, ReplayRetention, Quotas, RequestQuota, ModelCallQuota, PerRequestQuota

\* The empty ledger satisfies the invariant.
LEMMA LedgerInit == Init => LedgerInv
<1> SUFFICES ASSUME Init PROVE LedgerInv
  OBVIOUS
<1>1. NoRow \in Row
  BY LedgerAssumption DEF NoRow, Row, Time
<1>2. LedgerTypes
  BY <1>1, LedgerAssumption, FS_EmptySet DEF Init, LedgerTypes, Time
<1>3. GrantsStored /\ RowsGranted /\ AttemptsStored /\ IndexBounded /\ ReplayRetention
  BY DEF Init, GrantsStored, RowsGranted, NoRow, AttemptsStored, IndexBounded, ReplayRetention
<1>4. \A b, u, from, to : InWindow({}, b, u, from, to) = {}
  BY DEF InWindow
<1>5. \A k \in Keys : AttemptsOf({}, k) = {}
  BY DEF AttemptsOf
<1>6. Cardinality({}) = 0
  BY FS_EmptySet
<1>7. grants = {} /\ spent = {} /\ att = {}
  BY DEF Init
<1>a. /\ 0 <= RequestsPerHour /\ 0 <= RequestsPerDay
      /\ 0 <= ModelCallsPerHour /\ 0 <= ModelCallsPerDay /\ 0 <= ModelCallsPerRequest
  BY LedgerAssumption
<1>8. RequestQuota
  BY <1>4, <1>6, <1>7, <1>a, Zenon DEF RequestQuota
<1>9. ModelCallQuota
  BY <1>4, <1>6, <1>7, <1>a, Zenon DEF ModelCallQuota
<1>10. PerRequestQuota
  BY <1>5, <1>6, <1>7, <1>a DEF PerRequestQuota
<1> QED
  BY <1>2, <1>3, <1>8, <1>9, <1>10 DEF LedgerInv, Quotas

\* Every transaction whose reading is not behind any bot keeps the invariant.
LEMMA TransactionKeeps ==
  ASSUME LedgerInv, NEW t \in Tasks, NEW now \in Time,
         \A b \in Bots : now >= clock[b], Transaction(t, now)
  PROVE  LedgerInv'
<1> DEFINE k == arg[t].key
           u == arg[t].user
<1>k. k \in Keys /\ u \in Users
  BY DEF LedgerInv, LedgerTypes, Arg
<1>1. CASE ReserveRequestTxn(t, now)
  <2>1. /\ AdvanceClock(k, now) /\ att' = KeptAttempts(now)
        /\ UNCHANGED <<arg, spent>>
    BY <1>1 DEF ReserveRequestTxn
  <2>2. CASE IsNew(KeptRequests(now), k) /\ ~OverRequestLimit(KeptRequests(now), k, u, now)
    <3>1. /\ req' = [KeptRequests(now) EXCEPT ![k] =
                       [state |-> "RESERVED", user |-> u, at |-> now, by |-> t]]
          /\ grants' = grants \cup {[bot |-> k[1], update |-> k[2], user |-> u, at |-> now]}
      BY <1>1, <2>2 DEF ReserveRequestTxn
    <3> HIDE DEF k, u
    <3> QED
      BY <3>1, <2>1, <2>2, <1>k, GrantKeeps
  <2>3. CASE ~(IsNew(KeptRequests(now), k) /\ ~OverRequestLimit(KeptRequests(now), k, u, now))
    <3>1. req' = KeptRequests(now) /\ grants' = grants
      BY <1>1, <2>3 DEF ReserveRequestTxn
    <3> HIDE DEF k, u
    <3> QED
      BY <3>1, <2>1, <1>k, PruneOnly
  <2> QED
    BY <2>2, <2>3
<1>2. CASE ReserveModelCallTxn(t, now)
  <2> DEFINE row == [bot |-> k[1], update |-> k[2], user |-> u,
                     index |-> NextIndex(KeptAttempts(now), k), at |-> now]
  <2>1. AdvanceClock(k, now) /\ req' = KeptRequests(now) /\ UNCHANGED <<arg, grants>>
    BY <1>2 DEF ReserveModelCallTxn
  <2>2. CASE IsRunning(t, now) /\ ~OverModelLimit(KeptAttempts(now), k, u, now)
    <3>1. att' = KeptAttempts(now) \cup {row} /\ spent' = spent \cup {row}
      BY <1>2, <2>2 DEF ReserveModelCallTxn
    <3> HIDE DEF k, u
    <3> QED
      BY <3>1, <2>1, <2>2, <1>k, AttemptKeeps
  <2>3. CASE ~(IsRunning(t, now) /\ ~OverModelLimit(KeptAttempts(now), k, u, now))
    <3>1. att' = KeptAttempts(now) /\ spent' = spent
      BY <1>2, <2>3 DEF ReserveModelCallTxn
    <3> HIDE DEF k, u
    <3> QED
      BY <3>1, <2>1, <1>k, PruneOnly
  <2> QED
    BY <2>2, <2>3
<1>3. CASE MarkRunningTxn(t, now) \/ \E success \in BOOLEAN : FinishRequestTxn(t, now, success)
  <2>1. /\ AdvanceClock(k, now) /\ req[k].state # "ABSENT"
        /\ UNCHANGED <<att, arg, grants, spent>>
    BY <1>3 DEF MarkRunningTxn, FinishRequestTxn, history
  <2>2. PICK s \in States : req' = [req EXCEPT ![k] = [@ EXCEPT !.state = s]]
    BY <1>3 DEF MarkRunningTxn, FinishRequestTxn, States, Live, Terminal
  <2> HIDE DEF k, u
  <2> QED
    BY <2>1, <2>2, <1>k, StateChangeKeeps
<1> QED
  BY <1>1, <1>2, <1>3 DEF Transaction

\* With readings that are not behind any bot every step keeps the invariant.
LEMMA LedgerStep == LedgerInv /\ [NextOneClock]_vars => LedgerInv'
<1> SUFFICES ASSUME LedgerInv, [NextOneClock]_vars PROVE LedgerInv'
  OBVIOUS
<1>t. arg \in [Tasks -> Arg]
  BY DEF LedgerInv, LedgerTypes
<1>1. ASSUME NEW t \in Tasks, Coroutine(t) PROVE LedgerInv'
  <2>1. UNCHANGED <<durable, history>>
    BY <1>1 DEF Coroutine, ReserveRequest, ReserveRequestReturn, MarkRunning,
       ReserveModelCall, ReserveModelCallReturn, DispatchEnd, FinishRequest,
       FinishRequestReturn, TxnFails, Abandon
  <2>2. arg' \in [Tasks -> Arg]
    BY <1>1, <1>t DEF Coroutine, ReserveRequest, ReserveRequestReturn, MarkRunning,
       ReserveModelCall, ReserveModelCallReturn, DispatchEnd, FinishRequest,
       FinishRequestReturn, TxnFails, Abandon, Arg
  <2> QED
    BY <2>1, <2>2, QuietKeeps
<1>2. ASSUME NEW t \in Tasks, NEW now \in Time,
             \A b \in Bots : now >= clock[b], Transaction(t, now)
      PROVE  LedgerInv'
  BY <1>2, TransactionKeeps
<1>3. ASSUME NEW p \in Procs, Close(p) \/ Restart(p) PROVE LedgerInv'
  BY <1>3, <1>t, QuietKeeps DEF Close, Restart
<1>4. CASE UNCHANGED vars
  BY <1>4, <1>t, QuietKeeps DEF vars, local
<1> QED
  BY <1>1, <1>2, <1>3, <1>4 DEF NextOneClock

\* Tables and history agree on the recent past, for any number of bots whose
\* readings are not behind one another.
THEOREM LedgerInvariant == SpecOneClock => []LedgerInv
<1> QED
  BY LedgerInit, LedgerStep, PTL DEF SpecOneClock

\* No update is granted twice within the retention period when no reading is
\* behind another bot's clock.
THEOREM ReplayRetentionOneClock == SpecOneClock => []ReplayRetention
<1>1. LedgerInv => ReplayRetention
  BY DEF LedgerInv
<1> QED
  BY <1>1, LedgerInvariant, PTL

\* Under the same readings every sliding window, and every request, stays within
\* its limits.
THEOREM QuotasOneClock == SpecOneClock => []Quotas
<1>1. LedgerInv => Quotas
  BY DEF LedgerInv
<1> QED
  BY <1>1, LedgerInvariant, PTL

\* _advance_clock_txn alone gives the readings of a file with a single bot.
THEOREM OneBotOneClock ==
  ASSUME NEW bot, Bots = {bot}
  PROVE  Spec => SpecOneClock
<1>1. RightsInv /\ [Next]_vars => [NextOneClock]_vars
  <2> SUFFICES ASSUME RightsInv, Next PROVE NextOneClock
    OBVIOUS
  <2>1. ASSUME NEW t \in Tasks, NEW now \in Time, Transaction(t, now)
        PROVE  \A b \in Bots : now >= clock[b]
    <3>1. arg[t].key[1] = bot
      BY DEF RightsInv, Arg, Keys
    <3> QED
      BY <2>1, <3>1 DEF Transaction, ReserveRequestTxn, MarkRunningTxn,
         ReserveModelCallTxn, FinishRequestTxn, AdvanceClock
  <2> QED
    BY <2>1 DEF Next, NextOneClock
<1> QED
  BY <1>1, RightsInvariant, PTL DEF Spec, SpecOneClock

\* The ledger of one bot, with any processes, tasks, kills and clock readings,
\* never grants an update twice within the retention period.
THEOREM ReplayRetentionHolds ==
  ASSUME NEW bot, Bots = {bot}
  PROVE  Spec => []ReplayRetention
<1> QED
  BY OneBotOneClock, ReplayRetentionOneClock, PTL

\* The ledger of one bot never exceeds a request, hour or day limit.
THEOREM QuotasHold ==
  ASSUME NEW bot, Bots = {bot}
  PROVE  Spec => []Quotas
<1> QED
  BY OneBotOneClock, QuotasOneClock, PTL
=============================================================================
