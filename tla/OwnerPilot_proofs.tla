------------------------- MODULE OwnerPilot_proofs -------------------------
(***************************************************************************)
(* Proofs about one durable owner turn (OwnerPilot): for every set of       *)
(* requests and every grant, whatever is cancelled, stopped, late, failed   *)
(* or crashed between two awaits.                                           *)
(***************************************************************************)
EXTENDS OwnerPilot, FiniteSetTheorems, TLAPS

(***************************************************************************)
(* The inductive invariant, by what it speaks about.                        *)
(***************************************************************************)

Started(S, r) == {c \in S : c[1] = r}
NumStarted(S, r) == Cardinality(Started(S, r))

\* The three durable stores agree, at every point where a crash may leave them.
DurableInv ==
    /\ CompletedIsClean
    /\ LedgerAgreement
    /\ \A r \in Requests : ledger[r] = "COMPLETED" => row[r].staged
    /\ \A r \in Requests : row[r].state = "ABSENT" => row[r] = NoRow
    /\ \A r \in Requests : /\ NumStarted(calls, r) <= charged[r] + row[r].tools
                           /\ charged[r] <= row[r].models
    /\ outcomes \subseteq calls /\ calls \subseteq intents
    /\ \A c, d \in Pending : c = d

\* The process: without one nothing runs, an execution has a row, and what
\* submit has checked under the gate holds until the admit transaction.
ProcessInv ==
    /\ ~up => gate = "free" /\ Done /\ ~stopping
    /\ ~Done => active \in Requests /\ row[active].state # "ABSENT"
    /\ gate = "submit" =>
           /\ target \in Requests /\ row[target].state = "ABSENT" /\ Done
           /\ Pending = {}
           /\ \A r \in Requests : row[r].state \notin LiveRow \cup {"UNCERTAIN"}
    /\ NoSilentOrphan

\* The stages between the running lease and the finished quota request.
Driving == {"turn", "attempt", "quota", "intent", "dispatch", "outcome", "stage",
            "finish"}

\* The lease: only the execution has one, it runs only over a row that has
\* left ADMITTED, and stop() takes it away from a turn that may make calls.
LeaseInv ==
    /\ \A r \in Requests : owned[r] # "none" => r = active /\ r = lease /\ ~Done
    /\ \A r \in Requests : owned[r] = "RUNNING" =>
           row[r].state \notin {"ABSENT", "ADMITTED", "CANCELLED"}
    /\ stopping /\ pc \in Driving => owned[active] = "none"

\* What the execution has made sure of at each of its awaits: the row and the
\* quota request of its turn ...
TurnInv ==
    /\ pc \in Driving \/ (pc = "running" /\ io = "ok") => row[active].state = "RUNNING"
    /\ (pc = "stage" /\ io = "ok") \/ pc = "finish" => row[active].staged
    /\ \/ pc \in (Driving \ {"finish"}) \cup {"running"}
       \/ pc = "mark" /\ io = "ok"
       => ledger[active] = "RUNNING"
    /\ pc = "finish" /\ io = "ok" => ledger[active] = "COMPLETED"
    /\ pc = "commit" =>
           /\ row[active].state = IF io = "ok" THEN "COMPLETED" ELSE "RUNNING"
           /\ ledger[active] = "COMPLETED" /\ Pending = {}
    /\ pc = "refund" => row[active].state = "RUNNING" /\ ~row[active].staged
    /\ pc = "dispose" => /\ row[active].staged => exc
                         /\ io = "ok" => row[active].state \notin LiveRow

\* ... and the call in progress, paid for, intended and then started.
CallInv ==
    /\ \/ pc = "attempt" /\ io = "ok" /\ kind = "model"
       \/ pc = "quota" /\ io # "ok"
       => charged[active] < row[active].models
    /\ \/ pc = "attempt" /\ io = "ok" /\ kind = "tool"
       \/ pc = "quota" /\ io = "ok"
       \/ pc = "intent"
       => NumStarted(calls, active) < charged[active] + row[active].tools
    /\ pc = "intent" /\ io = "ok" => ThisCall \in intents
    /\ pc \in {"dispatch", "outcome"} => ThisCall \in calls

PilotInv ==
    /\ TypeOK /\ DurableInv /\ ProcessInv /\ LeaseInv /\ TurnInv /\ CallInv

USE PilotAssumption DEF Done, Pending, LiveRow, Driving, Performing, Handling

(***************************************************************************)
(* Counting the calls of a turn.                                            *)
(***************************************************************************)

\* The calls of one turn are finitely many, however many turns there are.
LEMMA StartedFinite ==
    ASSUME NEW S \in SUBSET Calls, NEW r \in Requests
    PROVE  IsFiniteSet(Started(S, r)) /\ NumStarted(S, r) \in Nat
<1> DEFINE N == MaxModelCalls + MaxToolCalls
<1>1. IsFiniteSet({r} \X (1 .. N))
  <2>1. IsFiniteSet({r})
    BY FS_Singleton
  <2>2. IsFiniteSet(1 .. N)
    <3>1. 1 \in Int /\ N \in Int
      OBVIOUS
    <3> QED
      BY <3>1, FS_Interval
  <2> QED
    BY <2>1, <2>2, FS_Product
<1>2. Started(S, r) \subseteq {r} \X (1 .. N)
  BY DEF Started, Calls
<1>3. IsFiniteSet(Started(S, r))
  BY <1>1, <1>2, FS_Subset
<1> QED
  BY <1>3, FS_CardinalityType DEF NumStarted

\* Starting a call adds at most one to its turn and nothing to the others.
LEMMA StartedAdd ==
    ASSUME NEW S \in SUBSET Calls, NEW r \in Requests, NEW c \in Calls
    PROVE  /\ NumStarted(S \cup {c}, r) <= NumStarted(S, r) + 1
           /\ c[1] # r => NumStarted(S \cup {c}, r) = NumStarted(S, r)
<1>1. IsFiniteSet(Started(S, r)) /\ NumStarted(S, r) \in Nat
  BY StartedFinite
<1>2. CASE c[1] # r
  <2>1. Started(S \cup {c}, r) = Started(S, r)
    BY <1>2 DEF Started
  <2> QED
    BY <2>1, <1>1, <1>2 DEF NumStarted
<1>3. CASE c[1] = r
  <2>1. Started(S \cup {c}, r) = Started(S, r) \cup {c}
    BY <1>3 DEF Started
  <2>2. \/ NumStarted(S \cup {c}, r) = NumStarted(S, r)
        \/ NumStarted(S \cup {c}, r) = NumStarted(S, r) + 1
    BY <2>1, <1>1, FS_AddElement DEF NumStarted
  <2> QED
    BY <2>2, <1>1, <1>3
<1> QED
  BY <1>2, <1>3

(***************************************************************************)
(* Steps of the coroutine.  It writes no store and leaves the gate alone.   *)
(***************************************************************************)

\* What every step of the coroutine keeps.
Still == UNCHANGED <<durable, up, stopping, gate, target, active>>

\* A step that leaves the frame of the loop alone is one of them.
LEMMA LoopIsStill ==
    ASSUME LoopFrame PROVE Still
  BY DEF LoopFrame, Still, durable

\* A step that goes on to another await keeps the stores and the process.
LEMMA GoesOn ==
    ASSUME PilotInv, Still, UNCHANGED <<calls, blocked>>, ~Done, ~Done'
    PROVE  DurableInv' /\ ProcessInv'
<1>1. DurableInv'
  BY DEF PilotInv, Still, durable, DurableInv, CompletedIsClean, LedgerAgreement
<1>2. ProcessInv'
  BY DEF PilotInv, Still, durable, ProcessInv, NoSilentOrphan
<1> QED
  BY <1>1, <1>2

\* On the way out the lease stays, is revoked, or has just begun to run.
LeaseOnRaise ==
    \/ owned' = owned
    \/ owned' = Revoked(active)
    \/ /\ owned[active] # "none" /\ row[active].state = "RUNNING"
       /\ owned' = [owned EXCEPT ![active] = "RUNNING"]

\* An exception enters the except clause.
LEMMA RaiseKeeps ==
    ASSUME PilotInv, Still, UNCHANGED <<calls, blocked, lease>>, ~Done,
           NEW u, Raise(u), LeaseOnRaise
    PROVE  DurableInv' /\ ProcessInv' /\ LeaseInv' /\ TurnInv' /\ CallInv'
<1>0. pc' = "inspect"
  BY DEF Raise
<1>1. DurableInv' /\ ProcessInv'
  BY <1>0, GoesOn
<1>2. LeaseInv'
  BY <1>0 DEF PilotInv, TypeOK, ProcessInv, LeaseInv, Still, durable, LeaseOnRaise, Revoked
<1>3. TurnInv' /\ CallInv'
  BY <1>0 DEF TurnInv, CallInv
<1> QED
  BY <1>1, <1>2, <1>3

\* The task ends: its row has ended too, or the service is blocked.
LEMMA FinishKeeps ==
    ASSUME PilotInv, Still, UNCHANGED <<calls, lease>>, ~Done, Finish,
           blocked => blocked', blocked' \/ row[active].state \notin LiveRow
    PROVE  DurableInv' /\ ProcessInv' /\ LeaseInv' /\ TurnInv' /\ CallInv'
<1>0. pc' = "none" /\ owned' = Revoked(lease)
  BY DEF Finish
<1>1. DurableInv'
  BY DEF PilotInv, Still, durable, DurableInv, CompletedIsClean, LedgerAgreement
<1>2. ProcessInv'
  BY <1>0 DEF PilotInv, Still, durable, ProcessInv, NoSilentOrphan
<1>3. LeaseInv'
  BY <1>0 DEF PilotInv, TypeOK, ProcessInv, LeaseInv, Still, durable, Revoked
<1>4. TurnInv' /\ CallInv'
  BY <1>0 DEF TurnInv, CallInv
<1> QED
  BY <1>1, <1>2, <1>3, <1>4

\* A revoked lease is a lease state.
LEMMA RevokedType ==
    ASSUME TypeOK, NEW r \in Requests \cup {NoRequest}
    PROVE  Revoked(r) \in [Requests -> LeaseStates]
  BY DEF TypeOK, Revoked, LeaseStates
\* A step that leaves _perform by an exception.
LEMMA LoopRaises ==
    ASSUME PilotInv, LoopFrame, UNCHANGED <<calls, blocked, lease, seen>>, ~Done,
           \E u \in BOOLEAN : Raise(u),
           kind' \in {"model", "tool"}, LeaseOnRaise
    PROVE  PilotInv'
<1>1. PICK u \in BOOLEAN : Raise(u)
  OBVIOUS
<1>2. Still
  BY LoopIsStill
<1>3. DurableInv' /\ ProcessInv' /\ LeaseInv' /\ TurnInv' /\ CallInv'
  BY <1>1, <1>2, RaiseKeeps
<1>4. TypeOK'
  <2>1. TypeOK
    BY DEF PilotInv
  <2>2. owned' \in [Requests -> LeaseStates]
    BY <2>1, RevokedType DEF TypeOK, LeaseOnRaise, LeaseStates
  <2>3. exc' \in BOOLEAN /\ pc' = "inspect" /\ io' = "ok"
    BY <1>1 DEF Raise
  <2> QED
    BY <2>1, <2>2, <2>3 DEF TypeOK, LoopFrame, durable
<1> QED
  BY <1>3, <1>4 DEF PilotInv

\* A step of _perform that goes on to its next await.
LEMMA LoopGoesOn ==
    ASSUME PilotInv, LoopFrame, UNCHANGED <<calls, blocked, seen, exc>>, ~Done,
           NEW stage \in Performing, Await(stage), kind' \in {"model", "tool"},
           owned' \in [Requests -> LeaseStates], lease' \in Requests \cup {NoRequest},
           LeaseInv', TurnInv', CallInv'
    PROVE  PilotInv'
<1>1. pc' = stage /\ io' \in {"ok", "busy"}
  BY DEF Await
<1>2. DurableInv' /\ ProcessInv'
  BY <1>1, GoesOn, LoopIsStill
<1>3. TypeOK'
  BY <1>1 DEF PilotInv, TypeOK, LoopFrame, durable
<1> QED
  BY <1>2, <1>3 DEF PilotInv

\* The first uncertainty check.
LEMMA PerformStartStep ==
    ASSUME PilotInv, PerformStart PROVE PilotInv'
<1>1. ~Done /\ LoopFrame /\ UNCHANGED <<calls, blocked, seen>> /\ kind' \in {"model", "tool"}
  BY DEF PilotInv, TypeOK, PerformStart, Resumes
<1>2. CASE ~Uncertainty
  <2>1. Await("claim") /\ UNCHANGED exc /\ lease' \in Requests \cup {NoRequest}
    BY <1>2 DEF PilotInv, TypeOK, ProcessInv, PerformStart, KeepLease, Resumes
  <2>2. owned' \in [Requests -> LeaseStates]
    BY <1>2 DEF PilotInv, TypeOK, PerformStart, KeepLease
  <2>3. LeaseInv'
    BY <1>2, <1>1, <2>1 DEF PilotInv, TypeOK, ProcessInv, LeaseInv, TurnInv,
       PerformStart, KeepLease, Resumes, Await, LoopFrame, durable
  <2>4. TurnInv'
    BY <1>2, <1>1, <2>1 DEF PilotInv, TypeOK, TurnInv, PerformStart, Resumes, Await,
       LoopFrame, durable
  <2>5. CallInv'
    BY <1>2, <1>1, <2>1 DEF PilotInv, TypeOK, CallInv, PerformStart, Resumes, Await,
       LoopFrame, durable
  <2> QED
    BY <1>1, <2>1, <2>2, <2>3, <2>4, <2>5, LoopGoesOn
<1>3. CASE Uncertainty
  <2>1. (\E u \in BOOLEAN : Raise(u)) /\ LeaseOnRaise /\ UNCHANGED lease
    BY <1>3 DEF PerformStart, KeepLease, LeaseOnRaise
  <2> QED
    BY <1>1, <2>1, LoopRaises
<1> QED
  BY <1>2, <1>3

\* The turn is claimed.
LEMMA ClaimResumeStep ==
    ASSUME PilotInv, ClaimResume PROVE PilotInv'
<1>1. ~Done /\ LoopFrame /\ UNCHANGED <<calls, blocked, seen>> /\ kind' \in {"model", "tool"}
  BY DEF PilotInv, TypeOK, ClaimResume, Resumes
<1>2. Await("reserve") /\ UNCHANGED exc /\ lease' \in Requests \cup {NoRequest}
  BY DEF PilotInv, TypeOK, ClaimResume, KeepLease
<1>3. owned' \in [Requests -> LeaseStates]
  BY DEF PilotInv, TypeOK, ClaimResume, KeepLease
<1>4. LeaseInv'
  BY <1>1, <1>2 DEF PilotInv, TypeOK, ProcessInv, LeaseInv, TurnInv, ClaimResume,
     KeepLease, Resumes, Await, LoopFrame, durable
<1>5. TurnInv'
  BY <1>1, <1>2 DEF PilotInv, TypeOK, TurnInv, ClaimResume, Resumes, Await, LoopFrame,
     durable
<1>6. CallInv'
  BY <1>1, <1>2 DEF PilotInv, TypeOK, CallInv, ClaimResume, Resumes, Await, LoopFrame,
     durable
<1> QED
  BY <1>1, <1>2, <1>3, <1>4, <1>5, <1>6, LoopGoesOn

\* The quota request is reserved: the lease is issued.
LEMMA ReserveResumeStep ==
    ASSUME PilotInv, ReserveResume PROVE PilotInv'
<1>1. ~Done /\ LoopFrame /\ UNCHANGED <<calls, blocked, seen>> /\ kind' \in {"model", "tool"}
  BY DEF PilotInv, TypeOK, ReserveResume, Resumes
<1>2. CASE active \notin dead /\ active \notin late /\ row[active].state = "ADMITTED"
  <2>1. Await("mark") /\ UNCHANGED exc /\ lease' \in Requests \cup {NoRequest}
    BY <1>2 DEF PilotInv, TypeOK, ProcessInv, ReserveResume, Resumes
  <2>2. owned' \in [Requests -> LeaseStates]
    BY <1>2 DEF PilotInv, TypeOK, ReserveResume, LeaseStates
  <2>3. LeaseInv'
    BY ZenonT(60), <1>2, <1>1, <2>1 DEF PilotInv, TypeOK, ProcessInv, LeaseInv, TurnInv,
       ReserveResume, Resumes, Await, LoopFrame, durable
  <2>4. TurnInv'
    BY <1>2, <1>1, <2>1 DEF PilotInv, TypeOK, TurnInv, ReserveResume, Resumes, Await,
       LoopFrame, durable
  <2>5. CallInv'
    BY <1>2, <1>1, <2>1 DEF PilotInv, TypeOK, CallInv, ReserveResume, Resumes, Await,
       LoopFrame, durable
  <2> QED
    BY <1>1, <2>1, <2>2, <2>3, <2>4, <2>5, LoopGoesOn
<1>3. CASE ~(active \notin dead /\ active \notin late /\ row[active].state = "ADMITTED")
  <2>1. (\E u \in BOOLEAN : Raise(u)) /\ LeaseOnRaise /\ UNCHANGED lease
    BY <1>3 DEF ReserveResume, LeaseOnRaise
  <2> QED
    BY <1>1, <2>1, LoopRaises
<1> QED
  BY <1>2, <1>3

\* The quota request is running.
LEMMA MarkResumeStep ==
    ASSUME PilotInv, MarkResume PROVE PilotInv'
<1>1. ~Done /\ LoopFrame /\ UNCHANGED <<calls, blocked, seen>> /\ kind' \in {"model", "tool"}
  BY DEF PilotInv, TypeOK, MarkResume, Resumes
<1>2. CASE Owns(active)
  <2>1. Await("running") /\ UNCHANGED exc /\ lease' \in Requests \cup {NoRequest}
    BY <1>2 DEF PilotInv, TypeOK, ProcessInv, MarkResume, Resumes
  <2>2. owned' \in [Requests -> LeaseStates]
    BY <1>2 DEF PilotInv, TypeOK, MarkResume, LeaseStates
  <2>3. LeaseInv'
    BY <1>2, <1>1, <2>1 DEF PilotInv, TypeOK, ProcessInv, LeaseInv, TurnInv,
       MarkResume, Resumes, Await, LoopFrame, durable
  <2>4. TurnInv'
    BY <1>2, <1>1, <2>1 DEF PilotInv, TypeOK, TurnInv, MarkResume, Resumes, Await,
       LoopFrame, durable
  <2>5. CallInv'
    BY <1>2, <1>1, <2>1 DEF PilotInv, TypeOK, CallInv, MarkResume, Resumes, Await,
       LoopFrame, durable
  <2> QED
    BY <1>1, <2>1, <2>2, <2>3, <2>4, <2>5, LoopGoesOn
<1>3. CASE ~Owns(active)
  <2>1. (\E u \in BOOLEAN : Raise(u)) /\ LeaseOnRaise /\ UNCHANGED lease
    BY <1>3 DEF MarkResume, LeaseOnRaise
  <2> QED
    BY <1>1, <2>1, LoopRaises
<1> QED
  BY <1>2, <1>3

\* The row is running: the lease runs, unless something is uncertain.
LEMMA RunningResumeStep ==
    ASSUME PilotInv, RunningResume PROVE PilotInv'
<1>1. ~Done /\ LoopFrame /\ UNCHANGED <<calls, blocked, seen>> /\ kind' \in {"model", "tool"}
  BY DEF PilotInv, TypeOK, RunningResume, Resumes
<1>2. CASE Owns(active) /\ ~Uncertainty
  <2>1. Await("turn") /\ UNCHANGED exc /\ lease' \in Requests \cup {NoRequest}
    BY <1>2 DEF PilotInv, TypeOK, ProcessInv, RunningResume, Resumes
  <2>2. owned' \in [Requests -> LeaseStates]
    BY <1>2 DEF PilotInv, TypeOK, RunningResume, LeaseStates
  <2>3. LeaseInv'
    <3>1. owned[active] # "none" /\ ~stopping
      BY <1>2 DEF Owns, Uncertainty
    <3>2. row[active].state = "RUNNING" /\ owned' = [owned EXCEPT ![active] = "RUNNING"]
      BY <1>2 DEF PilotInv, TurnInv, RunningResume, Resumes
    <3> QED
      BY <1>1, <2>1, <3>1, <3>2 DEF PilotInv, TypeOK, ProcessInv, LeaseInv,
         RunningResume, Await, LoopFrame, durable
  <2>4. TurnInv'
    BY <1>2, <1>1, <2>1 DEF PilotInv, TypeOK, TurnInv, RunningResume, Resumes, Await,
       LoopFrame, durable
  <2>5. CallInv'
    BY <1>2, <1>1, <2>1 DEF PilotInv, TypeOK, CallInv, RunningResume, Resumes, Await,
       LoopFrame, durable
  <2> QED
    BY <1>1, <2>1, <2>2, <2>3, <2>4, <2>5, LoopGoesOn
<1>3. CASE ~(Owns(active) /\ ~Uncertainty)
  <2>1. (\E u \in BOOLEAN : Raise(u)) /\ LeaseOnRaise /\ UNCHANGED lease
    BY <1>3 DEF RunningResume, LeaseOnRaise, Owns, PilotInv, TurnInv, Resumes
  <2> QED
    BY <1>1, <2>1, LoopRaises
<1> QED
  BY <1>2, <1>3

\* The driver begins a call.
LEMMA BeginCallStep ==
    ASSUME PilotInv, NEW k \in {"model", "tool"}, BeginCall(k) PROVE PilotInv'
<1>1. ~Done /\ LoopFrame /\ UNCHANGED <<calls, blocked, seen>> /\ kind' \in {"model", "tool"}
  BY DEF PilotInv, TypeOK, BeginCall, Resumes
<1>2. CASE Active(active)
  <2>1. Await("attempt") /\ UNCHANGED exc /\ lease' \in Requests \cup {NoRequest}
    BY <1>2 DEF PilotInv, TypeOK, ProcessInv, BeginCall, KeepLease, Resumes
  <2>2. owned' \in [Requests -> LeaseStates]
    BY <1>2 DEF PilotInv, TypeOK, BeginCall, KeepLease
  <2>3. LeaseInv'
    BY <1>2, <1>1, <2>1 DEF PilotInv, TypeOK, ProcessInv, LeaseInv, TurnInv,
       BeginCall, KeepLease, Resumes, Await, LoopFrame, durable
  <2>4. TurnInv'
    BY <1>2, <1>1, <2>1 DEF PilotInv, TypeOK, TurnInv, BeginCall, Resumes, Await,
       LoopFrame, durable
  <2>5. CallInv'
    BY <1>2, <1>1, <2>1 DEF PilotInv, TypeOK, CallInv, BeginCall, Resumes, Await,
       LoopFrame, durable
  <2> QED
    BY <1>1, <2>1, <2>2, <2>3, <2>4, <2>5, LoopGoesOn
<1>3. CASE ~Active(active)
  <2>1. (\E u \in BOOLEAN : Raise(u)) /\ LeaseOnRaise /\ UNCHANGED lease
    BY <1>3 DEF BeginCall, KeepLease, LeaseOnRaise
  <2> QED
    BY <1>1, <2>1, LoopRaises
<1> QED
  BY <1>2, <1>3

\* The attempt is counted.
LEMMA AttemptResumeStep ==
    ASSUME PilotInv, AttemptResume PROVE PilotInv'
<1>1. ~Done /\ LoopFrame /\ UNCHANGED <<calls, blocked, seen>> /\ kind' \in {"model", "tool"}
  BY DEF PilotInv, TypeOK, AttemptResume, Resumes
<1>2. CASE Active(active)
  <2>1. Await(AfterAttempt(kind)) /\ UNCHANGED exc /\ lease' \in Requests \cup {NoRequest}
    BY <1>2 DEF PilotInv, TypeOK, ProcessInv, AttemptResume, KeepLease, Resumes
  <2>2. owned' \in [Requests -> LeaseStates]
    BY <1>2 DEF PilotInv, TypeOK, AttemptResume, KeepLease
  <2>3. LeaseInv'
    BY <1>2, <1>1, <2>1 DEF PilotInv, TypeOK, ProcessInv, LeaseInv, TurnInv,
       AttemptResume, KeepLease, Resumes, Await, LoopFrame, durable, AfterAttempt
  <2>4. TurnInv'
    BY <1>2, <1>1, <2>1 DEF PilotInv, TypeOK, TurnInv, AttemptResume, Resumes, Await,
       LoopFrame, durable, AfterAttempt
  <2>5. CallInv'
    BY <1>2, <1>1, <2>1 DEF PilotInv, TypeOK, CallInv, AttemptResume, Resumes, Await,
       LoopFrame, durable, AfterAttempt
  <2>6. AfterAttempt(kind) \in Performing
    BY DEF PilotInv, TypeOK, AfterAttempt
  <2> QED
    BY <1>1, <2>1, <2>2, <2>3, <2>4, <2>5, <2>6, LoopGoesOn
<1>3. CASE ~Active(active)
  <2>1. (\E u \in BOOLEAN : Raise(u)) /\ LeaseOnRaise /\ UNCHANGED lease
    BY <1>3 DEF AttemptResume, KeepLease, LeaseOnRaise
  <2> QED
    BY <1>1, <2>1, LoopRaises
<1> QED
  BY <1>2, <1>3

\* The quota ledger has counted the attempt.
LEMMA QuotaResumeStep ==
    ASSUME PilotInv, QuotaResume PROVE PilotInv'
<1>1. ~Done /\ LoopFrame /\ UNCHANGED <<calls, blocked, seen>> /\ kind' \in {"model", "tool"}
  BY DEF PilotInv, TypeOK, QuotaResume, Resumes
<1>2. CASE Active(active)
  <2>1. Await("intent") /\ UNCHANGED exc /\ lease' \in Requests \cup {NoRequest}
    BY <1>2 DEF PilotInv, TypeOK, ProcessInv, QuotaResume, KeepLease, Resumes
  <2>2. owned' \in [Requests -> LeaseStates]
    BY <1>2 DEF PilotInv, TypeOK, QuotaResume, KeepLease
  <2>3. LeaseInv'
    BY <1>2, <1>1, <2>1 DEF PilotInv, TypeOK, ProcessInv, LeaseInv, TurnInv,
       QuotaResume, KeepLease, Resumes, Await, LoopFrame, durable
  <2>4. TurnInv'
    BY <1>2, <1>1, <2>1 DEF PilotInv, TypeOK, TurnInv, QuotaResume, Resumes, Await,
       LoopFrame, durable
  <2>5. CallInv'
    BY <1>2, <1>1, <2>1 DEF PilotInv, TypeOK, CallInv, QuotaResume, Resumes, Await,
       LoopFrame, durable, ThisCall
  <2> QED
    BY <1>1, <2>1, <2>2, <2>3, <2>4, <2>5, LoopGoesOn
<1>3. CASE ~Active(active)
  <2>1. (\E u \in BOOLEAN : Raise(u)) /\ LeaseOnRaise /\ UNCHANGED lease
    BY <1>3 DEF QuotaResume, KeepLease, LeaseOnRaise
  <2> QED
    BY <1>1, <2>1, LoopRaises
<1> QED
  BY <1>2, <1>3

\* The reply is complete.
LEMMA TurnCompletesStep ==
    ASSUME PilotInv, TurnCompletes PROVE PilotInv'
<1>1. ~Done /\ LoopFrame /\ UNCHANGED <<calls, blocked, seen>> /\ kind' \in {"model", "tool"}
  BY DEF PilotInv, TypeOK, TurnCompletes, Resumes
<1>2. Await("stage") /\ UNCHANGED exc /\ lease' \in Requests \cup {NoRequest}
  BY DEF PilotInv, TypeOK, TurnCompletes, KeepLease
<1>3. owned' \in [Requests -> LeaseStates]
  BY DEF PilotInv, TypeOK, TurnCompletes, KeepLease
<1>4. LeaseInv'
  BY <1>1, <1>2 DEF PilotInv, TypeOK, ProcessInv, LeaseInv, TurnInv, TurnCompletes,
     KeepLease, Resumes, Await, LoopFrame, durable
<1>5. TurnInv'
  BY <1>1, <1>2 DEF PilotInv, TypeOK, TurnInv, TurnCompletes, Resumes, Await,
     LoopFrame, durable
<1>6. CallInv'
  BY <1>1, <1>2 DEF PilotInv, TypeOK, CallInv, TurnCompletes, Resumes, Await,
     LoopFrame, durable
<1> QED
  BY <1>1, <1>2, <1>3, <1>4, <1>5, <1>6, LoopGoesOn

\* The reply is staged.
LEMMA StageResumeStep ==
    ASSUME PilotInv, StageResume PROVE PilotInv'
<1>1. ~Done /\ LoopFrame /\ UNCHANGED <<calls, blocked, seen>> /\ kind' \in {"model", "tool"}
  BY DEF PilotInv, TypeOK, StageResume, Resumes
<1>2. CASE ~Uncertainty /\ Active(active)
  <2>1. Await("finish") /\ UNCHANGED exc /\ lease' \in Requests \cup {NoRequest}
    BY <1>2 DEF PilotInv, TypeOK, ProcessInv, StageResume, KeepLease, Resumes
  <2>2. owned' \in [Requests -> LeaseStates]
    BY <1>2 DEF PilotInv, TypeOK, StageResume, KeepLease
  <2>3. LeaseInv'
    BY <1>2, <1>1, <2>1 DEF PilotInv, TypeOK, ProcessInv, LeaseInv, TurnInv,
       StageResume, KeepLease, Resumes, Await, LoopFrame, durable
  <2>4. TurnInv'
    BY <1>2, <1>1, <2>1 DEF PilotInv, TypeOK, TurnInv, StageResume, Resumes, Await,
       LoopFrame, durable
  <2>5. CallInv'
    BY <1>2, <1>1, <2>1 DEF PilotInv, TypeOK, CallInv, StageResume, Resumes, Await,
       LoopFrame, durable
  <2> QED
    BY <1>1, <2>1, <2>2, <2>3, <2>4, <2>5, LoopGoesOn
<1>3. CASE ~(~Uncertainty /\ Active(active))
  <2>1. (\E u \in BOOLEAN : Raise(u)) /\ LeaseOnRaise /\ UNCHANGED lease
    BY <1>3 DEF StageResume, KeepLease, LeaseOnRaise
  <2> QED
    BY <1>1, <2>1, LoopRaises
<1> QED
  BY <1>2, <1>3

\* The quota request is completed; the last uncertainty check.
LEMMA FinishResumeStep ==
    ASSUME PilotInv, FinishResume PROVE PilotInv'
<1>1. ~Done /\ LoopFrame /\ UNCHANGED <<calls, blocked, seen>> /\ kind' \in {"model", "tool"}
  BY DEF PilotInv, TypeOK, FinishResume, Resumes
<1>2. CASE ~Uncertainty
  <2>1. Await("commit") /\ UNCHANGED exc /\ lease' \in Requests \cup {NoRequest}
    BY <1>2 DEF PilotInv, TypeOK, ProcessInv, FinishResume, Resumes
  <2>2. owned' \in [Requests -> LeaseStates]
    BY <1>2, RevokedType DEF PilotInv, TypeOK, FinishResume, LeaseStates
  <2>3. LeaseInv'
    BY <1>2, <1>1, <2>1 DEF PilotInv, TypeOK, ProcessInv, LeaseInv, TurnInv,
       FinishResume, Resumes, Await, LoopFrame, durable, Revoked
  <2>4. TurnInv'
    BY <1>2, <1>1, <2>1 DEF PilotInv, TypeOK, TurnInv, FinishResume, Resumes, Await,
       LoopFrame, durable, Uncertainty
  <2>5. CallInv'
    BY <1>2, <1>1, <2>1 DEF PilotInv, TypeOK, CallInv, FinishResume, Resumes, Await,
       LoopFrame, durable
  <2> QED
    BY <1>1, <2>1, <2>2, <2>3, <2>4, <2>5, LoopGoesOn
<1>3. CASE Uncertainty
  <2>1. (\E u \in BOOLEAN : Raise(u)) /\ LeaseOnRaise /\ UNCHANGED lease
    BY <1>3 DEF FinishResume, LeaseOnRaise
  <2> QED
    BY <1>1, <2>1, LoopRaises
<1> QED
  BY <1>2, <1>3

\* The provider or the tool has answered.
LEMMA AnsweredStep ==
    ASSUME PilotInv, Answered PROVE PilotInv'
<1>1. ~Done /\ LoopFrame /\ UNCHANGED <<calls, blocked, seen>> /\ kind' \in {"model", "tool"}
  BY DEF PilotInv, TypeOK, Answered, Resumes
<1>2. CASE Active(active)
  <2>1. Await("outcome") /\ UNCHANGED exc /\ lease' \in Requests \cup {NoRequest}
    BY <1>2 DEF PilotInv, TypeOK, ProcessInv, Answered, KeepLease, Resumes
  <2>2. owned' \in [Requests -> LeaseStates]
    BY <1>2 DEF PilotInv, TypeOK, Answered, KeepLease
  <2>3. LeaseInv'
    BY <1>2, <1>1, <2>1 DEF PilotInv, TypeOK, ProcessInv, LeaseInv, TurnInv, Answered,
       KeepLease, Resumes, Await, LoopFrame, durable
  <2>4. TurnInv'
    BY <1>2, <1>1, <2>1 DEF PilotInv, TypeOK, TurnInv, Answered, Resumes, Await,
       LoopFrame, durable
  <2>5. CallInv'
    BY <1>2, <1>1, <2>1 DEF PilotInv, TypeOK, CallInv, Answered, Resumes, Await,
       LoopFrame, durable, ThisCall
  <2> QED
    BY <1>1, <2>1, <2>2, <2>3, <2>4, <2>5, LoopGoesOn
<1>3. CASE ~Active(active)
  <2>1. (\E u \in BOOLEAN : Raise(u)) /\ LeaseOnRaise /\ UNCHANGED lease
    BY <1>3 DEF Answered, KeepLease, LeaseOnRaise
  <2> QED
    BY <1>1, <2>1, LoopRaises
<1> QED
  BY <1>2, <1>3
\* The last ownership check holds and the call is started.
LEMMA IntentResumeStep ==
    ASSUME PilotInv, IntentResume PROVE PilotInv'
<1>1. ~Done /\ LoopFrame /\ UNCHANGED <<blocked, seen, kind, owned, lease>>
  BY DEF IntentResume, Resumes, KeepLease
<1>2. CASE Active(active)
  <2>1. /\ pc' = "dispatch" /\ io' = "ok" /\ UNCHANGED exc
        /\ calls' = calls \cup {ThisCall}
        /\ pc = "intent" /\ io = "ok" /\ active \in Requests
    BY <1>2 DEF PilotInv, ProcessInv, IntentResume, Resumes, Await
  <2>2. /\ ThisCall \in intents /\ ThisCall \in Calls /\ ThisCall[1] = active
        /\ NumStarted(calls, active) < charged[active] + row[active].tools
    BY <2>1 DEF PilotInv, TypeOK, CallInv, ThisCall
  <2>3. TypeOK'
    BY <1>1, <2>1, <2>2 DEF PilotInv, TypeOK, LoopFrame, durable
  <2>4. DurableInv'
    <3>1. ASSUME NEW r \in Requests
          PROVE  NumStarted(calls', r) <= charged[r] + row[r].tools
      <4>1. /\ NumStarted(calls', r) <= NumStarted(calls, r) + 1
            /\ r # active => NumStarted(calls', r) = NumStarted(calls, r)
        BY <2>1, <2>2, StartedAdd DEF PilotInv, TypeOK
      <4>2. NumStarted(calls, r) \in Nat /\ NumStarted(calls', r) \in Nat
        BY <2>3, StartedFinite DEF PilotInv, TypeOK
      <4>3. charged[r] + row[r].tools \in Nat
        BY DEF PilotInv, TypeOK, Row
      <4>4. NumStarted(calls, r) <= charged[r] + row[r].tools
        BY DEF PilotInv, DurableInv
      <4> QED
        BY <2>2, <4>1, <4>2, <4>3, <4>4
    <3>2. UNCHANGED <<row, transcript, ledger, charged, intents, outcomes>>
      BY <1>1 DEF LoopFrame, durable
    <3> QED
      BY <2>1, <2>2, <3>1, <3>2 DEF PilotInv, DurableInv, CompletedIsClean,
         LedgerAgreement
  <2>5. ProcessInv'
    BY <1>1, <2>1 DEF PilotInv, ProcessInv, NoSilentOrphan, LoopFrame, durable
  <2>6. LeaseInv' /\ TurnInv'
    BY <1>1, <2>1 DEF PilotInv, TypeOK, LeaseInv, TurnInv, LoopFrame, durable
  <2>7. CallInv'
    BY <1>1, <2>1 DEF CallInv, ThisCall, LoopFrame, durable
  <2> QED
    BY <2>3, <2>4, <2>5, <2>6, <2>7 DEF PilotInv
<1>3. CASE ~Active(active)
  <2>1. (\E u \in BOOLEAN : Raise(u)) /\ LeaseOnRaise /\ UNCHANGED calls
    BY <1>1, <1>3 DEF IntentResume, LeaseOnRaise
  <2>2. kind' \in {"model", "tool"}
    BY <1>1 DEF PilotInv, TypeOK
  <2> QED
    BY <1>1, <2>1, <2>2, LoopRaises
<1> QED
  BY <1>2, <1>3

\* The outcome is written: back to the driver, or out of it.
LEMMA OutcomeResumeStep ==
    ASSUME PilotInv, OutcomeResume PROVE PilotInv'
<1>1. /\ ~Done /\ LoopFrame /\ UNCHANGED <<calls, blocked, seen, owned, lease>>
      /\ kind' \in {"model", "tool"}
  BY DEF PilotInv, TypeOK, OutcomeResume, Resumes, KeepLease
<1>2. CASE \E u \in BOOLEAN : Raise(u)
  BY <1>1, <1>2, LoopRaises DEF LeaseOnRaise
<1>3. CASE Await("turn") /\ UNCHANGED exc
  <2>1. pc = "outcome" /\ pc' = "turn"
    BY <1>3 DEF OutcomeResume, Resumes, Await
  <2>2. LeaseInv' /\ TurnInv' /\ CallInv'
    BY <1>1, <2>1 DEF PilotInv, TypeOK, LeaseInv, TurnInv, CallInv, LoopFrame, durable
  <2>3. owned' \in [Requests -> LeaseStates] /\ lease' \in Requests \cup {NoRequest}
    BY <1>1 DEF PilotInv, TypeOK
  <2> QED
    BY <1>1, <1>3, <2>2, <2>3, LoopGoesOn
<1>4. (\E u \in BOOLEAN : Raise(u)) \/ (Await("turn") /\ UNCHANGED exc)
  BY DEF OutcomeResume
<1> QED
  BY <1>2, <1>3, <1>4

\* The ways out of _perform that only raise.
LEMMA RaisingSteps ==
    ASSUME PilotInv, CallFails \/ TurnFails \/ WorkerRaises \/ CheckFails
    PROVE  PilotInv'
<1>1. /\ ~Done /\ LoopFrame /\ UNCHANGED <<calls, blocked, seen, lease, kind>>
      /\ \E u \in BOOLEAN : Raise(u)
  BY DEF CallFails, TurnFails, WorkerRaises, CheckFails, Resumes, KeepLease,
     FailureUncertain
<1>2. LeaseOnRaise
  <2>1. CASE CallFails \/ TurnFails
    BY <2>1 DEF CallFails, TurnFails, KeepLease, LeaseOnRaise
  <2>2. CASE WorkerRaises
    BY <2>2 DEF WorkerRaises, LeaseOnRaise
  <2>3. CASE CheckFails
    BY <2>3 DEF PilotInv, TurnInv, CheckFails, Resumes, Owns, LeaseOnRaise
  <2> QED
    BY <2>1, <2>2, <2>3
<1> QED
  BY <1>1, <1>2, LoopRaises DEF PilotInv, TypeOK

\* A delivered cancellation or timeout leaves _perform.
LEMMA InterruptStep ==
    ASSUME PilotInv, Interrupt PROVE PilotInv'
<1>1. PICK u \in InterruptUncertain : Raise(u)
  BY DEF Interrupt
<1>2. u \in BOOLEAN
  BY <1>1 DEF InterruptUncertain
<1>3. ~Done /\ Still /\ LeaseOnRaise /\ UNCHANGED <<calls, blocked, lease>>
  BY DEF Interrupt, Still, service, durable, LeaseOnRaise
<1>4. DurableInv' /\ ProcessInv' /\ LeaseInv' /\ TurnInv' /\ CallInv'
  BY <1>1, <1>3, RaiseKeeps
<1>5. TypeOK'
  <2>1. TypeOK
    BY DEF PilotInv
  <2>2. owned' \in [Requests -> LeaseStates]
    BY <2>1, RevokedType DEF TypeOK, Interrupt
  <2>3. exc' \in BOOLEAN /\ pc' = "inspect" /\ io' = "ok"
    BY <1>1, <1>2 DEF Raise
  <2>4. active \in Requests
    BY <1>3 DEF PilotInv, ProcessInv
  <2> QED
    BY <2>1, <2>2, <2>3, <2>4 DEF TypeOK, Interrupt, service, durable
<1> QED
  BY <1>4, <1>5 DEF PilotInv

(* The end of the task, and the except clause of _execute.                 *)

\* A step of the coroutine that ends the task.
LEMMA LoopEnds ==
    ASSUME PilotInv, LoopFrame, UNCHANGED <<calls, lease>>, ~Done, Finish,
           blocked' \in BOOLEAN, blocked => blocked',
           blocked' \/ row[active].state \notin LiveRow
    PROVE  PilotInv'
<1>1. DurableInv' /\ ProcessInv' /\ LeaseInv' /\ TurnInv' /\ CallInv'
  BY FinishKeeps, LoopIsStill
<1>2. TypeOK'
  <2>1. TypeOK
    BY DEF PilotInv
  <2>2. owned' \in [Requests -> LeaseStates]
    BY <2>1, RevokedType DEF TypeOK, Finish
  <2>3. exc' \in BOOLEAN
    BY DEF Finish
  <2> QED
    BY <2>1, <2>2, <2>3 DEF TypeOK, LoopFrame, durable, Finish
<1> QED
  BY <1>1, <1>2 DEF PilotInv

\* The execution that goes on after its commit keeps the invariant.
LEMMA CommitResumeStep ==
    ASSUME PilotInv, CommitResume PROVE PilotInv'
<1>1. ~Done /\ LoopFrame /\ UNCHANGED <<calls, lease, blocked>> /\ Finish
  BY DEF CommitResume, Resumes
<1>2. row[active].state \notin LiveRow /\ blocked' \in BOOLEAN
  BY <1>1 DEF PilotInv, TypeOK, TurnInv, CommitResume, Resumes
<1> QED
  BY <1>1, <1>2, LoopEnds

\* An inspection that fails keeps the invariant.
LEMMA InspectFailsStep ==
    ASSUME PilotInv, InspectFails PROVE PilotInv'
<1>1. ~Done /\ LoopFrame /\ UNCHANGED <<calls, lease>> /\ Finish /\ blocked' = TRUE
  BY DEF InspectFails, Resumes
<1> QED
  BY <1>1, LoopEnds

\* A disposition that was not written blocks the service.
LEMMA DisposeResumeStep ==
    ASSUME PilotInv, DisposeResume PROVE PilotInv'
<1>1. ~Done /\ LoopFrame /\ UNCHANGED <<calls, lease>> /\ Finish
  BY DEF DisposeResume
<1>2. blocked' \in BOOLEAN /\ (blocked => blocked')
  BY DEF PilotInv, TypeOK, DisposeResume, BlockedAfter
<1>3. blocked' \/ row[active].state \notin LiveRow
  BY DEF PilotInv, TurnInv, DisposeResume, BlockedAfter
<1> QED
  BY <1>1, <1>2, <1>3, LoopEnds

\* A cancellation inside the except clause blocks the service.
LEMMA InterruptHandlerStep ==
    ASSUME PilotInv, InterruptHandler PROVE PilotInv'
<1>1. ~Done /\ Still /\ UNCHANGED <<calls, lease>> /\ Finish /\ blocked' = TRUE
  BY DEF InterruptHandler, Still, durable, history
<1>2. DurableInv' /\ ProcessInv' /\ LeaseInv' /\ TurnInv' /\ CallInv'
  BY <1>1, FinishKeeps
<1>3. TypeOK'
  <2>1. TypeOK
    BY DEF PilotInv
  <2>2. owned' \in [Requests -> LeaseStates]
    BY <1>1, <2>1, RevokedType DEF TypeOK, Finish
  <2>3. exc' \in BOOLEAN /\ blocked' \in BOOLEAN
    BY <1>1 DEF Finish
  <2> QED
    BY <2>1, <2>2, <2>3 DEF TypeOK, InterruptHandler, durable, history, Finish
<1> QED
  BY <1>2, <1>3 DEF PilotInv

\* The except clause moves on to the refund or to the disposition.
LEMMA HandlerGoesOn ==
    ASSUME PilotInv, LoopFrame, UNCHANGED <<calls, lease, kind>>, ~Done,
           NEW stage \in {"refund", "dispose"}, Await(stage),
           exc' \in BOOLEAN, seen' \in LiveRow,
           blocked' \in BOOLEAN, blocked => blocked',
           owned' \in {owned, Revoked(lease)},
           (row[active].state = "RUNNING" /\ ~row[active].staged) \/ stage = "dispose",
           stage = "dispose" /\ row[active].staged => exc'
    PROVE  PilotInv'
<1>1. pc' = stage /\ io' = "busy"
  BY DEF Await
<1>2. TypeOK'
  <2>1. TypeOK
    BY DEF PilotInv
  <2>2. owned' \in [Requests -> LeaseStates]
    BY <2>1, RevokedType DEF TypeOK
  <2> QED
    BY <1>1, <2>1, <2>2 DEF TypeOK, LoopFrame, durable
<1>3. DurableInv'
  BY DEF PilotInv, LoopFrame, durable, DurableInv, CompletedIsClean, LedgerAgreement
<1>4. ProcessInv'
  BY <1>1 DEF PilotInv, LoopFrame, durable, ProcessInv, NoSilentOrphan
<1>5. LeaseInv'
  BY <1>1 DEF PilotInv, TypeOK, ProcessInv, LeaseInv, LoopFrame, durable, Revoked
<1>6. TurnInv' /\ CallInv'
  BY <1>1 DEF PilotInv, TurnInv, CallInv, LoopFrame, durable
<1> QED
  BY <1>2, <1>3, <1>4, <1>5, <1>6 DEF PilotInv

\* A refund is for a turn that is running and has staged nothing; a staged
\* turn goes to a disposition as uncertain.
LEMMA InspectStep ==
    ASSUME PilotInv, NEW auditUp \in BOOLEAN, Inspect(auditUp) PROVE PilotInv'
<1> DEFINE uncertain == TurnUncertain(auditUp)
           refund    == ~uncertain /\ lease # NoRequest /\ Owns(lease)
<1>1. ~Done /\ LoopFrame /\ UNCHANGED <<calls, lease>>
  BY DEF Inspect, Resumes
<1>2. blocked' = (blocked \/ ~auditUp)
  BY DEF Inspect
<1>3. blocked' \in BOOLEAN /\ (blocked => blocked')
  BY <1>2 DEF PilotInv, TypeOK
<1>4. CASE row[active].state \notin LiveRow
  <2>1. Finish
    BY <1>4 DEF Inspect
  <2> QED
    BY <1>1, <1>3, <1>4, <2>1, LoopEnds
<1>5. CASE row[active].state \in LiveRow
  <2>1. seen' \in LiveRow /\ owned' = owned /\ UNCHANGED kind
    BY <1>5 DEF Inspect
  <2>2. CASE refund /\ owned[lease] = "RUNNING"
    <3>1. Await("refund") /\ UNCHANGED exc
      BY <1>5, <2>2 DEF Inspect
    <3>2. ~row[active].staged
      BY <2>2 DEF TurnUncertain
    <3>3. row[active].state = "RUNNING"
      BY <1>5, <2>2 DEF PilotInv, TypeOK, LeaseInv
    <3>4. exc' \in BOOLEAN
      BY <3>1 DEF PilotInv, TypeOK
    <3> QED
      BY <1>1, <1>3, <2>1, <3>1, <3>2, <3>3, <3>4, HandlerGoesOn
  <2>3. CASE ~(refund /\ owned[lease] = "RUNNING")
    <3>1. Await("dispose") /\ exc' = (uncertain \/ refund)
      BY <1>5, <2>3 DEF Inspect
    <3>2. exc' \in BOOLEAN /\ (row[active].staged => exc')
      BY <3>1 DEF TurnUncertain
    <3> QED
      BY <1>1, <1>3, <2>1, <3>1, <3>2, HandlerGoesOn
  <2> QED
    BY <2>2, <2>3
<1> QED
  BY <1>4, <1>5

\* The execution that goes on after the refund keeps the invariant.
LEMMA RefundResumeStep ==
    ASSUME PilotInv, RefundResume PROVE PilotInv'
<1>1. /\ ~Done /\ LoopFrame /\ UNCHANGED <<calls, lease, kind, blocked, seen>>
      /\ Await("dispose") /\ owned' = Revoked(lease) /\ pc = "refund"
  BY DEF RefundResume
<1>2. exc' \in BOOLEAN
  BY DEF RefundResume
<1>3. ~row[active].staged
  BY <1>1 DEF PilotInv, TurnInv
<1>4. blocked' \in BOOLEAN /\ seen' \in LiveRow
  BY <1>1 DEF PilotInv, TypeOK
<1> QED
  BY <1>1, <1>2, <1>3, <1>4, HandlerGoesOn

(***************************************************************************)
(* Steps of the workers.  They write the stores and nothing of the task but *)
(* their own answer.                                                        *)
(***************************************************************************)

\* A worker that leaves the rows alone.
LEMMA RowsKept ==
    ASSUME PilotInv, WorkerFrame, ~Done, UNCHANGED row
    PROVE  ProcessInv' /\ LeaseInv'
  BY DEF PilotInv, ProcessInv, NoSilentOrphan, LeaseInv, WorkerFrame, service

\* A worker that writes the row of its turn brings none back to life.
LEMMA RowWritten ==
    ASSUME PilotInv, WorkerFrame, ~Done, NEW new \in Row, SetRow(active, new),
           \/ new.state = row[active].state
           \/ new.state \notin {"ABSENT", "ADMITTED", "CANCELLED"},
           new.state \in LiveRow => row[active].state \in LiveRow
    PROVE  /\ active \in Requests /\ row' \in [Requests -> Row] /\ row'[active] = new
           /\ \A r \in Requests : r # active => row'[r] = row[r]
           /\ ProcessInv' /\ LeaseInv'
<1>1. active \in Requests /\ row[active].state # "ABSENT"
  BY DEF PilotInv, ProcessInv
<1>2. row' = [row EXCEPT ![active] = new] /\ row \in [Requests -> Row]
  BY DEF SetRow, PilotInv, TypeOK
<1>3. /\ row' \in [Requests -> Row] /\ row'[active] = new
      /\ \A r \in Requests : r # active => row'[r] = row[r]
  BY <1>1, <1>2
<1>4. ProcessInv' /\ LeaseInv'
  BY <1>1, <1>3 DEF PilotInv, ProcessInv, NoSilentOrphan, LeaseInv, WorkerFrame, service
<1> QED
  BY <1>1, <1>3, <1>4

\* The types, when a worker leaves all but its answer and the row alone.
LEMMA WorkerType ==
    ASSUME TypeOK, WorkerFrame, io' \in {"busy", "ok", "no", "overdue", "err"},
           row' \in [Requests -> Row], transcript' \subseteq Requests,
           ledger' \in [Requests -> {"ABSENT", "RESERVED", "RUNNING", "COMPLETED", "FAILED"}],
           charged' \in [Requests -> 0 .. MaxModelCalls],
           intents' \subseteq Calls, outcomes' \subseteq Calls,
           fresh' \subseteq Requests, dead' \subseteq Requests
    PROVE  TypeOK'
  BY DEF TypeOK, WorkerFrame, service, history


\* The stores agree after a write of the turn's live row that keeps what was
\* counted and staged, and that ends it only as the quota request allows.
LEMMA DurableRow ==
    ASSUME PilotInv, NEW new \in Row, row'[active] = new,
           \A r \in Requests : r # active => row'[r] = row[r],
           UNCHANGED <<transcript, ledger, charged, intents, outcomes, calls>>,
           active \in Requests, row[active].state \in LiveRow,
           new.state \notin {"ABSENT", "COMPLETED"},
           ledger[active] = "COMPLETED" => new.state \in {"RUNNING", "UNCERTAIN"},
           ledger[active] = "FAILED" => new.state \in {"RUNNING", "FAILED", "UNCERTAIN"},
           row[active].staged => new.staged,
           row[active].models <= new.models, row[active].tools <= new.tools
    PROVE  DurableInv'
<1>1. CompletedIsClean'
  BY DEF PilotInv, DurableInv, CompletedIsClean
<1>2. LedgerAgreement'
  BY DEF PilotInv, DurableInv, LedgerAgreement
<1>3. \A r \in Requests : /\ NumStarted(calls, r)' <= charged'[r] + row'[r].tools
                          /\ charged'[r] <= row'[r].models
  <2> SUFFICES ASSUME NEW r \in Requests
               PROVE  /\ NumStarted(calls, r) <= charged[r] + row'[r].tools
                      /\ charged[r] <= row'[r].models
    OBVIOUS
  <2>1. /\ NumStarted(calls, r) <= charged[r] + row[r].tools /\ charged[r] <= row[r].models
        /\ row[r].tools <= row'[r].tools /\ row[r].models <= row'[r].models
        /\ row[r] \in Row /\ row'[r] \in Row /\ charged[r] \in Nat
    BY DEF PilotInv, DurableInv, TypeOK, Row
  <2>2. NumStarted(calls, r) \in Nat
    BY StartedFinite DEF PilotInv, TypeOK
  <2> QED
    BY <2>1, <2>2 DEF Row
<1>4. \A r \in Requests : /\ ledger'[r] = "COMPLETED" => row'[r].staged
                          /\ row'[r].state = "ABSENT" => row'[r] = NoRow
  BY DEF PilotInv, DurableInv
<1> QED
  BY <1>1, <1>2, <1>3, <1>4 DEF PilotInv, DurableInv

\* A worker that refuses changes no store.
LEMMA WorkerRefuses ==
    ASSUME PilotInv, WorkerFrame, ~Done, UNCHANGED <<durable, fresh, dead>>,
           io' \in {"no", "overdue", "err"}, io = "busy"
    PROVE  PilotInv'
<1>1. TypeOK'
  BY DEF PilotInv, TypeOK, WorkerFrame, service, history, durable
<1>2. DurableInv'
  BY DEF PilotInv, DurableInv, CompletedIsClean, LedgerAgreement, durable,
     WorkerFrame, history
<1>3. ProcessInv' /\ LeaseInv'
  BY RowsKept DEF durable
<1>4. TurnInv' /\ CallInv'
  BY DEF PilotInv, TypeOK, TurnInv, CallInv, ThisCall, durable, WorkerFrame, history
<1> QED
  BY <1>1, <1>2, <1>3, <1>4 DEF PilotInv

\* A write of state and phase leaves the other fields.
Wrote(old, s, p) == [old EXCEPT !.state = s, !.phase = p]

\* What a worker writes into a row, field by field.
LEMMA WroteFields ==
    ASSUME NEW old \in Row, NEW s \in States, NEW p \in Phases
    PROVE  /\ Wrote(old, s, p) \in Row /\ Wrote(old, s, p).state = s
           /\ Wrote(old, s, p).cancel = old.cancel /\ Wrote(old, s, p).staged = old.staged
           /\ Wrote(old, s, p).models = old.models /\ Wrote(old, s, p).tools = old.tools
  BY DEF Row, Wrote

\* The transaction of the claim keeps the invariant,
LEMMA ClaimWorkerStep ==
    ASSUME PilotInv, ClaimWorker PROVE PilotInv'
<1>1. /\ pc = "claim" /\ io = "busy" /\ active \in Requests /\ WorkerFrame
      /\ UNCHANGED <<transcript, ledger, charged, intents, outcomes, dead, calls, pc>>
  BY DEF PilotInv, ProcessInv, ClaimWorker, WorkerFrame, history
<1>2. CASE ClaimAllowed(active)
  <2> DEFINE new == [row[active] EXCEPT !.phase = "reserved"]
  <2>1. SetRow(active, new) /\ io' = "ok" /\ fresh' = fresh \ {active}
    BY <1>2 DEF ClaimWorker
  <2>2. /\ new \in Row /\ new.state = "ADMITTED" /\ row[active].state = "ADMITTED"
        /\ new.staged = row[active].staged
        /\ new.models = row[active].models /\ new.tools = row[active].tools
    BY <1>1, <1>2 DEF PilotInv, TypeOK, Row, Phases, ClaimAllowed
  <2> HIDE DEF new
  <2>3. /\ row' \in [Requests -> Row] /\ row'[active] = new /\ ProcessInv' /\ LeaseInv'
        /\ \A r \in Requests : r # active => row'[r] = row[r]
    BY <1>1, <2>1, <2>2, RowWritten
  <2>4. DurableInv'
    BY <1>1, <2>2, <2>3, DurableRow DEF PilotInv, DurableInv, LedgerAgreement, Row
  <2>5. TypeOK'
    BY <1>1, <2>1, <2>3, WorkerType DEF PilotInv, TypeOK
  <2>6. TurnInv' /\ CallInv'
    BY <1>1 DEF TurnInv, CallInv
  <2> QED
    BY <2>3, <2>4, <2>5, <2>6 DEF PilotInv
<1>3. CASE ~ClaimAllowed(active)
  BY <1>1, <1>3, WorkerRefuses DEF ClaimWorker, durable
<1> QED
  BY <1>2, <1>3

\* so does that of mark_running of the turn,
LEMMA RunningWorkerStep ==
    ASSUME PilotInv, RunningWorker PROVE PilotInv'
<1>1. /\ pc = "running" /\ io = "busy" /\ active \in Requests /\ WorkerFrame
      /\ UNCHANGED <<transcript, ledger, charged, intents, outcomes, fresh, dead, calls, pc, active>>
  BY DEF PilotInv, ProcessInv, RunningWorker, WorkerFrame, history
<1>2. CASE row[active].state = "ADMITTED" /\ ~row[active].cancel /\ active \notin late
  <2> DEFINE new == Wrote(row[active], "RUNNING", "running")
  <2>1. SetRow(active, new) /\ io' = "ok"
    BY <1>2 DEF RunningWorker, Wrote
  <2>2. /\ new \in Row /\ new.state = "RUNNING" /\ new.staged = row[active].staged
        /\ new.models = row[active].models /\ new.tools = row[active].tools
    <3>1. row[active] \in Row /\ "RUNNING" \in States /\ "running" \in Phases
      BY <1>1 DEF PilotInv, TypeOK, Phases, States
    <3> QED
      BY <3>1, WroteFields
  <2> HIDE DEF new
  <2>3. /\ row' \in [Requests -> Row] /\ row'[active] = new /\ ProcessInv' /\ LeaseInv'
        /\ \A r \in Requests : r # active => row'[r] = row[r]
    BY <1>1, <1>2, <2>1, <2>2, RowWritten
  <2>4. DurableInv'
    BY <1>1, <1>2, <2>2, <2>3, DurableRow DEF PilotInv, DurableInv, LedgerAgreement, Row
  <2>5. TypeOK'
    BY <1>1, <2>1, <2>3, WorkerType DEF PilotInv, TypeOK
  <2>6. TurnInv' /\ CallInv'
    BY <1>1, <2>2, <2>3 DEF PilotInv, TurnInv, CallInv
  <2> QED
    BY <2>3, <2>4, <2>5, <2>6 DEF PilotInv
<1>3. CASE ~(row[active].state = "ADMITTED" /\ ~row[active].cancel /\ active \notin late)
  BY <1>1, <1>3, WorkerRefuses DEF RunningWorker, durable
<1> QED
  BY <1>2, <1>3

\* The attempt is counted in the row before it is counted anywhere else.
LEMMA AttemptWorkerStep ==
    ASSUME PilotInv, AttemptWorker PROVE PilotInv'
<1>1. /\ pc = "attempt" /\ io = "busy" /\ active \in Requests /\ WorkerFrame
      /\ UNCHANGED <<transcript, ledger, charged, intents, outcomes, fresh, dead, calls, pc, active, kind>>
  BY DEF PilotInv, ProcessInv, AttemptWorker, WorkerFrame, history
<1>2. CASE AttemptAllowed(active, kind)
  <2> DEFINE new == IF kind = "model" THEN [row[active] EXCEPT !.models = @ + 1]
                                      ELSE [row[active] EXCEPT !.tools = @ + 1]
  <2>1. SetRow(active, new) /\ io' = "ok"
    BY <1>2 DEF AttemptWorker
  <2>2. /\ new \in Row /\ new.state = "RUNNING" /\ row[active].state = "RUNNING"
        /\ new.staged = row[active].staged
        /\ new.models = IF kind = "model" THEN row[active].models + 1 ELSE row[active].models
        /\ new.tools = IF kind = "model" THEN row[active].tools ELSE row[active].tools + 1
    <3>1. row[active] \in Row
      BY <1>1 DEF PilotInv, TypeOK
    <3>2. CASE kind = "model"
      <4>1. row[active].models < MaxModelCalls /\ row[active].state = "RUNNING"
        BY <1>2, <3>2 DEF AttemptAllowed, LiveTurn, Uncancelled
      <4> QED
        BY <3>1, <3>2, <4>1 DEF Row
    <3>3. CASE kind # "model"
      <4>1. row[active].tools < MaxToolCalls /\ row[active].state = "RUNNING"
        BY <1>2, <3>3 DEF AttemptAllowed, LiveTurn, Uncancelled
      <4> QED
        BY <3>1, <3>3, <4>1 DEF Row
    <3> QED
      BY <3>2, <3>3
  <2> HIDE DEF new
  <2>3. /\ row' \in [Requests -> Row] /\ row'[active] = new /\ ProcessInv' /\ LeaseInv'
        /\ \A r \in Requests : r # active => row'[r] = row[r]
    BY <1>1, <2>1, <2>2, RowWritten
  <2>4. row[active].models \in Nat /\ row[active].tools \in Nat
    BY <1>1 DEF PilotInv, TypeOK, Row
  <2>5. DurableInv'
    BY <1>1, <2>2, <2>3, <2>4, DurableRow
  <2>6. TypeOK'
    BY <1>1, <2>1, <2>3, WorkerType DEF PilotInv, TypeOK
  <2>7. TurnInv'
    BY <1>1, <2>2, <2>3 DEF PilotInv, TurnInv
  <2>8. CallInv'
    <3>1. /\ charged[active] <= row[active].models /\ charged[active] \in Nat
          /\ NumStarted(calls, active) <= charged[active] + row[active].tools
      BY <1>1 DEF PilotInv, DurableInv, TypeOK
    <3>2. NumStarted(calls, active) \in Nat
      BY <1>1, StartedFinite DEF PilotInv, TypeOK
    <3> QED
      BY <1>1, <2>2, <2>3, <2>4, <3>1, <3>2 DEF CallInv
  <2> QED
    BY <2>3, <2>5, <2>6, <2>7, <2>8 DEF PilotInv
<1>3. CASE ~AttemptAllowed(active, kind)
  BY <1>1, <1>3, WorkerRefuses DEF AttemptWorker, durable
<1> QED
  BY <1>2, <1>3

\* that of stage_result, refused or not,
LEMMA StageWorkerStep ==
    ASSUME PilotInv, StageWorker PROVE PilotInv'
<1>1. /\ pc = "stage" /\ io = "busy" /\ active \in Requests /\ WorkerFrame
      /\ UNCHANGED <<transcript, ledger, charged, intents, outcomes, fresh, dead, calls, pc, active>>
  BY DEF PilotInv, ProcessInv, StageWorker, WorkerFrame, history
<1>2. CASE LiveTurn(active)
  <2> DEFINE new == [row[active] EXCEPT !.staged = TRUE, !.phase = "staged"]
  <2>1. SetRow(active, new) /\ io' = "ok"
    BY <1>2 DEF StageWorker
  <2>2. /\ new \in Row /\ new.state = "RUNNING" /\ row[active].state = "RUNNING" /\ new.staged
        /\ new.models = row[active].models /\ new.tools = row[active].tools
    <3>1. row[active] \in Row /\ "staged" \in Phases
      BY <1>1 DEF PilotInv, TypeOK, Phases
    <3>2. row[active].state = "RUNNING"
      BY <1>2 DEF LiveTurn, Uncancelled
    <3> QED
      BY <3>1, <3>2 DEF Row
  <2> HIDE DEF new
  <2>3. /\ row' \in [Requests -> Row] /\ row'[active] = new /\ ProcessInv' /\ LeaseInv'
        /\ \A r \in Requests : r # active => row'[r] = row[r]
    BY <1>1, <2>1, <2>2, RowWritten
  <2>4. DurableInv'
    BY <1>1, <2>2, <2>3, DurableRow DEF Row
  <2>5. TypeOK'
    BY <1>1, <2>1, <2>3, WorkerType DEF PilotInv, TypeOK
  <2>6. TurnInv' /\ CallInv'
    BY <1>1, <2>2, <2>3 DEF PilotInv, TurnInv, CallInv
  <2> QED
    BY <2>3, <2>4, <2>5, <2>6 DEF PilotInv
<1>3. CASE ~LiveTurn(active)
  BY <1>1, <1>3, WorkerRefuses DEF StageWorker, durable
<1> QED
  BY <1>2, <1>3

\* The disposition: a staged turn, the only kind whose quota request may be
\* COMPLETED, becomes UNCERTAIN; a refunded one FAILED or UNCERTAIN.
LEMMA DisposeWorkerStep ==
    ASSUME PilotInv, DisposeWorker PROVE PilotInv'
<1>1. /\ pc = "dispose" /\ io = "busy" /\ active \in Requests /\ WorkerFrame
      /\ UNCHANGED <<transcript, ledger, charged, intents, outcomes, calls, pc, active, exc>>
  BY DEF PilotInv, ProcessInv, DisposeWorker, WorkerFrame, history
<1>2. CASE row[active].state = seen
  <2> DEFINE p == IF exc THEN "uncertain" ELSE "failed"
             new == Wrote(row[active], Disposition, p)
  <2>1. /\ SetRow(active, new) /\ io' = "ok"
        /\ dead' = dead \cup {active} /\ fresh' = fresh \ {active}
    BY <1>2 DEF DisposeWorker, Wrote
  <2>2. /\ new \in Row /\ new.state = Disposition /\ new.staged = row[active].staged
        /\ new.models = row[active].models /\ new.tools = row[active].tools
    <3>1. row[active] \in Row /\ Disposition \in States /\ p \in Phases
      BY <1>1 DEF PilotInv, TypeOK, Phases, States, Disposition
    <3> QED
      BY <3>1, WroteFields
  <2> HIDE DEF new
  <2>3. /\ Disposition \in {"UNCERTAIN", "DENIED", "FAILED"} /\ seen \in LiveRow
        /\ row[active].staged => Disposition = "UNCERTAIN"
        /\ seen = "RUNNING" => Disposition # "DENIED"
    BY <1>1 DEF PilotInv, TypeOK, TurnInv, Disposition
  <2>4. /\ row' \in [Requests -> Row] /\ row'[active] = new /\ ProcessInv' /\ LeaseInv'
        /\ \A r \in Requests : r # active => row'[r] = row[r]
    BY <1>1, <2>1, <2>2, <2>3, RowWritten
  <2>5. DurableInv'
    <3>1. /\ ledger[active] = "COMPLETED" => row[active].staged
          /\ ledger[active] = "FAILED" => row[active].state \in {"RUNNING", "FAILED", "UNCERTAIN"}
      BY <1>1 DEF PilotInv, DurableInv, LedgerAgreement
    <3>2. new.models \in Nat /\ new.tools \in Nat
      BY <2>2 DEF Row
    <3> QED
      BY <1>1, <1>2, <2>2, <2>3, <2>4, <3>1, <3>2, DurableRow
  <2>6. TypeOK'
    BY <1>1, <2>1, <2>4, WorkerType DEF PilotInv, TypeOK
  <2>7. TurnInv' /\ CallInv'
    BY <1>1, <2>2, <2>3, <2>4 DEF PilotInv, TurnInv, CallInv
  <2> QED
    BY <2>4, <2>5, <2>6, <2>7 DEF PilotInv
<1>3. CASE row[active].state # seen
  BY <1>1, <1>3, WorkerRefuses DEF DisposeWorker, durable
<1> QED
  BY <1>2, <1>3

\* The publication: the quota request is COMPLETED and no call is open.
LEMMA CommitWorkerStep ==
    ASSUME PilotInv, CommitWorker PROVE PilotInv'
<1>1. /\ pc = "commit" /\ io = "busy" /\ active \in Requests /\ WorkerFrame
      /\ UNCHANGED <<ledger, charged, intents, outcomes, calls, pc, active>>
  BY DEF PilotInv, ProcessInv, CommitWorker, WorkerFrame, history
<1>2. CASE LiveTurn(active) /\ row[active].staged /\ PublicationOpen
  <2> DEFINE new == Wrote(row[active], "COMPLETED", "committed")
  <2>1. /\ SetRow(active, new) /\ io' = "ok" /\ transcript' = transcript \cup {active}
        /\ dead' = dead \cup {active} /\ fresh' = fresh \ {active}
    BY <1>2 DEF CommitWorker, Wrote
  <2>2. /\ new \in Row /\ new.state = "COMPLETED" /\ new.cancel = row[active].cancel
        /\ new.staged = row[active].staged
        /\ new.models = row[active].models /\ new.tools = row[active].tools
    <3>1. row[active] \in Row /\ "COMPLETED" \in States /\ "committed" \in Phases
      BY <1>1 DEF PilotInv, TypeOK, Phases, States
    <3> QED
      BY <3>1, WroteFields
  <2> HIDE DEF new
  <2>3. /\ row' \in [Requests -> Row] /\ row'[active] = new /\ ProcessInv' /\ LeaseInv'
        /\ \A r \in Requests : r # active => row'[r] = row[r]
    BY <1>1, <2>1, <2>2, RowWritten
  <2>4. ~row[active].cancel /\ ledger[active] = "COMPLETED" /\ Pending = {}
    BY <1>1, <1>2 DEF PilotInv, TurnInv, LiveTurn, Uncancelled
  <2>5. CompletedIsClean'
    BY <1>1, <2>1, <2>2, <2>3, <2>4 DEF PilotInv, DurableInv, CompletedIsClean
  <2>6. LedgerAgreement'
    BY <1>1, <2>2, <2>3, <2>4 DEF PilotInv, DurableInv, LedgerAgreement
  <2>7. DurableInv'
    BY <1>1, <1>2, <2>2, <2>3, <2>5, <2>6 DEF PilotInv, DurableInv
  <2>8. TypeOK'
    BY <1>1, <2>1, <2>3, WorkerType DEF PilotInv, TypeOK
  <2>9. TurnInv' /\ CallInv'
    BY <1>1, <2>1, <2>2, <2>3, <2>4 DEF TurnInv, CallInv
  <2> QED
    BY <2>3, <2>7, <2>8, <2>9 DEF PilotInv
<1>3. CASE ~(LiveTurn(active) /\ row[active].staged /\ PublicationOpen)
  <2>1. /\ UNCHANGED <<row, transcript>> /\ io' = "no"
        /\ fresh' \subseteq fresh /\ dead' \subseteq dead \cup {active}
    BY <1>3 DEF CommitWorker
  <2>2. TypeOK'
    BY <1>1, <2>1, WorkerType DEF PilotInv, TypeOK
  <2>3. DurableInv'
    BY <1>1, <2>1 DEF PilotInv, DurableInv, CompletedIsClean, LedgerAgreement
  <2>4. ProcessInv' /\ LeaseInv'
    BY <1>1, <2>1, RowsKept
  <2>5. TurnInv' /\ CallInv'
    BY <1>1, <2>1 DEF PilotInv, TurnInv, CallInv
  <2> QED
    BY <2>2, <2>3, <2>4, <2>5 DEF PilotInv
<1> QED
  BY <1>2, <1>3

\* A worker of the quota ledger: the row and the audit log stay.
LEMMA LedgerWritten ==
    ASSUME PilotInv, WorkerFrame, ~Done, active \in Requests, NEW s, io' = "ok",
           s \in {"RESERVED", "RUNNING", "COMPLETED", "FAILED"},
           ledger[active] # "COMPLETED",
           ledger' = [ledger EXCEPT ![active] = s],
           UNCHANGED <<row, transcript, charged, intents, outcomes, fresh, dead>>,
           s = "COMPLETED" => row[active].staged /\ row[active].state = "RUNNING",
           s = "FAILED" => row[active].state = "RUNNING"
    PROVE  /\ TypeOK' /\ DurableInv' /\ ProcessInv' /\ LeaseInv' /\ ledger'[active] = s
<1>1. ledger'[active] = s /\ \A r \in Requests : r # active => ledger'[r] = ledger[r]
  BY DEF PilotInv, TypeOK
<1>2. TypeOK'
  BY WorkerType DEF PilotInv, TypeOK
<1>3. DurableInv'
  BY <1>1 DEF PilotInv, DurableInv, CompletedIsClean, LedgerAgreement, WorkerFrame,
     history
<1>4. ProcessInv' /\ LeaseInv'
  BY RowsKept
<1> QED
  BY <1>1, <1>2, <1>3, <1>4

\* that of reserve_request,
LEMMA ReserveWorkerStep ==
    ASSUME PilotInv, ReserveWorker PROVE PilotInv'
<1>1. /\ pc = "reserve" /\ io = "busy" /\ active \in Requests /\ WorkerFrame
      /\ UNCHANGED <<row, transcript, charged, intents, outcomes, fresh, dead, pc>>
  BY DEF PilotInv, ProcessInv, ReserveWorker, WorkerFrame
<1>2. CASE ledger[active] = "ABSENT" /\ io' = "ok"
           /\ ledger' = [ledger EXCEPT ![active] = "RESERVED"]
  <2>1. TypeOK' /\ DurableInv' /\ ProcessInv' /\ LeaseInv'
    BY <1>1, <1>2, LedgerWritten
  <2>2. TurnInv' /\ CallInv'
    BY <1>1 DEF TurnInv, CallInv
  <2> QED
    BY <2>1, <2>2 DEF PilotInv
<1>3. CASE io' = "no" /\ UNCHANGED ledger
  BY <1>1, <1>3, WorkerRefuses DEF durable
<1> QED
  BY <1>2, <1>3 DEF ReserveWorker

\* that of mark_running of the quota ledger,
LEMMA MarkWorkerStep ==
    ASSUME PilotInv, MarkWorker PROVE PilotInv'
<1>1. /\ pc = "mark" /\ io = "busy" /\ active \in Requests /\ WorkerFrame
      /\ UNCHANGED <<row, transcript, charged, intents, outcomes, fresh, dead, pc, active>>
  BY DEF PilotInv, ProcessInv, MarkWorker, WorkerFrame
<1>2. CASE ledger[active] = "RESERVED"
  <2>1. io' = "ok" /\ ledger' = [ledger EXCEPT ![active] = "RUNNING"]
    BY <1>2 DEF MarkWorker
  <2>2. TypeOK' /\ DurableInv' /\ ProcessInv' /\ LeaseInv' /\ ledger'[active] = "RUNNING"
    BY <1>1, <1>2, <2>1, LedgerWritten
  <2>3. TurnInv' /\ CallInv'
    BY <1>1, <2>2 DEF TurnInv, CallInv
  <2> QED
    BY <2>2, <2>3 DEF PilotInv
<1>3. CASE ledger[active] # "RESERVED"
  BY <1>1, <1>3, WorkerRefuses DEF MarkWorker, durable
<1> QED
  BY <1>2, <1>3

\* that of finish_request after a success,
LEMMA FinishWorkerStep ==
    ASSUME PilotInv, FinishWorker PROVE PilotInv'
<1>1. /\ pc = "finish" /\ io = "busy" /\ active \in Requests /\ WorkerFrame
      /\ UNCHANGED <<row, transcript, charged, intents, outcomes, fresh, dead, pc, active>>
      /\ row[active].state = "RUNNING" /\ row[active].staged
  BY DEF PilotInv, ProcessInv, TurnInv, FinishWorker, WorkerFrame
<1>2. CASE ledger[active] = "RUNNING"
  <2>1. io' = "ok" /\ ledger' = [ledger EXCEPT ![active] = "COMPLETED"]
    BY <1>2 DEF FinishWorker
  <2>2. TypeOK' /\ DurableInv' /\ ProcessInv' /\ LeaseInv' /\ ledger'[active] = "COMPLETED"
    BY <1>1, <1>2, <2>1, LedgerWritten
  <2>3. TurnInv' /\ CallInv'
    BY <1>1, <2>2 DEF TurnInv, CallInv
  <2> QED
    BY <2>2, <2>3 DEF PilotInv
<1>3. CASE ledger[active] # "RUNNING"
  BY <1>1, <1>3, WorkerRefuses DEF FinishWorker, durable
<1> QED
  BY <1>2, <1>3

\* and after a failure,
LEMMA RefundWorkerStep ==
    ASSUME PilotInv, RefundWorker PROVE PilotInv'
<1>1. /\ pc = "refund" /\ io = "busy" /\ active \in Requests /\ WorkerFrame
      /\ UNCHANGED <<row, transcript, charged, intents, outcomes, fresh, dead, pc, active>>
      /\ row[active].state = "RUNNING" /\ ~row[active].staged
  BY DEF PilotInv, ProcessInv, TurnInv, RefundWorker, WorkerFrame
<1>2. CASE ledger[active] = "RUNNING"
  <2>1. io' = "ok" /\ ledger' = [ledger EXCEPT ![active] = "FAILED"]
    BY <1>2 DEF RefundWorker
  <2>2. TypeOK' /\ DurableInv' /\ ProcessInv' /\ LeaseInv'
    BY <1>1, <1>2, <2>1, LedgerWritten
  <2>3. TurnInv' /\ CallInv'
    BY <1>1 DEF TurnInv, CallInv
  <2> QED
    BY <2>2, <2>3 DEF PilotInv
<1>3. CASE ledger[active] # "RUNNING"
  BY <1>1, <1>3, WorkerRefuses DEF RefundWorker, durable
<1> QED
  BY <1>2, <1>3

\* The ledger counts an attempt the row has counted before.
LEMMA QuotaWorkerStep ==
    ASSUME PilotInv, QuotaWorker PROVE PilotInv'
<1>1. /\ pc = "quota" /\ io = "busy" /\ active \in Requests /\ WorkerFrame
      /\ UNCHANGED <<row, transcript, ledger, intents, outcomes, fresh, dead, pc, active, calls>>
  BY DEF PilotInv, ProcessInv, QuotaWorker, WorkerFrame, history
<1>2. CASE /\ charged[active] < MaxModelCalls /\ io' = "ok"
           /\ charged' = [charged EXCEPT ![active] = @ + 1]
  <2>1. /\ charged' \in [Requests -> 0 .. MaxModelCalls]
        /\ charged'[active] = charged[active] + 1
        /\ \A r \in Requests : r # active => charged'[r] = charged[r]
    BY <1>1, <1>2 DEF PilotInv, TypeOK
  <2>2. TypeOK'
    BY <1>1, <1>2, <2>1, WorkerType DEF PilotInv, TypeOK
  <2>3. /\ charged[active] < row[active].models
        /\ NumStarted(calls, active) <= charged[active] + row[active].tools
        /\ charged[active] \in Nat /\ row[active].models \in Nat /\ row[active].tools \in Nat
    BY <1>1 DEF PilotInv, CallInv, DurableInv, TypeOK, Row
  <2>4. NumStarted(calls, active) \in Nat
    BY <1>1, StartedFinite DEF PilotInv, TypeOK
  <2>5. DurableInv'
    <3>1. ASSUME NEW r \in Requests
          PROVE  NumStarted(calls, r) <= charged'[r] + row[r].tools /\ charged'[r] <= row[r].models
      <4>1. CASE r = active
        BY <2>1, <2>3, <2>4, <4>1
      <4>2. CASE r # active
        BY <2>1, <4>2 DEF PilotInv, DurableInv
      <4> QED
        BY <4>1, <4>2
    <3> QED
      BY <1>1, <3>1 DEF PilotInv, DurableInv, CompletedIsClean, LedgerAgreement
  <2>6. ProcessInv' /\ LeaseInv'
    BY <1>1, RowsKept
  <2>7. TurnInv'
    BY <1>1 DEF PilotInv, TurnInv
  <2>8. CallInv'
    BY <1>1, <1>2, <2>1, <2>3, <2>4 DEF CallInv
  <2> QED
    BY <2>2, <2>5, <2>6, <2>7, <2>8 DEF PilotInv
<1>3. CASE io' = "no" /\ UNCHANGED charged
  BY <1>1, <1>3, WorkerRefuses DEF durable
<1> QED
  BY <1>2, <1>3 DEF QuotaWorker

\* What the audit log and the two sets may become without harm: an intent for
\* the call in progress if none is open, an outcome for a call that started.
LEMMA AuditWritten ==
    ASSUME PilotInv, WorkerFrame, pc \in Workers, io = "busy",
           io' \in {"ok", "err"}, UNCHANGED <<row, transcript, ledger, charged>>,
           fresh' \subseteq fresh, dead' \subseteq dead \cup {active},
           \/ intents' = intents
           \/ pc = "intent" /\ Pending = {} /\ intents' = intents \cup {ThisCall},
           \/ outcomes' = outcomes
           \/ pc = "outcome" /\ outcomes' = outcomes \cup {ThisCall},
           io' = "ok" => \/ pc = "intent" /\ intents' = intents \cup {ThisCall}
                         \/ pc = "outcome"
    PROVE  PilotInv'
<1>1. /\ ~Done /\ active \in Requests /\ row[active] \in Row
      /\ UNCHANGED <<calls, pc, active, kind, exc>>
  BY DEF PilotInv, ProcessInv, TypeOK, Workers, WorkerFrame, history
<1>2. pc = "intent" => /\ ThisCall \in Calls /\ ThisCall[1] = active
                       /\ row[active].state = "RUNNING"
  <2> SUFFICES ASSUME pc = "intent"
               PROVE  /\ ThisCall \in Calls /\ ThisCall[1] = active
                      /\ row[active].state = "RUNNING"
    OBVIOUS
  <2>1. /\ NumStarted(calls, active) < charged[active] + row[active].tools
        /\ charged[active] <= row[active].models /\ charged[active] \in Nat
        /\ row[active].state = "RUNNING"
    BY <1>1 DEF PilotInv, CallInv, DurableInv, TypeOK, TurnInv
  <2>2. NumStarted(calls, active) \in Nat
    BY <1>1, StartedFinite DEF PilotInv, TypeOK
  <2> QED
    BY <1>1, <2>1, <2>2 DEF Row, ThisCall, Calls
<1>3. pc = "outcome" => ThisCall \in calls
  BY DEF PilotInv, CallInv
<1>4. intents' \subseteq Calls /\ outcomes' \subseteq Calls
  BY <1>2, <1>3 DEF PilotInv, TypeOK
<1>5. TypeOK'
  BY <1>1, <1>4, WorkerType DEF PilotInv, TypeOK
<1>6. DurableInv'
  <2>1. CompletedIsClean'
    BY <1>2 DEF PilotInv, DurableInv, CompletedIsClean
  <2>2. outcomes' \subseteq calls /\ calls \subseteq intents'
    BY <1>3 DEF PilotInv, DurableInv
  <2>3. \A c, d \in Pending' : c = d
    BY <1>3 DEF PilotInv, DurableInv
  <2> QED
    BY <1>1, <2>1, <2>2, <2>3 DEF PilotInv, DurableInv, LedgerAgreement
<1>7. ProcessInv' /\ LeaseInv'
  BY <1>1, RowsKept
<1>8. TurnInv'
  BY <1>1 DEF PilotInv, TurnInv, Workers
<1>9. CallInv'
  BY <1>1 DEF PilotInv, CallInv, ThisCall, Workers
<1> QED
  BY <1>5, <1>6, <1>7, <1>8, <1>9 DEF PilotInv

\* the append of a tool's intent,
LEMMA IntentWorkerStep ==
    ASSUME PilotInv, IntentWorker PROVE PilotInv'
<1>1. CASE ClaimIntentAllowed
  BY <1>1, AuditWritten DEF IntentWorker, ClaimIntentAllowed, Workers
<1>2. CASE ~ClaimIntentAllowed
  BY <1>2, WorkerRefuses DEF IntentWorker, durable
<1> QED
  BY <1>1, <1>2

\* and that of its outcome.
LEMMA OutcomeWorkerStep ==
    ASSUME PilotInv, OutcomeWorker PROVE PilotInv'
  BY AuditWritten DEF OutcomeWorker, Workers

\* A storage failure may keep the in-memory change or the audit entry.
LEMMA WorkerFailsStep ==
    ASSUME PilotInv, WorkerFails PROVE PilotInv'
<1>1. /\ WorkerFrame /\ pc \in Workers /\ io = "busy" /\ io' = "err"
      /\ UNCHANGED <<row, transcript, ledger, charged>>
      /\ fresh' \subseteq fresh /\ dead' \subseteq dead \cup {active}
  BY DEF WorkerFails
<1>2. \/ intents' = intents
      \/ pc = "intent" /\ Pending = {} /\ intents' = intents \cup {ThisCall}
  BY DEF WorkerFails, ClaimIntentAllowed
<1>3. \/ outcomes' = outcomes
      \/ pc = "outcome" /\ outcomes' = outcomes \cup {ThisCall}
  BY DEF WorkerFails
<1> QED
  BY <1>1, <1>2, <1>3, AuditWritten

(***************************************************************************)
(* The process, submit, cancel and stop.                                    *)
(***************************************************************************)

\* A fresh process has no lease and no execution.
LEMMA FreshKeeps ==
    ASSUME FreshProcess
    PROVE  LeaseInv' /\ TurnInv' /\ CallInv'
  BY DEF FreshProcess, LeaseInv, TurnInv, CallInv

\* start() turns every interrupted row into UNCERTAIN.
LEMMA StartStep ==
    ASSUME PilotInv, Start PROVE PilotInv'
<1>1. FreshProcess /\ up' = TRUE /\ dead' = Interrupted /\ row' = Recovered
      /\ UNCHANGED <<transcript, ledger, charged, intents, outcomes, late, calls, interrupted>>
  BY DEF Start, history
<1>2. ASSUME NEW r \in Requests
      PROVE  /\ row'[r] \in Row /\ row'[r].state \notin LiveRow
             /\ row'[r].cancel = row[r].cancel /\ row'[r].staged = row[r].staged
             /\ row'[r].models = row[r].models /\ row'[r].tools = row[r].tools
             /\ row[r].state \in LiveRow => row'[r].state = "UNCERTAIN"
             /\ row[r].state \notin LiveRow => row'[r] = row[r]
  <2>1. row[r] \in Row
    BY DEF PilotInv, TypeOK
  <2>2. CASE r \in Interrupted
    <3>1. row'[r] = Wrote(row[r], "UNCERTAIN", "recovery") /\ row[r].state \in LiveRow
      BY <1>1, <2>2 DEF Recovered, Wrote, Interrupted
    <3>2. "UNCERTAIN" \in States /\ "recovery" \in Phases
      BY DEF States, Phases
    <3> QED
      BY <2>1, <3>1, <3>2, WroteFields
  <2>3. CASE r \notin Interrupted
    <3>1. row'[r] = row[r] /\ row[r].state \notin LiveRow
      BY <1>1, <2>3 DEF Recovered, Interrupted
    <3> QED
      BY <2>1, <3>1
  <2> QED
    BY <2>2, <2>3
<1>3. row' \in [Requests -> Row]
  BY <1>1, <1>2 DEF Recovered
<1>4. TypeOK'
  BY <1>1, <1>3 DEF PilotInv, TypeOK, FreshProcess, LeaseStates, Interrupted
<1>5. DurableInv'
  <2>1. CompletedIsClean'
    BY <1>1, <1>2 DEF PilotInv, DurableInv, CompletedIsClean
  <2>2. LedgerAgreement'
    BY <1>1, <1>2 DEF PilotInv, DurableInv, LedgerAgreement
  <2> QED
    BY <1>1, <1>2, <2>1, <2>2 DEF PilotInv, DurableInv
<1>6. ProcessInv'
  BY <1>1, <1>2 DEF ProcessInv, FreshProcess, NoSilentOrphan
<1> QED
  BY <1>1, <1>4, <1>5, <1>6, FreshKeeps DEF PilotInv

\* The process is killed, or has drained its execution: the stores stay.
LEMMA ProcessEnds ==
    ASSUME PilotInv, Crash \/ StopClose PROVE PilotInv'
<1>1. /\ FreshProcess /\ dead' = {} /\ up' = FALSE
      /\ UNCHANGED <<row, transcript, ledger, charged, intents, outcomes, late, calls, interrupted>>
  BY DEF Crash, StopClose, durable, history
<1>2. TypeOK'
  BY <1>1 DEF PilotInv, TypeOK, FreshProcess, LeaseStates
<1>3. DurableInv'
  BY <1>1 DEF PilotInv, DurableInv, CompletedIsClean, LedgerAgreement
<1>4. ProcessInv'
  BY <1>1 DEF PilotInv, ProcessInv, FreshProcess, NoSilentOrphan
<1> QED
  BY <1>1, <1>2, <1>3, <1>4, FreshKeeps DEF PilotInv

\* Steps that leave the stores and the stage of the execution alone.
LEMMA OutsideStep ==
    ASSUME PilotInv, TypeOK', UNCHANGED <<durable, up, active, pc, io, kind, exc, calls, lease>>,
           blocked' = blocked, ProcessInv', LeaseInv'
    PROVE  PilotInv'
<1>1. DurableInv'
  BY DEF PilotInv, durable, DurableInv, CompletedIsClean, LedgerAgreement
<1>2. TurnInv' /\ CallInv'
  BY DEF PilotInv, durable, TurnInv, CallInv, ThisCall
<1> QED
  BY <1>1, <1>2 DEF PilotInv

\* A deadline that passes keeps the invariant.
LEMMA ExpireOrTimeout ==
    ASSUME PilotInv, (\E r \in Requests : Expire(r)) \/ TimeoutFires PROVE PilotInv'
<1>1. /\ UNCHANGED <<durable, service, tables, active, pc, io, kind, exc, seen,
                     cancelling, history>>
      /\ late' \subseteq Requests /\ signal' \in {"no", "cancel", "timeout"}
  BY DEF PilotInv, TypeOK, Expire, TimeoutFires, task
<1>2. TypeOK'
  BY <1>1 DEF PilotInv, TypeOK, durable, service, tables, history
<1>3. ProcessInv' /\ LeaseInv'
  BY <1>1 DEF PilotInv, ProcessInv, LeaseInv, NoSilentOrphan, durable, service, tables
<1> QED
  BY <1>1, <1>2, <1>3, OutsideStep DEF service, tables, history

\* submit has found no execution, no uncertainty and so no live row.
LEMMA SubmitCheckStep ==
    ASSUME PilotInv, NEW r \in Requests, SubmitCheck(r) PROVE PilotInv'
<1>1. /\ UNCHANGED <<durable, late, up, stopping, blocked, tables, task, history>>
      /\ gate' = "submit" /\ target' = r /\ up /\ Done /\ ~Uncertainty
      /\ row[r].state = "ABSENT"
  BY DEF SubmitCheck, IsNewRequest
<1>2. TypeOK'
  BY <1>1 DEF PilotInv, TypeOK, durable, tables, task, history
<1>3. ProcessInv'
  BY <1>1 DEF PilotInv, ProcessInv, NoSilentOrphan, Uncertainty, durable, task
<1>4. LeaseInv'
  BY <1>1 DEF PilotInv, LeaseInv, durable, tables, task
<1> QED
  BY <1>1, <1>2, <1>3, <1>4, OutsideStep DEF tables, task, history

\* A refused submit and the return of a cancel keep the invariant.
LEMMA SubmitFailsStep ==
    ASSUME PilotInv, SubmitFails \/ CancelReturn PROVE PilotInv'
<1>1. /\ UNCHANGED <<durable, late, up, stopping, blocked, tables, task, history>>
      /\ gate' = "free" /\ target' = NoRequest /\ up
  BY DEF PilotInv, ProcessInv, SubmitFails, CancelReturn
<1>2. TypeOK'
  BY <1>1 DEF PilotInv, TypeOK, durable, tables, task, history
<1>3. ProcessInv' /\ LeaseInv'
  BY <1>1 DEF PilotInv, ProcessInv, NoSilentOrphan, LeaseInv, durable, tables, task
<1> QED
  BY <1>1, <1>2, <1>3, OutsideStep DEF tables, task, history

\* The admitted row is the only live one.
LEMMA SubmitAdmitStep ==
    ASSUME PilotInv, SubmitAdmit PROVE PilotInv'
<1> DEFINE new == Wrote(NoRow, "ADMITTED", "admitted")
<1>1. /\ target \in Requests /\ row[target].state = "ABSENT" /\ Done /\ up
      /\ \A r \in Requests : row[r].state \notin LiveRow \cup {"UNCERTAIN"}
      /\ row[target] = NoRow
  BY DEF PilotInv, ProcessInv, DurableInv, SubmitAdmit
<1>2. /\ row' = [row EXCEPT ![target] = new] /\ fresh' = fresh \cup {target}
      /\ active' = target /\ pc' = "start" /\ io' = "ok" /\ signal' = "no"
      /\ cancelling' = FALSE /\ gate' = "free" /\ target' = NoRequest
      /\ UNCHANGED <<transcript, ledger, charged, intents, outcomes, late, up, stopping,
                     blocked, dead, owned, lease, kind, exc, seen, calls, interrupted>>
  BY DEF SubmitAdmit, SetRow, Wrote, history
<1>3. /\ new \in Row /\ new.state = "ADMITTED" /\ new.models = 0 /\ new.tools = 0
      /\ NoRow.models = 0 /\ NoRow.tools = 0 /\ ~NoRow.staged
  <2>1. /\ NoRow \in Row /\ NoRow.models = 0 /\ NoRow.tools = 0 /\ ~NoRow.staged
        /\ "ADMITTED" \in States /\ "admitted" \in Phases
    BY DEF Row, States, Phases, NoRow
  <2> QED
    BY <2>1, WroteFields
<1> HIDE DEF new
<1>4. /\ row' \in [Requests -> Row] /\ row'[target] = new
      /\ \A r \in Requests : r # target => row'[r] = row[r]
  BY <1>1, <1>2, <1>3 DEF PilotInv, TypeOK
<1>5. TypeOK'
  BY <1>1, <1>2, <1>4 DEF PilotInv, TypeOK
<1>6. DurableInv'
  <2>1. CompletedIsClean'
    BY <1>1, <1>2, <1>3, <1>4 DEF PilotInv, DurableInv, CompletedIsClean
  <2>2. LedgerAgreement'
    BY <1>1, <1>2, <1>3, <1>4 DEF PilotInv, DurableInv, LedgerAgreement
  <2>3. ASSUME NEW r \in Requests
        PROVE  /\ row'[r].models = row[r].models /\ row'[r].tools = row[r].tools
               /\ ledger[r] = "COMPLETED" => row'[r].staged
               /\ row'[r].state = "ABSENT" => row'[r] = NoRow
    BY <1>1, <1>3, <1>4 DEF PilotInv, DurableInv, LedgerAgreement
  <2> QED
    BY <1>2, <2>1, <2>2, <2>3 DEF PilotInv, DurableInv
<1>7. ProcessInv'
  BY <1>1, <1>2, <1>3, <1>4 DEF ProcessInv, NoSilentOrphan
<1>8. LeaseInv'
  BY <1>1, <1>2, <1>3, <1>4 DEF PilotInv, LeaseInv
<1>9. TurnInv' /\ CallInv'
  BY <1>2 DEF TurnInv, CallInv
<1> QED
  BY <1>5, <1>6, <1>7, <1>8, <1>9 DEF PilotInv

\* A cancelled row keeps what it has counted and staged, and ends only when
\* it was admitted and had made no attempt.
LEMMA CancelledFields ==
    ASSUME TypeOK, NEW r \in Requests
    PROVE  /\ CancelledRow(r) \in Row /\ CancelledRow(r).staged = row[r].staged
           /\ CancelledRow(r).models = row[r].models /\ CancelledRow(r).tools = row[r].tools
           /\ \/ CancelledRow(r).state = row[r].state
              \/ row[r].state = "ADMITTED" /\ CancelledRow(r).state = "CANCELLED"
<1> DEFINE s == IF row[r].state = "ADMITTED" /\ row[r].models = 0 /\ row[r].tools = 0
                THEN "CANCELLED" ELSE row[r].state
<1>1. row[r] \in Row
  BY DEF TypeOK
<1>2. CancelledRow(r) = [row[r] EXCEPT !.cancel = TRUE, !.phase = "cancelled", !.state = s]
  BY DEF CancelledRow
<1>3. s \in States \cup {"ABSENT"} /\ "cancelled" \in Phases
  BY <1>1 DEF Row, States, Phases
<1> HIDE DEF s
<1>4. /\ CancelledRow(r) \in Row /\ CancelledRow(r).staged = row[r].staged
      /\ CancelledRow(r).models = row[r].models /\ CancelledRow(r).tools = row[r].tools
      /\ CancelledRow(r).state = s
  BY <1>1, <1>2, <1>3 DEF Row
<1> QED
  BY <1>4 DEF s

\* A cancel, committed or not, keeps the invariant.
LEMMA CancelRequestStep ==
    ASSUME PilotInv, NEW r \in Requests, NEW commits \in BOOLEAN, CancelRequest(r, commits)
    PROVE  PilotInv'
<1>1. /\ up /\ gate = "free" /\ gate' \in {"free", "cancel"}
      /\ target' \in Requests \cup {NoRequest}
      /\ fresh' \subseteq fresh /\ dead' \subseteq dead \cup {r}
      /\ UNCHANGED <<transcript, ledger, charged, intents, outcomes, late, up, stopping,
                     blocked, owned, lease, task, history>>
  BY DEF PilotInv, TypeOK, CancelRequest
<1>2. /\ row' \in [Requests -> Row]
      /\ \A q \in Requests : q # r => row'[q] = row[q]
      /\ row'[r] = row[r] \/ (row[r].state \in LiveRow /\ row'[r] = CancelledRow(r))
  <2>1. CancelledRow(r) \in Row /\ row \in [Requests -> Row]
    BY CancelledFields DEF PilotInv, TypeOK
  <2>2. \/ row' = row
        \/ row[r].state \in LiveRow /\ row' = [row EXCEPT ![r] = CancelledRow(r)]
    BY DEF CancelRequest, SetRow
  <2> QED
    BY <2>1, <2>2
<1>3. TypeOK'
  BY <1>1, <1>2 DEF PilotInv, TypeOK, task, history
<1>4. ASSUME NEW q \in Requests
      PROVE  /\ row'[q].staged = row[q].staged
             /\ row'[q].models = row[q].models /\ row'[q].tools = row[q].tools
             /\ row'[q].state = row[q].state
                  \/ (row[q].state = "ADMITTED" /\ row'[q].state = "CANCELLED")
             /\ row[q].state \notin LiveRow => row'[q] = row[q]
  BY <1>2, CancelledFields DEF PilotInv
<1>5. DurableInv'
  <2>1. CompletedIsClean'
    BY <1>1, <1>4 DEF PilotInv, DurableInv, CompletedIsClean
  <2>2. LedgerAgreement'
    BY <1>1, <1>4 DEF PilotInv, DurableInv, LedgerAgreement
  <2> QED
    BY <1>1, <1>4, <2>1, <2>2 DEF PilotInv, DurableInv, history
<1>6. ProcessInv'
  BY <1>1, <1>4 DEF PilotInv, ProcessInv, NoSilentOrphan, task
<1>7. LeaseInv'
  BY <1>1, <1>4 DEF PilotInv, LeaseInv, task
<1>8. TurnInv' /\ CallInv'
  <2>1. ~Done => active \in Requests
    BY DEF PilotInv, ProcessInv
  <2> QED
    BY <1>1, <1>4, <2>1 DEF PilotInv, TurnInv, CallInv, ThisCall, task, history
<1> QED
  BY <1>3, <1>5, <1>6, <1>7, <1>8 DEF PilotInv

\* cancel() and stop() revoke the lease and signal the execution.
LEMMA RevokingControl ==
    ASSUME PilotInv, CancelSignal \/ Stop \/ StopSignal PROVE PilotInv'
<1>1. /\ UNCHANGED <<durable, late, up, blocked, target, fresh, dead, lease, active, pc,
                     io, kind, exc, seen, history>>
      /\ owned' = Revoked(lease) /\ up
      /\ stopping' \in BOOLEAN /\ gate' \in {gate, "stop"}
      /\ signal' \in {"no", "cancel", "timeout"} /\ cancelling' \in BOOLEAN
  <2>1. CASE CancelSignal
    BY <2>1 DEF PilotInv, TypeOK, ProcessInv, CancelSignal, service
  <2>2. CASE Stop
    BY <2>2 DEF PilotInv, TypeOK, Stop, task
  <2>3. CASE StopSignal
    BY <2>3 DEF PilotInv, TypeOK, ProcessInv, StopSignal
  <2> QED
    BY <2>1, <2>2, <2>3
<1>2. TypeOK'
  <2>1. TypeOK
    BY DEF PilotInv
  <2>2. owned' \in [Requests -> LeaseStates]
    BY <1>1, <2>1, RevokedType DEF TypeOK
  <2> QED
    BY <1>1, <2>1, <2>2 DEF TypeOK, durable, history
<1>3. ProcessInv'
  BY <1>1 DEF PilotInv, ProcessInv, NoSilentOrphan, durable
<1>4. LeaseInv'
  BY <1>1 DEF PilotInv, TypeOK, ProcessInv, LeaseInv, Revoked, durable
<1> QED
  BY <1>1, <1>2, <1>3, <1>4, OutsideStep DEF history

(***************************************************************************)
(* The theorems.                                                            *)
(***************************************************************************)

\* Every step of the program keeps the invariant.
LEMMA NextStep ==
    ASSUME PilotInv, [Next]_vars PROVE PilotInv'
<1>1. CASE Worker
  BY <1>1, ClaimWorkerStep, ReserveWorkerStep, MarkWorkerStep, RunningWorkerStep,
     AttemptWorkerStep, QuotaWorkerStep, IntentWorkerStep, OutcomeWorkerStep,
     StageWorkerStep, FinishWorkerStep, CommitWorkerStep, RefundWorkerStep,
     DisposeWorkerStep, WorkerFailsStep DEF Worker
<1>2. CASE Coroutine
  BY <1>2, PerformStartStep, ClaimResumeStep, ReserveResumeStep, MarkResumeStep,
     RunningResumeStep, BeginCallStep, AttemptResumeStep, QuotaResumeStep,
     IntentResumeStep, AnsweredStep, OutcomeResumeStep, TurnCompletesStep,
     StageResumeStep, FinishResumeStep, CommitResumeStep, RaisingSteps,
     InterruptStep, InspectStep, InspectFailsStep, RefundResumeStep,
     DisposeResumeStep, InterruptHandlerStep DEF Coroutine
<1>3. CASE Control
  BY <1>3, StartStep, ProcessEnds, ExpireOrTimeout, SubmitCheckStep,
     SubmitAdmitStep, SubmitFailsStep, CancelRequestStep, RevokingControl DEF Control
<1>4. CASE UNCHANGED vars
  <2>1. TypeOK'
    BY <1>4 DEF vars, durable, service, tables, task, history, PilotInv, TypeOK
  <2>2. DurableInv'
    BY <1>4 DEF vars, durable, history, PilotInv, DurableInv, CompletedIsClean,
       LedgerAgreement
  <2>3. ProcessInv' /\ LeaseInv'
    BY <1>4 DEF vars, durable, service, tables, task, PilotInv, ProcessInv, LeaseInv,
       NoSilentOrphan
  <2>4. TurnInv' /\ CallInv'
    BY <1>4 DEF vars, durable, task, history, PilotInv, TurnInv, CallInv, ThisCall
  <2> QED
    BY <2>1, <2>2, <2>3, <2>4 DEF PilotInv
<1> QED
  BY <1>1, <1>2, <1>3, <1>4 DEF Next, Execution

\* The invariant holds initially.
LEMMA InitPilot ==
    ASSUME Init PROVE PilotInv
<1>1. TypeOK
  <2>1. NoRow \in Row
    BY DEF Row, NoRow, States, Phases
  <2>2. row \in [Requests -> Row] /\ owned \in [Requests -> LeaseStates]
    BY <2>1 DEF Init, LeaseStates
  <2>3. charged \in [Requests -> 0 .. MaxModelCalls]
    BY DEF Init
  <2>4. ledger \in [Requests -> {"ABSENT", "RESERVED", "RUNNING", "COMPLETED", "FAILED"}]
    BY DEF Init
  <2> QED
    BY <2>2, <2>3, <2>4 DEF Init, TypeOK
<1>2. DurableInv
  <2>1. ASSUME NEW r \in Requests PROVE NumStarted(calls, r) = 0
    <3>1. Started(calls, r) = {}
      BY DEF Init, Started
    <3> QED
      BY <3>1, FS_EmptySet DEF NumStarted
  <2>2. CompletedIsClean /\ LedgerAgreement
    BY DEF Init, NoRow, CompletedIsClean, LedgerAgreement
  <2> QED
    BY <2>1, <2>2 DEF Init, NoRow, DurableInv
<1>3. ProcessInv
  BY DEF Init, NoRow, ProcessInv, NoSilentOrphan
<1>4. LeaseInv /\ TurnInv /\ CallInv
  BY DEF Init, LeaseInv, TurnInv, CallInv
<1> QED
  BY <1>1, <1>2, <1>3, <1>4 DEF PilotInv

\* The inductive invariant of the owner turn.
THEOREM PilotInvariant == Safety => []PilotInv
  BY InitPilot, NextStep, PTL DEF Safety

\* Exactly the COMPLETED turns are published, uncancelled, with a COMPLETED
\* quota request and every call settled (commit_turn after finish_request).
THEOREM CompletedIsCleanHolds == Safety => []CompletedIsClean
<1>1. PilotInv => CompletedIsClean
  BY DEF PilotInv, DurableInv
<1> QED
  BY <1>1, PilotInvariant, PTL

\* The quota ledger and the pilot row never end a turn in contradiction,
\* although they commit separately and either commit may be the last.
THEOREM LedgerAgreementHolds == Safety => []LedgerAgreement
<1>1. PilotInv => LedgerAgreement
  BY DEF PilotInv, DurableInv
<1> QED
  BY <1>1, PilotInvariant, PTL

\* A live row belongs to the execution or the service has blocked itself
\* (_execute's except clause), and there is never a second live row.
THEOREM NoSilentOrphanHolds == Safety => []NoSilentOrphan
<1>1. PilotInv => NoSilentOrphan
  BY DEF PilotInv, ProcessInv
<1> QED
  BY <1>1, PilotInvariant, PTL

\* Every started call has its intent, every outcome its call, at most one call
\* is open over all restarts, and no turn starts more calls than it has paid.
THEOREM CallsAccountedHolds == Safety => []CallsAccounted
<1>1. PilotInv => CallsAccounted
  BY DEF PilotInv, DurableInv, CallsAccounted, NumStarted, Started
<1> QED
  BY <1>1, PilotInvariant, PTL

\* A row appears only by admit, after submit's checks under the gate.
THEOREM AdmissionCleanHolds == Safety => AdmissionClean
<1> DEFINE A == \A r \in Requests : row[r].state = "ABSENT" /\ row'[r].state # "ABSENT" =>
                    /\ Pending = {}
                    /\ \A s \in Requests :
                           row[s].state \in {"ABSENT", "COMPLETED", "FAILED", "DENIED",
                                             "CANCELLED"}
<1>1. ASSUME PilotInv, [Next]_vars PROVE A
  <2> SUFFICES ASSUME NEW r \in Requests, row[r].state = "ABSENT", row'[r].state # "ABSENT"
               PROVE  SubmitAdmit
    <3>1. ASSUME SubmitAdmit
          PROVE  /\ Pending = {}
                 /\ \A s \in Requests : row[s].state \notin LiveRow \cup {"UNCERTAIN"}
      BY <1>1, <3>1 DEF PilotInv, ProcessInv, SubmitAdmit
    <3>2. \A s \in Requests : row[s].state \in States \cup {"ABSENT"}
      BY <1>1 DEF PilotInv, TypeOK, Row
    <3> QED
      BY <3>1, <3>2 DEF States
  <2>1. CASE Worker
    <3>1. row' # row => /\ active \in Requests /\ row[active].state # "ABSENT"
                        /\ \E new : row' = [row EXCEPT ![active] = new]
      BY <1>1, <2>1 DEF PilotInv, ProcessInv, Worker, SetRow, ClaimWorker,
         ReserveWorker, MarkWorker,
         RunningWorker, AttemptWorker, QuotaWorker, IntentWorker, OutcomeWorker,
         StageWorker, FinishWorker, CommitWorker, RefundWorker, DisposeWorker, WorkerFails
    <3> QED
      BY <1>1, <3>1 DEF PilotInv, TypeOK
  <2>2. CASE Coroutine
    <3>1. UNCHANGED row
      BY <2>2 DEF Coroutine, LoopFrame, durable, PerformStart, ClaimResume,
         ReserveResume,
         MarkResume, RunningResume, BeginCall, AttemptResume, QuotaResume, IntentResume,
         Answered, CallFails, OutcomeResume, TurnFails, TurnCompletes, StageResume,
         FinishResume, CommitResume, WorkerRaises, CheckFails, Interrupt, Inspect,
         InspectFails, RefundResume, DisposeResume, InterruptHandler
    <3> QED
      BY <3>1
  <2>3. CASE Control
    <3>1. CASE Start
      BY <3>1 DEF Start, Recovered, Interrupted
    <3>2. CASE \E q \in Requests, commits \in BOOLEAN : CancelRequest(q, commits)
      BY <1>1, <3>2 DEF CancelRequest, SetRow, PilotInv, TypeOK
    <3>3. CASE Control /\ ~Start /\ ~SubmitAdmit
               /\ ~\E q \in Requests, commits \in BOOLEAN : CancelRequest(q, commits)
      BY <3>3 DEF Control, durable, Crash, Expire, SubmitCheck, SubmitFails,
         CancelSignal,
         CancelReturn, Stop, StopSignal, StopClose, TimeoutFires
    <3> QED
      BY <2>3, <3>1, <3>2, <3>3
  <2>4. CASE UNCHANGED vars
    BY <2>4 DEF vars, durable
  <2> QED
    BY <1>1, <2>1, <2>2, <2>3, <2>4 DEF Next, Execution
<1>2. [][A]_vars => AdmissionClean
  BY DEF AdmissionClean
<1> QED
  BY <1>1, <1>2, PilotInvariant, PTL DEF Safety

\* No call starts and nothing is published past a cancellation or stop(),
\* and no call past the deadline or without its running quota request.
THEOREM FencesHold == Safety => Fences
<1> DEFINE D == \A c \in calls' \ calls :
                    /\ row[c[1]].state = "RUNNING" /\ ~row[c[1]].cancel
                    /\ c[1] \notin late /\ ~stopping
                    /\ ledger[c[1]] = "RUNNING"
                    /\ Pending = {c}
           P == \A r \in transcript' \ transcript : ~stopping /\ ~row[r].cancel
<1>1. ASSUME PilotInv, [Next]_vars PROVE D
  <2> SUFFICES ASSUME NEW c \in calls' \ calls
               PROVE  /\ row[c[1]].state = "RUNNING" /\ ~row[c[1]].cancel
                      /\ c[1] \notin late /\ ~stopping
                      /\ ledger[c[1]] = "RUNNING"
                      /\ Pending = {c}
    OBVIOUS
  <2>1. IntentResume
    <3>1. CASE Worker
      BY <3>1 DEF Worker, WorkerFrame, history, ClaimWorker, ReserveWorker, MarkWorker,
         RunningWorker, AttemptWorker, QuotaWorker, IntentWorker, OutcomeWorker,
         StageWorker, FinishWorker, CommitWorker, RefundWorker, DisposeWorker, WorkerFails
    <3>2. CASE Coroutine
      BY <3>2 DEF Coroutine, history, PerformStart, ClaimResume, ReserveResume,
         MarkResume, RunningResume, BeginCall, AttemptResume, QuotaResume,
         Answered, CallFails, OutcomeResume, TurnFails, TurnCompletes, StageResume,
         FinishResume, CommitResume, WorkerRaises, CheckFails, Interrupt, Inspect,
         InspectFails, RefundResume, DisposeResume, InterruptHandler
    <3>3. CASE Control
      BY <3>3 DEF Control, history, Start, CancelRequest, SubmitAdmit, Crash, Expire,
         SubmitCheck, SubmitFails, CancelSignal, CancelReturn, Stop, StopSignal, StopClose,
         TimeoutFires
    <3>4. CASE UNCHANGED vars
      BY <3>4 DEF vars, history
    <3> QED
      BY <1>1, <3>1, <3>2, <3>3, <3>4 DEF Next, Execution
  <2>2. Active(active) /\ c = ThisCall /\ pc = "intent" /\ io = "ok"
    BY <2>1 DEF IntentResume, Resumes
  <2>3. c[1] = active /\ active \in Requests
    BY <1>1, <2>2 DEF ThisCall, PilotInv, ProcessInv
  <2>4. /\ row[active].state = "RUNNING" /\ ~row[active].cancel /\ active \notin late
        /\ owned[active] = "RUNNING"
    BY <2>2 DEF Active, Owns
  <2>5. ~stopping /\ ledger[active] = "RUNNING"
    BY <1>1, <2>2, <2>4 DEF PilotInv, LeaseInv, TurnInv
  <2>6. Pending = {c}
    <3>1. c \in intents /\ c \notin outcomes
      BY <1>1, <2>2 DEF PilotInv, CallInv, DurableInv
    <3>2. \A x, y \in Pending : x = y
      BY <1>1 DEF PilotInv, DurableInv
    <3> QED
      BY <3>1, <3>2
  <2> QED
    BY <2>3, <2>4, <2>5, <2>6
<1>2. ASSUME [Next]_vars PROVE P
  <2> SUFFICES ASSUME NEW r \in transcript' \ transcript PROVE ~stopping /\ ~row[r].cancel
    OBVIOUS
  <2>1. CommitWorker
    <3>1. CASE Worker
      BY <3>1 DEF Worker, ClaimWorker, ReserveWorker, MarkWorker,
         RunningWorker, AttemptWorker, QuotaWorker, IntentWorker, OutcomeWorker,
         StageWorker, FinishWorker, RefundWorker, DisposeWorker, WorkerFails
    <3>2. CASE Coroutine
      BY <3>2 DEF Coroutine, LoopFrame, durable, PerformStart, ClaimResume,
         ReserveResume,
         MarkResume, RunningResume, BeginCall, AttemptResume, QuotaResume, IntentResume,
         Answered, CallFails, OutcomeResume, TurnFails, TurnCompletes, StageResume,
         FinishResume, CommitResume, WorkerRaises, CheckFails, Interrupt, Inspect,
         InspectFails, RefundResume, DisposeResume, InterruptHandler
    <3>3. CASE Control
      BY <3>3 DEF Control, durable, Start, CancelRequest, SubmitAdmit, Crash, Expire,
         SubmitCheck, SubmitFails, CancelSignal, CancelReturn, Stop, StopSignal, StopClose,
         TimeoutFires
    <3>4. CASE UNCHANGED vars
      BY <3>4 DEF vars, durable
    <3> QED
      BY <1>2, <3>1, <3>2, <3>3, <3>4 DEF Next, Execution
  <2> QED
    BY <2>1 DEF CommitWorker, LiveTurn, Uncancelled, PublicationOpen
<1>3. [][D]_vars /\ [][P]_vars => Fences
  BY DEF Fences, DispatchGate, PublicationFence
<1> QED
  BY <1>1, <1>2, <1>3, PilotInvariant, PTL DEF Safety
=============================================================================
