------------------------- MODULE Governance_proofs --------------------------
(***************************************************************************)
(* Theorems about the governance engine for any number of concurrent calls, *)
(* agents and proposals, any quorums, ratings and lifetimes.                *)
(***************************************************************************)
EXTENDS Governance, FiniteSetTheorems, TLAPS

-----------------------------------------------------------------------------
(* Sums and scores.                                                        *)

\* A sum over a finite set is a natural number, at most Full for each element.
LEMMA TotalType ==
  ASSUME NEW f, IsFiniteSet(DOMAIN f)
  PROVE  Total(f) \in Nat /\ Total(f) <= Cardinality(DOMAIN f) * Full
<1> DEFINE D == DOMAIN f
           P == D \X (1..Full)
           U == {u \in P : u[2] <= f[u[1]]}
<1>f. Full \in Nat /\ Full >= 1
  BY GovernanceAssumption
<1>1. IsFiniteSet(1..Full) /\ Cardinality(1..Full) = Full
  BY <1>f, FS_Interval
<1>2. IsFiniteSet(P) /\ Cardinality(P) = Cardinality(D) * Full
  <2> HIDE DEF D
  <2>1. IsFiniteSet(D)
    BY DEF D
  <2> QED
    BY <2>1, <1>1, FS_Product
<1>3. U \subseteq P
  OBVIOUS
<1>t. Total(f) = Cardinality(U)
  BY DEF Total
<1> HIDE DEF U, P
<1>4. IsFiniteSet(U) /\ Cardinality(U) <= Cardinality(P)
  BY <1>2, <1>3, FS_Subset
<1>5. Cardinality(U) \in Nat
  BY <1>4, FS_CardinalityType
<1> QED
  BY <1>2, <1>4, <1>5, <1>t

\* The weight of a decision is a natural number, and zero without ballots.
LEMMA WeightType ==
  ASSUME NEW b, NEW d
  PROVE  /\ Weight(b, d) \in Nat
         /\ (\A v \in Voters : b[v] = None) => Weight(b, d) = 0
<1> DEFINE S == {w \in Voters : b[w] # None /\ b[w].decision = d}
           f == [v \in S |-> b[v].weight]
<1>1. IsFiniteSet(Voters)
  <2>1. IsFiniteSet({"user"}) /\ IsFiniteSet({"butler"})
    BY FS_Singleton
  <2>2. IsFiniteSet({"user"} \cup {"butler"})
    BY <2>1, FS_Union
  <2>3. {"user"} \cup {"butler"} = Trusted
    BY DEF Trusted
  <2> QED
    BY <2>2, <2>3, FS_Union, GovernanceAssumption DEF Voters
<1>2. S \subseteq Voters /\ DOMAIN f = S
  OBVIOUS
<1>3. Weight(b, d) = Total(f)
  BY DEF Weight
<1>4. IsFiniteSet(DOMAIN f)
  <2> HIDE DEF S, f
  <2> QED
    BY <1>1, <1>2, FS_Subset
<1>5. ASSUME \A v \in Voters : b[v] = None PROVE Total(f) = 0
  <2>1. S = {}
    BY <1>5
  <2>2. {u \in (DOMAIN f) \X (1..Full) : u[2] <= f[u[1]]} = {}
    BY <2>1, <1>2
  <2> QED
    BY <2>2, FS_EmptySet DEF Total
<1> HIDE DEF f, S
<1> QED
  BY <1>3, <1>4, <1>5, TotalType

\* A quotient is bounded as its dividend is.
LEMMA QuotientBound ==
  ASSUME NEW a \in Nat, NEW b \in Nat, b > 0, NEW c \in Nat, a <= b * c
  PROVE  a \div b \in 0..c
<1> DEFINE q == a \div b
           r == a % b
<1>1. q \in Int /\ r \in Int /\ a = b * q + r /\ 0 <= r /\ r < b
  OBVIOUS
<1> HIDE DEF q, r
<1>2. q >= 0
  <2> SUFFICES ASSUME q <= -1 PROVE FALSE
    BY <1>1
  <2>1. b * q <= b * (-1)
    BY <1>1
  <2> QED
    BY <1>1, <2>1
<1>3. q <= c
  <2> SUFFICES ASSUME q >= c + 1 PROVE FALSE
    BY <1>1
  <2>1. b * q >= b * (c + 1)
    BY <1>1
  <2>2. b * (c + 1) = b * c + b
    OBVIOUS
  <2>3. b * c \in Int /\ b * q \in Int
    BY <1>1
  <2> QED
    BY <1>1, <2>1, <2>2, <2>3
<1> QED
  BY <1>1, <1>2, <1>3 DEF q

Reputation == [done : Nat, failed : Nat, ratings : Seq(Ratings)]

\* No agent's score exceeds 1.0, the weight of the user.
LEMMA ScoreBound ==
  ASSUME NEW r \in Reputation
  PROVE  compute_score(r) \in 0..Full
<1>f. Full \in Nat /\ Full >= 1
  BY GovernanceAssumption
<1>n. r.done \in Nat /\ r.failed \in Nat /\ r.ratings \in Seq(Ratings) /\ Len(r.ratings) \in Nat
  BY DEF Reputation
<1>1. ASSUME r.ratings # <<>> PROVE Average(r.ratings) \in 0..Full
  <2> DEFINE n == Len(r.ratings)
  <2>1. n \in Nat /\ n > 0 /\ DOMAIN r.ratings = 1..n
    BY <1>1, <1>n
  <2>2. IsFiniteSet(1..n) /\ Cardinality(1..n) = n
    BY <2>1, FS_Interval
  <2>3. Total(r.ratings) \in Nat /\ Total(r.ratings) <= n * Full
    BY <2>1, <2>2, TotalType
  <2> HIDE DEF n
  <2>4. Total(r.ratings) \div n \in 0..Full
    BY <2>1, <2>3, <1>f, QuotientBound
  <2> QED
    BY <2>4 DEF Average, n
<1>2. ASSUME r.done + r.failed > 0 PROVE SuccessRate(r) \in 0..Full
  <2> DEFINE a == Full * r.done
             b == r.done + r.failed
  <2>1. a \in Nat /\ b \in Nat /\ b > 0
    BY <1>2, <1>n, <1>f
  <2>2. a <= b * Full
    <3>1. b * Full = a + Full * r.failed
      BY <1>n, <1>f
    <3>2. Full * r.failed >= 0
      BY <1>n, <1>f
    <3> QED
      BY <3>1, <3>2, <2>1, <1>n, <1>f
  <2>3. SuccessRate(r) = a \div b
    BY DEF SuccessRate
  <2> HIDE DEF a, b
  <2> QED
    BY <2>1, <2>2, <2>3, <1>f, QuotientBound
<1>3. \A x, y \in 0..Full : (6 * x + 4 * y) \div 10 \in 0..Full
  BY <1>f
<1>4. Full \div 2 \in 0..Full
  BY <1>f
<1>5. CASE r.done + r.failed = 0 /\ r.ratings = <<>>
  BY <1>4, <1>5 DEF compute_score
<1>6. CASE r.done + r.failed = 0 /\ r.ratings # <<>>
  BY <1>1, <1>6 DEF compute_score
<1>7. CASE r.done + r.failed > 0 /\ r.ratings = <<>>
  BY <1>2, <1>7, <1>n DEF compute_score
<1>8. CASE r.done + r.failed > 0 /\ r.ratings # <<>>
  <2>1. compute_score(r) = (6 * SuccessRate(r) + 4 * Average(r.ratings)) \div 10
    BY <1>8, <1>n DEF compute_score
  <2> QED
    BY <1>1, <1>2, <1>3, <1>8, <2>1
<1> QED
  BY <1>5, <1>6, <1>7, <1>8, <1>n

\* The tally of _meets_quorum_locked is what a quorum is: with a positive quorum
\* somebody has to approve.
LEMMA MeetsIsQuorum ==
  ASSUME NEW b, NEW q \in 1..100
  PROVE  Meets(b, q) <=>
           /\ Weight(b, "approve") > 0
           /\ q * (Weight(b, "approve") + Weight(b, "deny")) <= 100 * Weight(b, "approve")
<1> DEFINE yes == Weight(b, "approve")
           no == Weight(b, "deny")
<1>1. yes \in Nat /\ no \in Nat
  BY WeightType
<1>2. Meets(b, q) <=> yes + no > 0 /\ 100 * yes >= q * (yes + no)
  BY DEF Meets
<1> HIDE DEF yes, no
<1>3. q * (yes + no) \in Nat /\ q * (yes + no) >= yes + no
  BY <1>1
<1>4. Meets(b, q) <=> yes > 0 /\ q * (yes + no) <= 100 * yes
  BY <1>1, <1>2, <1>3
<1> QED
  BY <1>4 DEF yes, no

-----------------------------------------------------------------------------
(* The inductive invariant: what a suspended call may rely on.              *)

Decided == {"passed", "denied", "expired"}

\* Opposite verdicts.
Contradict(x, y) == {x, y} = {"passed", "denied"}

\* What holds of a call with record c at stage x, whatever ran while it waited:
\* a submission waits for a proposal that does not exist yet, all others work on
\* one that does; a call that will tell the backend of a resolution knows that it
\* was made, and the copy it tells is still the tally.
Know(x, c) ==
    /\ x = "idle" => c = Idle
    /\ x # "idle" => c.prop \in Proposals /\ c.op # "none"
    /\ x # "idle" /\ c.op = "vote" => c.voter \in Voters
    /\ x = "queued" /\ c.op = "submit" => status[c.prop] = "none"
    /\ x # "idle" /\ ~(x = "queued" /\ c.op = "submit") => status[c.prop] # "none"
    /\ x = "mirror_vote" /\ c.seen # "open" => status[c.prop] \in Decided
    /\ x = "snapshot" => status[c.prop] \in Decided
    /\ x = "mirror_resolution" =>
          /\ c.seen \in Decided
          /\ status[c.prop] \in {c.seen, "expired"}
          /\ c.approve = Weight(votes[c.prop], "approve")
          /\ c.deny = Weight(votes[c.prop], "deny")

CallsKnow == \A t \in Tasks : Know(pc[t], call[t])

\* A proposal is submitted by one call only.
SubmittedOnce ==
    \A t, u \in Tasks : t # u /\ call[t].op = "submit" /\ call[u].op = "submit"
                        => call[t].prop # call[u].prop

\* Neither two pending copies nor a pending copy and the backend contradict.
CopiesAgree ==
    \A t \in Tasks : pc[t] = "mirror_resolution" =>
        /\ \A u \in Tasks : pc[u] = "mirror_resolution" /\ call[u].prop = call[t].prop
                            => ~Contradict(call[u].seen, call[t].seen)
        /\ \A r \in mirror : r.prop = call[t].prop => ~Contradict(r.resolution, call[t].seen)

\* Nobody has voted on a proposal that does not exist.
Unvoted == \A p \in Proposals : status[p] = "none" => \A v \in Voters : votes[p][v] = None

GovInv ==
    /\ TypeOK
    /\ CallsKnow /\ SubmittedOnce /\ CopiesAgree /\ Unvoted
    /\ VerdictSound /\ MirrorAgrees

\* How a step may change proposal p: ballots only while it is open, and its
\* status from none to open, from open to a verdict, from a verdict to expired.
Legal(p) ==
    \/ status'[p] = status[p] /\ votes'[p] = votes[p]
    \/ status[p] = "none" /\ status'[p] = "open" /\ votes'[p] = votes[p]
    \/ status[p] = "open" /\ status'[p] \in {"open", "passed", "denied", "expired"}
    \/ status[p] \in Decided /\ status'[p] = "expired" /\ votes'[p] = votes[p]

\* A legal change invalidates nothing that another call knows.
LEMMA OthersKnow ==
  ASSUME NEW x \in Stages, NEW c, Know(x, c), \A p \in Proposals : Legal(p),
         x = "queued" /\ c.op = "submit" => status'[c.prop] = "none"
  PROVE  Know(x, c)'
<1>1. CASE x = "idle"
  BY <1>1 DEF Know
<1>2. CASE x # "idle"
  <2>1. c.prop \in Proposals
    BY <1>2 DEF Know
  <2>2. Legal(c.prop)
    BY <2>1
  <2> QED
    BY <1>2, <2>1, <2>2 DEF Know, Legal, Decided
<1> QED
  BY <1>1, <1>2

\* The step of one call that neither decides nor mirrors: it suffices to look at
\* that call.
LEMMA CallOnly ==
  ASSUME GovInv, TypeOK', UNCHANGED <<propVars, mirror>>,
         NEW t \in Tasks, NEW x \in Stages, NEW c,
         pc' = [pc EXCEPT ![t] = x], call' = [call EXCEPT ![t] = c], Know(x, c),
         x # "mirror_resolution",
         c.op = "submit" => \A u \in Tasks \ {t} : call[u].op = "submit" => call[u].prop # c.prop
  PROVE  GovInv' /\ \A p \in Proposals : Legal(p)
<1>1. UNCHANGED <<status, votes, quorum, expires, mirror>>
  BY DEF propVars
<1>t. pc \in [Tasks -> Stages] /\ DOMAIN call = Tasks /\ call = [u \in Tasks |-> call[u]]
  BY DEF GovInv, TypeOK
<1>2. \A p \in Proposals : Legal(p)
  BY <1>1 DEF Legal
<1>3. CallsKnow'
  <2> SUFFICES ASSUME NEW u \in Tasks PROVE Know(pc[u], call[u])'
    BY DEF CallsKnow
  <2>1. CASE u = t
    <3>1. pc'[u] = x /\ call'[u] = c
      BY <2>1, <1>t
    <3> QED
      BY <3>1, <1>1 DEF Know
  <2>2. CASE u # t
    <3>1. pc'[u] = pc[u] /\ call'[u] = call[u]
      BY <2>2, <1>t
    <3>2. Know(pc[u], call[u])
      BY DEF GovInv, CallsKnow
    <3> QED
      BY <3>1, <3>2, <1>1 DEF Know
  <2> QED
    BY <2>1, <2>2
<1>4. SubmittedOnce'
  BY <1>t DEF GovInv, SubmittedOnce
<1>5. CopiesAgree'
  BY <1>1, <1>t DEF GovInv, CopiesAgree
<1>6. Unvoted' /\ VerdictSound' /\ MirrorAgrees'
  BY <1>1 DEF GovInv, Unvoted, VerdictSound, UserSays, HasQuorum, MirrorAgrees
<1> QED
  BY <1>2, <1>3, <1>4, <1>5, <1>6 DEF GovInv

\* The step of one call that changes a proposal, or copies it, under the lock.
LEMMA LockedStep ==
  ASSUME GovInv, TypeOK', UNCHANGED mirror, Unvoted', VerdictSound',
         \A p \in Proposals : Legal(p),
         NEW t \in Tasks, NEW x \in Stages, NEW c,
         pc' = [pc EXCEPT ![t] = x], call' = [call EXCEPT ![t] = c], Know(x, c)',
         c.op = call[t].op, c.prop = call[t].prop,
         x = "mirror_resolution" => c.seen = status'[c.prop],
         \A u \in Tasks \ {t} : pc[u] = "queued" /\ call[u].op = "submit"
                                => status'[call[u].prop] = "none"
  PROVE  GovInv'
<1>t. /\ pc \in [Tasks -> Stages] /\ call = [u \in Tasks |-> call[u]]
      /\ mirror \subseteq [prop : Proposals, resolution : Status, approve : Nat, deny : Nat]
  BY DEF GovInv, TypeOK
<1>1. pc'[t] = x /\ call'[t] = c
  BY <1>t
<1>2. \A u \in Tasks \ {t} : pc'[u] = pc[u] /\ call'[u] = call[u]
  BY <1>t
<1>3. CallsKnow'
  <2> SUFFICES ASSUME NEW u \in Tasks PROVE Know(pc[u], call[u])'
    BY DEF CallsKnow
  <2>1. CASE u = t
    BY <2>1, <1>1 DEF Know
  <2>2. CASE u # t
    <3>1. Know(pc[u], call[u]) /\ pc[u] \in Stages
      BY <1>t DEF GovInv, CallsKnow
    <3> DEFINE y == pc[u]
               d == call[u]
    <3>2. y = "queued" /\ d.op = "submit" => status'[d.prop] = "none"
      BY <2>2
    <3>3. \A z \in Stages : \A e :
              Know(z, e) /\ (z = "queued" /\ e.op = "submit" => status'[e.prop] = "none")
                => Know(z, e)'
      BY OthersKnow
    <3>4. pc'[u] = y /\ call'[u] = d
      BY <2>2, <1>2
    <3>5. y \in Stages /\ Know(y, d)
      BY <3>1
    <3> HIDE DEF y, d
    <3>6. \A z, e : Know(z, e)' /\ pc'[u] = z /\ call'[u] = e => Know(pc[u], call[u])'
      BY DEF Know
    <3> QED
      BY <3>2, <3>3, <3>4, <3>5, <3>6
  <2> QED
    BY <2>1, <2>2
<1>4. SubmittedOnce'
  BY <1>1, <1>2 DEF GovInv, SubmittedOnce
<1>5. MirrorAgrees'
  <2> SUFFICES ASSUME NEW r \in mirror
               PROVE  /\ r.approve = Weight(votes'[r.prop], "approve")
                      /\ r.deny = Weight(votes'[r.prop], "deny")
                      /\ r.resolution \in {"passed", "denied", "expired"}
                      /\ status'[r.prop] \in {r.resolution, "expired"}
                      /\ \A s \in mirror : s.prop = r.prop =>
                            {s.resolution, r.resolution} # {"passed", "denied"}
    BY DEF MirrorAgrees
  <2>1. /\ r.approve = Weight(votes[r.prop], "approve")
        /\ r.deny = Weight(votes[r.prop], "deny")
        /\ r.resolution \in {"passed", "denied", "expired"}
        /\ status[r.prop] \in {r.resolution, "expired"}
        /\ \A s \in mirror : s.prop = r.prop =>
              {s.resolution, r.resolution} # {"passed", "denied"}
    BY DEF GovInv, MirrorAgrees
  <2>2. Legal(r.prop)
    BY <1>t
  <2>3. votes'[r.prop] = votes[r.prop] /\ status'[r.prop] \in {status[r.prop], "expired"}
    BY <2>1, <2>2 DEF Legal
  <2> QED
    BY <2>1, <2>3
<1>6. CopiesAgree'
  <2>1. \A u \in Tasks : pc'[u] = "mirror_resolution" =>
          status'[call'[u].prop] \in {call'[u].seen, "expired"}
    BY <1>3 DEF CallsKnow, Know
  <2>2. \A r \in mirror : status'[r.prop] \in {r.resolution, "expired"}
    BY <1>5 DEF MirrorAgrees
  <2>3. ASSUME NEW u \in Tasks, pc'[u] = "mirror_resolution",
               NEW w \in Tasks, pc'[w] = "mirror_resolution", call'[w].prop = call'[u].prop
        PROVE  ~Contradict(call'[w].seen, call'[u].seen)
    <3>1. CASE u # t /\ w # t
      BY <2>3, <3>1, <1>2 DEF GovInv, CopiesAgree
    <3>2. CASE u = t \/ w = t
      BY <2>1, <2>3, <3>2, <1>1 DEF Contradict
    <3> QED
      BY <3>1, <3>2
  <2>4. ASSUME NEW u \in Tasks, pc'[u] = "mirror_resolution",
               NEW r \in mirror, r.prop = call'[u].prop
        PROVE  ~Contradict(r.resolution, call'[u].seen)
    <3>1. CASE u # t
      BY <2>4, <3>1, <1>2 DEF GovInv, CopiesAgree
    <3>2. CASE u = t
      BY SMTT(30), <2>2, <2>4, <3>2, <1>1 DEF Contradict
    <3> QED
      BY <3>1, <3>2
  <2> QED
    BY <2>3, <2>4 DEF CopiesAgree
<1> QED
  BY <1>3, <1>4, <1>5, <1>6 DEF GovInv

\* The verdict on every proposal but one stands when only that one changes.
LEMMA OneVerdict ==
  ASSUME GovInv, NEW p \in Proposals, UNCHANGED quorum,
         \A q \in Proposals \ {p} : status'[q] = status[q] /\ votes'[q] = votes[q],
         status'[p] # "none",
         status'[p] = "passed" => (UserSays(p, "approve") \/ HasQuorum(p))',
         status'[p] = "denied" => (UserSays(p, "deny") \/ ~HasQuorum(p))',
         status'[p] = "open" => (/\ ~UserSays(p, "approve") /\ ~UserSays(p, "deny")
                                 /\ ~HasQuorum(p))'
  PROVE  VerdictSound' /\ Unvoted'
<1>1. VerdictSound'
  <2> SUFFICES ASSUME NEW q \in Proposals, q # p
               PROVE /\ status'[q] = "passed" => (UserSays(q, "approve") \/ HasQuorum(q))'
                     /\ status'[q] = "denied" => (UserSays(q, "deny") \/ ~HasQuorum(q))'
                     /\ status'[q] = "open" => (/\ ~UserSays(q, "approve") /\ ~UserSays(q, "deny")
                                                /\ ~HasQuorum(q))'
    BY DEF VerdictSound
  <2> QED
    BY DEF GovInv, VerdictSound, UserSays, HasQuorum
<1>2. Unvoted'
  BY DEF GovInv, Unvoted
<1> QED
  BY <1>1, <1>2

CallRecord == [op : Ops, prop : Proposals \cup {None}, voter : Voters \cup {None},
               decision : Decisions, weight : 0..Full, seen : Status,
               approve : Nat, deny : Nat]

\* A call that does nothing is a call record.
LEMMA IdleType == Idle \in CallRecord
  BY GovernanceAssumption DEF Idle, CallRecord, Ops, Decisions, Status

\* Only records of updates and of the clock change in these steps.
LEMMA ReputationStep ==
  ASSUME GovInv,
         (\E a \in Agents : RecordTaskCompletion(a) \/ SubmitPeerRating(a)) \/ Tick
  PROVE  GovInv' /\ \A p \in Proposals : Legal(p)
<1>1. UNCHANGED <<status, quorum, expires, votes, lock, pc, call, mirror>>
  BY DEF RecordTaskCompletion, SubmitPeerRating, Record, Tick, propVars, callVars
<1>2. TypeOK
  BY DEF GovInv
<1>3. now' \in Nat
  BY <1>2 DEF RecordTaskCompletion, SubmitPeerRating, Record, Tick, TypeOK
<1>4. /\ rep' \in [Agents -> [done : Nat, failed : Nat, ratings : Seq(Ratings)]]
      /\ \A a \in Agents : Len(rep'[a].ratings) <= Window
  <2>1. CASE Tick
    BY <2>1, <1>2 DEF Tick, repVars, TypeOK
  <2>2. ASSUME NEW a \in Agents, NEW r \in Reputation, Len(r.ratings) <= Window,
               rep' = [rep EXCEPT ![a] = r]
        PROVE  /\ rep' \in [Agents -> [done : Nat, failed : Nat, ratings : Seq(Ratings)]]
               /\ \A b \in Agents : Len(rep'[b].ratings) <= Window
    BY <2>2, <1>2 DEF TypeOK, Reputation
  <2>3. ASSUME NEW a \in Agents, NEW x \in Ratings
        PROVE  Rated(rep[a], x) \in Seq(Ratings) /\ Len(Rated(rep[a], x)) <= Window
    <3> DEFINE s == rep[a].ratings
    <3>1. s \in Seq(Ratings) /\ Len(s) <= Window /\ Window \in Nat
      BY <1>2, GovernanceAssumption DEF TypeOK
    <3> QED
      BY <3>1 DEF Rated
  <2>4. ASSUME NEW a \in Agents
        PROVE  /\ rep[a].done \in Nat /\ rep[a].failed \in Nat
               /\ rep[a].ratings \in Seq(Ratings) /\ Len(rep[a].ratings) <= Window
               /\ rep[a] \in Reputation
    BY <1>2 DEF TypeOK, Reputation
  <2>5. ASSUME NEW a \in Agents, SubmitPeerRating(a)
        PROVE  \E r \in Reputation : Len(r.ratings) <= Window /\ rep' = [rep EXCEPT ![a] = r]
    <3>1. PICK x \in Ratings : rep' = [rep EXCEPT ![a] = [rep[a] EXCEPT !.ratings = Rated(rep[a], x)]]
      BY <2>5 DEF SubmitPeerRating, Record
    <3> DEFINE s == Rated(rep[a], x)
               r == [rep[a] EXCEPT !.ratings = s]
    <3>2. s \in Seq(Ratings) /\ Len(s) <= Window
      BY <2>3
    <3> HIDE DEF s
    <3>3. r \in Reputation /\ r.ratings = s
      BY <2>4, <3>2 DEF Reputation
    <3> QED
      BY <3>1, <3>2, <3>3 DEF s
  <2>6. ASSUME NEW a \in Agents, RecordTaskCompletion(a)
        PROVE  \E r \in Reputation : Len(r.ratings) <= Window /\ rep' = [rep EXCEPT ![a] = r]
    <3>1. PICK success \in BOOLEAN, x \in Ratings \cup {None} :
            rep' = [rep EXCEPT ![a] =
                      [done |-> rep[a].done + IF success THEN 1 ELSE 0,
                       failed |-> rep[a].failed + IF success THEN 0 ELSE 1,
                       ratings |-> IF x = None THEN rep[a].ratings ELSE Rated(rep[a], x)]]
      BY <2>6 DEF RecordTaskCompletion, Record
    <3> DEFINE s == IF x = None THEN rep[a].ratings ELSE Rated(rep[a], x)
    <3>2. s \in Seq(Ratings) /\ Len(s) <= Window
      BY <2>3, <2>4
    <3> DEFINE i == rep[a].done + IF success THEN 1 ELSE 0
               j == rep[a].failed + IF success THEN 0 ELSE 1
    <3>3. i \in Nat /\ j \in Nat
      BY <2>4
    <3>4. rep' = [rep EXCEPT ![a] = [done |-> i, failed |-> j, ratings |-> s]]
      BY <3>1
    <3> HIDE DEF s, i, j
    <3>5. [done |-> i, failed |-> j, ratings |-> s] \in Reputation
      BY <3>2, <3>3 DEF Reputation
    <3> QED
      BY <3>2, <3>4, <3>5
  <2> QED
    BY <2>1, <2>2, <2>5, <2>6
<1>5. TypeOK'
  BY <1>1, <1>2, <1>3, <1>4 DEF TypeOK
<1> QED
  BY <1>1, <1>5 DEF GovInv, CallsKnow, Know, SubmittedOnce, CopiesAgree, Unvoted, VerdictSound,
     UserSays, HasQuorum, MirrorAgrees, Legal

\* A call queues for the lock with a record of its own.
LEMMA CallStep ==
  ASSUME GovInv, NEW t \in Tasks, Call(t)
  PROVE  GovInv' /\ \A p \in Proposals : Legal(p)
<1>t. TypeOK
  BY DEF GovInv
<1>1. PICK p \in Proposals :
        \/ CallSubmit(t, p)
        \/ \E v \in Voters, d \in Decisions : CallVote(t, p, v, d)
        \/ CallResolve(t, p)
        \/ CallCheck(t, p)
  BY DEF Call
<1>2. ASSUME NEW c \in CallRecord, Queue(t, c), Know("queued", c),
             c.op = "submit" => \A u \in Tasks \ {t} : call[u].op = "submit" => call[u].prop # c.prop
      PROVE  GovInv' /\ \A q \in Proposals : Legal(q)
  <2>1. /\ pc' = [pc EXCEPT ![t] = "queued"] /\ call' = [call EXCEPT ![t] = c]
        /\ UNCHANGED <<now, rep, status, quorum, expires, votes, lock, mirror>>
    BY <1>2 DEF Queue, repVars, propVars
  <2>2. TypeOK'
    BY <2>1, <1>t DEF TypeOK, Stages, CallRecord
  <2>3. UNCHANGED <<propVars, mirror>> /\ "queued" \in Stages
    BY <2>1 DEF propVars, Stages
  <2> QED
    BY <1>2, <2>1, <2>2, <2>3, CallOnly
<1>3. CASE CallSubmit(t, p)
  <2> DEFINE c == [Idle EXCEPT !.op = "submit", !.prop = p]
  <2>1. c \in CallRecord /\ c.op = "submit" /\ c.prop = p
    BY IdleType DEF CallRecord, Ops
  <2>2. Queue(t, c) /\ status[p] = "none"
        /\ \A u \in Tasks : call[u].op = "submit" => call[u].prop # p
    BY <1>3 DEF CallSubmit
  <2> HIDE DEF c
  <2>3. Know("queued", c)
    BY <2>1, <2>2 DEF Know
  <2> QED
    BY <2>1, <2>2, <2>3, <1>2
<1>4. ASSUME NEW v \in Voters, NEW d \in Decisions, CallVote(t, p, v, d)
      PROVE  GovInv' /\ \A q \in Proposals : Legal(q)
  <2> DEFINE w == vote_weight(v)
             c == [Idle EXCEPT !.op = "vote", !.prop = p, !.voter = v, !.decision = d,
                               !.weight = w]
  <2>w. w \in 0..Full
    <3>1. CASE v \in Trusted
      BY <3>1, GovernanceAssumption DEF vote_weight
    <3>2. CASE v \notin Trusted
      <4>1. v \in Agents
        BY <3>2 DEF Voters
      <4>2. rep[v] \in Reputation
        BY <4>1, <1>t DEF TypeOK, Reputation
      <4>3. compute_score(rep[v]) \in 0..Full
        BY <4>2, ScoreBound
      <4> QED
        BY <3>2, <4>3 DEF vote_weight
    <3> QED
      BY <3>1, <3>2
  <2>2. Queue(t, c) /\ status[p] # "none"
    BY <1>4 DEF CallVote
  <2> HIDE DEF w
  <2>1. c \in CallRecord /\ c.op = "vote" /\ c.prop = p /\ c.voter = v
    BY IdleType, <2>w DEF CallRecord, Ops
  <2> HIDE DEF c
  <2>3. Know("queued", c)
    BY <2>1, <2>2 DEF Know
  <2> QED
    BY <2>1, <2>2, <2>3, <1>2
<1>5. ASSUME NEW op \in {"resolve", "check"}, status[p] # "none",
             Queue(t, [Idle EXCEPT !.op = op, !.prop = p])
      PROVE  GovInv' /\ \A q \in Proposals : Legal(q)
  <2> DEFINE c == [Idle EXCEPT !.op = op, !.prop = p]
  <2>1. c \in CallRecord /\ c.op = op /\ c.prop = p
    BY IdleType DEF CallRecord, Ops
  <2>2. Queue(t, c)
    BY <1>5
  <2> HIDE DEF c
  <2>3. Know("queued", c)
    BY <2>1, <1>5 DEF Know
  <2> QED
    BY <2>1, <2>2, <2>3, <1>2
<1> QED
  BY <1>1, <1>3, <1>4, <1>5 DEF CallResolve, CallCheck

\* A call returns, raises or is cancelled, or moves on without touching a
\* proposal.
LEMMA LeaveStep ==
  ASSUME GovInv, NEW t \in Tasks,
         \/ VoteRaises(t) \/ NothingToDecide(t) \/ MirrorProposal(t)
         \/ MirrorVote(t) \/ Cancel(t)
  PROVE  GovInv' /\ \A p \in Proposals : Legal(p)
<1>t. TypeOK
  BY DEF GovInv
<1>1. /\ UNCHANGED <<now, rep, status, quorum, expires, votes, mirror>>
      /\ lock' \in {lock, None}
      /\ \/ pc' = [pc EXCEPT ![t] = "idle"] /\ call' = [call EXCEPT ![t] = Idle]
         \/ /\ pc[t] = "mirror_vote" /\ call[t].seen # "open"
            /\ pc' = [pc EXCEPT ![t] = "snapshot"] /\ call' = call
  BY DEF VoteRaises, NothingToDecide, MirrorProposal, MirrorVote, Cancel, Return, Goto,
         Unlocked, repVars, propVars
<1>2. UNCHANGED <<propVars, mirror>>
  BY <1>1 DEF propVars
<1>3. CASE pc' = [pc EXCEPT ![t] = "idle"] /\ call' = [call EXCEPT ![t] = Idle]
  <2>1. TypeOK'
    BY <1>1, <1>3, <1>t, IdleType DEF TypeOK, Stages, CallRecord
  <2>2. Know("idle", Idle) /\ Idle.op # "submit" /\ "idle" \in Stages
    BY DEF Know, Idle, Stages
  <2> QED
    BY <1>2, <1>3, <2>1, <2>2, CallOnly
<1>4. CASE /\ pc[t] = "mirror_vote" /\ call[t].seen # "open"
           /\ pc' = [pc EXCEPT ![t] = "snapshot"] /\ call' = call
  <2>1. TypeOK'
    BY <1>1, <1>4, <1>t DEF TypeOK, Stages
  <2> DEFINE c == call[t]
  <2>2. Know("mirror_vote", c)
    BY <1>4 DEF GovInv, CallsKnow
  <2>3. Know("snapshot", c) /\ "snapshot" \in Stages
    BY <1>4, <2>2 DEF Know, Stages
  <2>4. call' = [call EXCEPT ![t] = c]
    BY <1>4, <1>t DEF TypeOK
  <2>5. c.op = "submit" => \A u \in Tasks \ {t} : call[u].op = "submit" => call[u].prop # c.prop
    BY DEF GovInv, SubmittedOnce
  <2> HIDE DEF c
  <2> QED
    BY <1>2, <1>4, <2>1, <2>3, <2>4, <2>5, CallOnly
<1> QED
  BY <1>1, <1>3, <1>4

\* No two calls wait to submit one proposal, and only a submission waits for a
\* proposal that does not exist.
LEMMA NobodySubmits ==
  ASSUME GovInv, NEW t \in Tasks, pc[t] # "idle", NEW p, p = call[t].prop,
         status[p] # "none" \/ call[t].op = "submit",
         \A q \in Proposals \ {p} : status'[q] = status[q]
  PROVE  \A u \in Tasks \ {t} : pc[u] = "queued" /\ call[u].op = "submit"
                                => status'[call[u].prop] = "none"
<1> SUFFICES ASSUME NEW u \in Tasks \ {t}, pc[u] = "queued", call[u].op = "submit"
             PROVE  status'[call[u].prop] = "none"
  OBVIOUS
<1>1. call[u].prop \in Proposals /\ status[call[u].prop] = "none"
  BY DEF GovInv, CallsKnow, Know
<1>2. call[u].prop # p
  BY <1>1 DEF GovInv, SubmittedOnce
<1> QED
  BY <1>1, <1>2

\* submit_proposal opens a proposal without ballots.
LEMMA SubmitStep ==
  ASSUME GovInv, NEW t \in Tasks, SubmitProposal(t)
  PROVE  GovInv' /\ \A p \in Proposals : Legal(p)
<1>c. PICK c, p : c = call[t] /\ p = c.prop
  OBVIOUS
<1> USE <1>c
<1>t. TypeOK
  BY DEF GovInv
<1>1. /\ pc[t] = "queued" /\ c.op = "submit"
      /\ status' = [status EXCEPT ![p] = "open"]
      /\ pc' = [pc EXCEPT ![t] = "mirror_proposal"]
      /\ UNCHANGED <<now, rep, votes, lock, call, mirror>>
  BY DEF SubmitProposal, Locked, Mark, Goto, repVars
<1>2. Know("queued", c)
  BY <1>1 DEF GovInv, CallsKnow
<1>3. p \in Proposals /\ status[p] = "none"
  BY <1>1, <1>2 DEF Know
<1>4. PICK q \in Quorums : quorum' = [quorum EXCEPT ![p] = q]
  BY DEF SubmitProposal
<1>5. PICK ttl \in 1..MaxTime : expires' = [expires EXCEPT ![p] = now + ttl]
  BY DEF SubmitProposal
<1>6. status' \in [Proposals -> Status] /\ status'[p] = "open"
      /\ \A r \in Proposals \ {p} : status'[r] = status[r]
  BY <1>1, <1>3, <1>t DEF TypeOK, Status
<1>7. quorum' \in [Proposals -> 1..100] /\ \A r \in Proposals \ {p} : quorum'[r] = quorum[r]
  <2>1. q \in 1..100 /\ quorum \in [Proposals -> 1..100]
    BY <1>t, GovernanceAssumption DEF TypeOK
  <2> QED
    BY <1>4, <2>1
<1>8. expires' \in [Proposals -> Nat]
  <2>1. now + ttl \in Nat /\ expires \in [Proposals -> Nat]
    BY <1>t, GovernanceAssumption DEF TypeOK
  <2> QED
    BY <1>5, <2>1
<1>9. TypeOK'
  BY <1>1, <1>6, <1>7, <1>8, <1>t DEF TypeOK, Stages
<1>10. \A r \in Proposals : Legal(r)
  BY <1>1, <1>3, <1>6 DEF Legal
<1>11. \A d : Weight(votes[p], d) = 0
  BY <1>3, WeightType DEF GovInv, Unvoted
<1>12. VerdictSound'
  <2> SUFFICES ASSUME NEW r \in Proposals
               PROVE /\ status'[r] = "passed" => (UserSays(r, "approve") \/ HasQuorum(r))'
                     /\ status'[r] = "denied" => (UserSays(r, "deny") \/ ~HasQuorum(r))'
                     /\ status'[r] = "open" => (/\ ~UserSays(r, "approve") /\ ~UserSays(r, "deny")
                                                /\ ~HasQuorum(r))'
    BY DEF VerdictSound
  <2>1. CASE r = p
    <3>1. votes[p]["user"] = None
      BY <1>3 DEF GovInv, Unvoted, Voters, Trusted
    <3>2. ~UserSays(p, "approve")' /\ ~UserSays(p, "deny")'
      BY <3>1, <1>1 DEF UserSays
    <3>3. ~HasQuorum(p)'
      BY <1>1, <1>11 DEF HasQuorum
    <3> QED
      BY <2>1, <3>2, <3>3, <1>6
  <2>2. CASE r # p
    BY <2>2, <1>1, <1>6, <1>7 DEF GovInv, VerdictSound, UserSays, HasQuorum
  <2> QED
    BY <2>1, <2>2
<1>13. Unvoted'
  BY <1>1, <1>6 DEF GovInv, Unvoted
<1>14. Know("mirror_proposal", c)'
  BY <1>1, <1>2, <1>3, <1>6 DEF Know
<1>15. \A u \in Tasks \ {t} : pc[u] = "queued" /\ call[u].op = "submit"
                              => status'[call[u].prop] = "none"
  BY <1>1, <1>6, NobodySubmits
<1>16. call' = [call EXCEPT ![t] = c] /\ "mirror_proposal" \in Stages
  BY <1>1, <1>t DEF TypeOK, Stages
<1>17. UNCHANGED mirror /\ c.op = call[t].op /\ c.prop = call[t].prop
  BY <1>1
<1>18. GovInv'
  BY <1>1, <1>9, <1>10, <1>12, <1>13, <1>14, <1>15, <1>16, <1>17, LockedStep
<1> QED
  BY <1>10, <1>18

\* A copy under the lock is the proposal's verdict and tally.
LEMMA CopyStep ==
  ASSUME GovInv, NEW t \in Tasks, VoteTooLate(t) \/ CopyResolution(t)
  PROVE  GovInv' /\ \A p \in Proposals : Legal(p)
<1>c. PICK c, p : c = call[t] /\ p = c.prop
  OBVIOUS
<1>t. TypeOK
  BY DEF GovInv
<1> DEFINE d == [c EXCEPT !.seen = status'[p], !.approve = Weight(votes[p], "approve"),
                          !.deny = Weight(votes[p], "deny")]
<1>1. /\ pc[t] # "idle" /\ ~(pc[t] = "queued" /\ c.op = "submit")
      /\ pc' = [pc EXCEPT ![t] = "mirror_resolution"]
      /\ lock' \in {lock, t}
      /\ UNCHANGED <<now, rep, quorum, expires, votes, mirror>>
  BY <1>c DEF VoteTooLate, CopyResolution, Locked, repVars
<1>2. call' = [call EXCEPT ![t] = d]
  BY <1>c, <1>t DEF VoteTooLate, CopyResolution, Snapshot, TypeOK
<1>3. Know(pc[t], c)
  BY <1>c DEF GovInv, CallsKnow
<1>4. p \in Proposals /\ status[p] # "none"
  BY <1>1, <1>3, <1>c DEF Know
<1>5. /\ status' \in [Proposals -> Status]
      /\ \A q \in Proposals \ {p} : status'[q] = status[q]
      /\ status'[p] \in {status[p], "expired"} /\ status'[p] \in Decided
  <2>1. CASE VoteTooLate(t)
    BY <2>1, <1>c, <1>t, <1>4 DEF VoteTooLate, Mark, TypeOK, Status, Decided
  <2>2. CASE CopyResolution(t)
    <3>1. status' = status /\ pc[t] = "snapshot"
      BY <2>2 DEF CopyResolution
    <3> QED
      BY <3>1, <1>3, <1>c, <1>t DEF TypeOK, Know
  <2> QED
    BY <2>1, <2>2
<1>6. c \in CallRecord /\ d \in CallRecord
  <2>1. c \in CallRecord
    BY <1>c, <1>t DEF TypeOK, CallRecord
  <2>2. status'[p] \in Status
    BY <1>4, <1>5
  <2>3. Weight(votes[p], "approve") \in Nat /\ Weight(votes[p], "deny") \in Nat
    BY WeightType
  <2> QED
    BY <2>1, <2>2, <2>3 DEF CallRecord
<1>7. /\ d.seen = status'[p] /\ d.approve = Weight(votes[p], "approve")
      /\ d.deny = Weight(votes[p], "deny") /\ d.op = c.op /\ d.prop = p /\ d.voter = c.voter
  BY <1>6, <1>c DEF CallRecord
<1> HIDE DEF d
<1>8. TypeOK'
  BY <1>1, <1>2, <1>5, <1>6, <1>t DEF TypeOK, Stages, CallRecord
<1>9. \A q \in Proposals : Legal(q)
  <2>1. Legal(p)
    BY <1>1, <1>4, <1>5, <1>t DEF Legal, Decided, TypeOK, Status
  <2>2. \A q \in Proposals \ {p} : Legal(q)
    BY <1>1, <1>5 DEF Legal
  <2> QED
    BY <2>1, <2>2
<1>10. Unvoted' /\ VerdictSound'
  <2>1. CASE status'[p] = "expired"
    BY <1>1, <1>4, <1>5, <2>1, OneVerdict
  <2>2. CASE status'[p] = status[p]
    <3>1. status' = status
      BY <2>2, <1>5, <1>t DEF TypeOK
    <3> QED
      BY <3>1, <1>1 DEF GovInv, Unvoted, VerdictSound, UserSays, HasQuorum
  <2> QED
    BY <2>1, <2>2, <1>5
<1>11. \A u \in Tasks \ {t} : pc[u] = "queued" /\ call[u].op = "submit"
                              => status'[call[u].prop] = "none"
  BY <1>1, <1>4, <1>5, <1>c, NobodySubmits
<1>12. PICK e : e = d
  OBVIOUS
<1>13. Know("mirror_resolution", e)'
  BY <1>1, <1>3, <1>4, <1>5, <1>7, <1>12, <1>c DEF Know, Decided
<1>14. /\ "mirror_resolution" \in Stages /\ call' = [call EXCEPT ![t] = e]
       /\ e.op = call[t].op /\ e.prop = call[t].prop /\ e.seen = status'[e.prop]
  BY <1>2, <1>7, <1>12, <1>c DEF Stages
<1>15. GovInv'
  BY <1>1, <1>8, <1>9, <1>10, <1>11, <1>13, <1>14, LockedStep
<1> QED
  BY <1>9, <1>15

\* resolve_proposal and check_quorum decide an open proposal by its tally.
LEMMA ResolveStep ==
  ASSUME GovInv, NEW t \in Tasks, ResolveProposal(t) \/ CheckQuorum(t)
  PROVE  GovInv' /\ \A p \in Proposals : Legal(p)
<1>c. PICK c, p : c = call[t] /\ p = c.prop
  OBVIOUS
<1>t. TypeOK
  BY DEF GovInv
<1>1. /\ pc[t] = "queued" /\ c.op # "submit" /\ status[p] = "open"
      /\ pc' = [pc EXCEPT ![t] = "snapshot"]
      /\ UNCHANGED <<now, rep, quorum, expires, votes, lock, call, mirror>>
  BY <1>c DEF ResolveProposal, CheckQuorum, Locked, Goto, repVars
<1>3. Know("queued", c)
  BY <1>1, <1>c DEF GovInv, CallsKnow
<1>4. p \in Proposals
  BY <1>3, <1>c DEF Know
<1>5. PICK s : /\ status' = [status EXCEPT ![p] = s]
               /\ \/ s = "expired"
                  \/ s = "passed" /\ MeetsQuorum(p)
                  \/ s = "denied" /\ ~MeetsQuorum(p)
  BY <1>c DEF ResolveProposal, CheckQuorum, Mark
<1>6. /\ status' \in [Proposals -> Status] /\ status'[p] = s
      /\ \A q \in Proposals \ {p} : status'[q] = status[q]
  BY <1>4, <1>5, <1>t DEF TypeOK, Status
<1>7. TypeOK'
  BY <1>1, <1>6, <1>t DEF TypeOK, Stages
<1>8. \A q \in Proposals : Legal(q)
  BY <1>1, <1>5, <1>6 DEF Legal
<1>9. MeetsQuorum(p) <=> HasQuorum(p)
  <2>1. quorum[p] \in 1..100
    BY <1>4, <1>t DEF TypeOK
  <2> QED
    BY <2>1, MeetsIsQuorum DEF MeetsQuorum, HasQuorum
<1>10. HasQuorum(p)' <=> HasQuorum(p)
  BY <1>1 DEF HasQuorum
<1>11. VerdictSound' /\ Unvoted'
  BY <1>1, <1>4, <1>5, <1>6, <1>9, <1>10, OneVerdict
<1>12. \A u \in Tasks \ {t} : pc[u] = "queued" /\ call[u].op = "submit"
                              => status'[call[u].prop] = "none"
  BY <1>1, <1>6, <1>c, NobodySubmits
<1>13. Know("snapshot", c)'
  BY <1>1, <1>3, <1>5, <1>6, <1>c DEF Know, Decided
<1>14. /\ "snapshot" \in Stages /\ call' = [call EXCEPT ![t] = c]
       /\ c.op = call[t].op /\ c.prop = call[t].prop
  BY <1>1, <1>c, <1>t DEF Stages, TypeOK
<1>15. GovInv'
  BY <1>1, <1>7, <1>8, <1>11, <1>12, <1>13, <1>14, LockedStep
<1> QED
  BY <1>8, <1>15

\* A counted ballot decides an open proposal exactly when it should.
LEMMA VoteStep ==
  ASSUME GovInv, NEW t \in Tasks, VoteCounts(t)
  PROVE  GovInv' /\ \A p \in Proposals : Legal(p)
<1>c. PICK c, p, v : c = call[t] /\ p = c.prop /\ v = c.voter
  OBVIOUS
<1>t. TypeOK
  BY DEF GovInv
<1>1. /\ pc[t] = "queued" /\ c.op = "vote" /\ status[p] = "open"
      /\ pc' = [pc EXCEPT ![t] = "mirror_vote"]
      /\ UNCHANGED <<now, rep, quorum, expires, lock, mirror>>
  BY <1>c DEF VoteCounts, Locked, TooLate, AlreadyResolved, repVars
<1>2. Know("queued", c)
  BY <1>1, <1>c DEF GovInv, CallsKnow
<1>3. p \in Proposals /\ v \in Voters /\ c \in CallRecord
  BY <1>1, <1>2, <1>c, <1>t DEF Know, TypeOK, CallRecord
<1>4. PICK b : b = [decision |-> c.decision, weight |-> c.weight]
  OBVIOUS
<1>5. b \in Ballot /\ b.decision = c.decision /\ b # None /\ c.decision \in Decisions
  BY <1>3, <1>4, GovernanceAssumption DEF Ballot, CallRecord
<1>6. votes' = [votes EXCEPT ![p] = [votes[p] EXCEPT ![v] = b]]
  BY <1>c, <1>4 DEF VoteCounts
<1>7. /\ votes' \in [Proposals -> [Voters -> Ballot \cup {None}]]
      /\ \A q \in Proposals \ {p} : votes'[q] = votes[q]
      /\ votes'[p][v] = b
      /\ \A w \in Voters \ {v} : votes'[p][w] = votes[p][w]
  BY <1>3, <1>5, <1>6, <1>t DEF TypeOK
<1>8. PICK s : s = Verdict(v, c.decision, p, Meets(votes'[p], quorum[p]))
  OBVIOUS
<1>9. status' = [status EXCEPT ![p] = s]
  BY <1>c, <1>8 DEF VoteCounts, Mark
<1>10. s \in {"open", "passed", "denied"}
  BY <1>1, <1>8 DEF Verdict
<1>11. /\ status' \in [Proposals -> Status] /\ status'[p] = s
       /\ \A q \in Proposals \ {p} : status'[q] = status[q]
  BY <1>3, <1>9, <1>10, <1>t DEF TypeOK, Status
<1>12. PICK d : d = [c EXCEPT !.seen = s]
  OBVIOUS
<1>13. /\ d \in CallRecord /\ d.seen = s /\ d.op = c.op /\ d.prop = p /\ d.voter = v
       /\ call' = [call EXCEPT ![t] = d]
  <2>1. d \in CallRecord /\ d.seen = s /\ d.op = c.op /\ d.prop = p /\ d.voter = v
    BY <1>3, <1>10, <1>12, <1>c DEF CallRecord, Status
  <2>2. call' = [call EXCEPT ![t] = [call[t] EXCEPT !.seen = status'[p]]]
    BY <1>c, <1>t DEF VoteCounts, TypeOK
  <2> QED
    BY <2>1, <2>2, <1>11, <1>12, <1>c
<1>14. TypeOK'
  BY <1>1, <1>7, <1>11, <1>13, <1>t DEF TypeOK, Stages, CallRecord
<1>15. \A q \in Proposals : Legal(q)
  BY <1>1, <1>7, <1>10, <1>11 DEF Legal
<1>16. Meets(votes'[p], quorum[p]) <=> HasQuorum(p)'
  <2>1. quorum[p] \in 1..100 /\ quorum' = quorum
    BY <1>1, <1>3, <1>t DEF TypeOK
  <2> QED
    BY <2>1, MeetsIsQuorum DEF HasQuorum
<1>17. "user" \in Voters
  BY DEF Voters, Trusted
<1>18. VerdictSound' /\ Unvoted'
  <2>1. CASE v = "user" /\ c.decision # "abstain"
    <3>1. UserSays(p, c.decision)'
      BY <2>1, <1>5, <1>7 DEF UserSays
    <3>2. s = IF c.decision = "approve" THEN "passed" ELSE "denied"
      BY <2>1, <1>8 DEF Verdict
    <3>3. c.decision \in {"approve", "deny"}
      BY <2>1, <1>5 DEF Decisions
    <3> QED
      BY <3>1, <3>2, <3>3, <1>1, <1>3, <1>7, <1>11, OneVerdict
  <2>2. CASE ~(v = "user" /\ c.decision # "abstain")
    <3>1. ~UserSays(p, "approve") /\ ~UserSays(p, "deny")
      BY <1>1, <1>3 DEF GovInv, VerdictSound
    <3>2. ~UserSays(p, "approve")' /\ ~UserSays(p, "deny")'
      <4>1. CASE v = "user"
        BY <4>1, <2>2, <1>5, <1>7 DEF UserSays
      <4>2. CASE v # "user"
        BY <4>2, <3>1, <1>7, <1>17 DEF UserSays
      <4> QED
        BY <4>1, <4>2
    <3>3. s = IF HasQuorum(p)' THEN "passed" ELSE "open"
      BY <2>2, <1>1, <1>8, <1>16 DEF Verdict
    <3> QED
      BY <3>2, <3>3, <1>1, <1>3, <1>7, <1>11, OneVerdict
  <2> QED
    BY <2>1, <2>2
<1>19. \A u \in Tasks \ {t} : pc[u] = "queued" /\ call[u].op = "submit"
                              => status'[call[u].prop] = "none"
  BY <1>1, <1>11, <1>c, NobodySubmits
<1>20. Know("mirror_vote", d)'
  BY <1>1, <1>3, <1>10, <1>11, <1>13 DEF Know, Decided
<1>21. "mirror_vote" \in Stages /\ d.op = call[t].op /\ d.prop = call[t].prop
  BY <1>13, <1>c DEF Stages
<1>22. GovInv'
  BY <1>1, <1>13, <1>14, <1>15, <1>18, <1>19, <1>20, <1>21, LockedStep
<1> QED
  BY <1>15, <1>22

\* The backend is told what the call had copied, or nothing.
LEMMA TellStep ==
  ASSUME GovInv, NEW t \in Tasks, MirrorResolution(t)
  PROVE  GovInv' /\ \A p \in Proposals : Legal(p)
<1>t. TypeOK
  BY DEF GovInv
<1>1. PICK r : r = [prop |-> call[t].prop, resolution |-> call[t].seen,
                    approve |-> call[t].approve, deny |-> call[t].deny]
  OBVIOUS
<1>2. /\ pc[t] = "mirror_resolution" /\ lock' \in {lock, None}
      /\ pc' = [pc EXCEPT ![t] = "idle"] /\ call' = [call EXCEPT ![t] = Idle]
      /\ mirror' \in {mirror, mirror \cup {r}}
      /\ UNCHANGED <<now, rep, status, quorum, expires, votes>>
  BY <1>1 DEF MirrorResolution, Unlocked, repVars, propVars
<1>3. Know("mirror_resolution", call[t])
  BY <1>2 DEF GovInv, CallsKnow
<1>4. /\ r \in [prop : Proposals, resolution : Status, approve : Nat, deny : Nat]
      /\ r.prop = call[t].prop /\ r.resolution = call[t].seen
      /\ r.approve = call[t].approve /\ r.deny = call[t].deny
  BY <1>1, <1>3, <1>t DEF Know, TypeOK
<1>5. TypeOK'
  BY <1>2, <1>4, <1>t, IdleType DEF TypeOK, Stages, CallRecord
<1>6. \A p \in Proposals : Legal(p)
  BY <1>2 DEF Legal
<1>7. \A u \in Tasks \ {t} : pc'[u] = pc[u] /\ call'[u] = call[u]
  BY <1>2, <1>t DEF TypeOK
<1>8. pc'[t] = "idle" /\ call'[t] = Idle
  BY <1>2, <1>t DEF TypeOK
<1>9. CallsKnow'
  BY <1>2, <1>7, <1>8 DEF GovInv, CallsKnow, Know
<1>10. SubmittedOnce'
  BY <1>7, <1>8 DEF GovInv, SubmittedOnce, Idle
<1>11. MirrorAgrees'
  <2>1. /\ r.approve = Weight(votes[r.prop], "approve") /\ r.deny = Weight(votes[r.prop], "deny")
        /\ r.resolution \in {"passed", "denied", "expired"}
        /\ status[r.prop] \in {r.resolution, "expired"}
    BY <1>3, <1>4 DEF Know, Decided
  <2>2. \A s \in mirror : s.prop = r.prop =>
          {s.resolution, r.resolution} # {"passed", "denied"}
    BY <1>2, <1>4 DEF GovInv, CopiesAgree, Contradict
  <2>3. {r.resolution, r.resolution} # {"passed", "denied"}
    OBVIOUS
  <2> QED
    BY <1>2, <2>1, <2>2, <2>3 DEF GovInv, MirrorAgrees
<1>12. CopiesAgree'
  <2>1. ASSUME NEW u \in Tasks, pc'[u] = "mirror_resolution" PROVE u # t
    BY <1>8, <2>1
  <2>2. ASSUME NEW u \in Tasks \ {t}, pc[u] = "mirror_resolution", r.prop = call[u].prop
        PROVE  ~Contradict(r.resolution, call[u].seen)
    BY <2>2, <1>2, <1>4 DEF GovInv, CopiesAgree
  <2>3. ASSUME NEW u \in Tasks \ {t}, pc[u] = "mirror_resolution",
               NEW s \in mirror', s.prop = call[u].prop
        PROVE  ~Contradict(s.resolution, call[u].seen)
    BY <2>2, <2>3, <1>2 DEF GovInv, CopiesAgree
  <2>4. ASSUME NEW u \in Tasks \ {t}, pc[u] = "mirror_resolution",
               NEW w \in Tasks \ {t}, pc[w] = "mirror_resolution", call[w].prop = call[u].prop
        PROVE  ~Contradict(call[w].seen, call[u].seen)
    BY <2>4 DEF GovInv, CopiesAgree
  <2> QED
    BY <2>1, <2>3, <2>4, <1>7 DEF CopiesAgree
<1>13. Unvoted' /\ VerdictSound'
  BY <1>2 DEF GovInv, Unvoted, VerdictSound, UserSays, HasQuorum
<1> QED
  BY <1>5, <1>6, <1>9, <1>10, <1>11, <1>12, <1>13 DEF GovInv

\* Nothing has been submitted.
LEMMA GovInit == Init => GovInv
<1> SUFFICES ASSUME Init PROVE GovInv
  OBVIOUS
<1>1. TypeOK
  <2>1. rep \in [Agents -> [done : Nat, failed : Nat, ratings : Seq(Ratings)]]
        /\ \A a \in Agents : Len(rep[a].ratings) <= Window
    BY GovernanceAssumption DEF Init
  <2> QED
    BY <2>1, IdleType DEF Init, TypeOK, Status, Stages, CallRecord
<1>2. CallsKnow /\ SubmittedOnce /\ CopiesAgree
  BY DEF Init, CallsKnow, Know, SubmittedOnce, CopiesAgree, Idle
<1>3. Unvoted /\ VerdictSound /\ MirrorAgrees
  BY DEF Init, Unvoted, VerdictSound, MirrorAgrees
<1> QED
  BY <1>1, <1>2, <1>3 DEF GovInv

\* Every step keeps the invariant and changes proposals legally.
LEMMA GovStep ==
  GovInv /\ [Next]_vars => GovInv' /\ \A p \in Proposals : Legal(p)
<1> SUFFICES ASSUME GovInv, [Next]_vars PROVE GovInv' /\ \A p \in Proposals : Legal(p)
  OBVIOUS
<1>1. CASE UNCHANGED vars
  <2>1. UNCHANGED <<now, rep, status, quorum, expires, votes, lock, pc, call, mirror>>
    BY <1>1 DEF vars, repVars, propVars, callVars
  <2>2. TypeOK' /\ \A p \in Proposals : Legal(p)
    BY <2>1 DEF GovInv, TypeOK, Legal
  <2>3. CallsKnow' /\ SubmittedOnce' /\ CopiesAgree'
    BY <2>1 DEF GovInv, CallsKnow, Know, SubmittedOnce, CopiesAgree
  <2>4. Unvoted' /\ VerdictSound' /\ MirrorAgrees'
    BY <2>1 DEF GovInv, Unvoted, VerdictSound, UserSays, HasQuorum, MirrorAgrees
  <2> QED
    BY <2>2, <2>3, <2>4 DEF GovInv
<1>2. ASSUME NEW t \in Tasks, LockStep(t) PROVE GovInv' /\ \A p \in Proposals : Legal(p)
  BY <1>2, SubmitStep, LeaveStep, CopyStep, VoteStep, ResolveStep DEF LockStep
<1>3. ASSUME NEW t \in Tasks, AwaitStep(t) \/ Cancel(t)
      PROVE  GovInv' /\ \A p \in Proposals : Legal(p)
  BY <1>3, LeaveStep, TellStep DEF AwaitStep
<1> QED
  BY <1>1, <1>2, <1>3, CallStep, ReputationStep DEF Next

\* In every reachable state the objects have their types (no ballot outweighs the
\* user's), and what suspended calls know is true.
THEOREM GovInvariant == Spec => []GovInv
<1> QED
  BY GovInit, GovStep, PTL DEF Spec

\* A decided proposal only ever expires, and only after its lifetime.
LEMMA StepFreezes == GovInv /\ [Next]_vars => [BallotsFrozen]_vars
<1> SUFFICES ASSUME GovInv, Next PROVE BallotsFrozen
  OBVIOUS
<1>1. \A p \in Proposals : Legal(p)
  BY SMTT(30), GovStep
<1>2. ASSUME NEW p \in Proposals, status[p] \in Decided, status'[p] # status[p]
      PROVE  now >= expires[p]
  <2>1. ASSUME NEW t \in Tasks, VoteTooLate(t) PROVE now >= expires[p]
    <3>1. status' = [status EXCEPT ![call[t].prop] = "expired"] /\ TooLate(call[t].prop)
      BY <2>1 DEF VoteTooLate, Mark
    <3>2. p = call[t].prop
      BY <3>1, <1>2 DEF GovInv, TypeOK
    <3>3. status[p] # "expired"
      BY <3>1, <3>2, <1>2 DEF GovInv, TypeOK
    <3> QED
      BY <3>1, <3>2, <3>3 DEF TooLate, IsExpired
  <2>2. ASSUME NEW t \in Tasks, SubmitProposal(t) PROVE FALSE
    <3>1. status' = [status EXCEPT ![call[t].prop] = "open"] /\ pc[t] = "queued"
          /\ call[t].op = "submit"
      BY <2>2 DEF SubmitProposal, Mark, Locked
    <3>2. status[call[t].prop] = "none"
      BY <3>1 DEF GovInv, CallsKnow, Know
    <3> QED
      BY <3>1, <3>2, <1>2 DEF GovInv, TypeOK, Decided
  <2>3. ASSUME NEW t \in Tasks, VoteCounts(t) \/ ResolveProposal(t) \/ CheckQuorum(t) PROVE FALSE
    <3>1. status[call[t].prop] = "open"
      BY <2>3 DEF VoteCounts, ResolveProposal, CheckQuorum, AlreadyResolved
    <3>2. \E s : status' = [status EXCEPT ![call[t].prop] = s]
      BY <2>3 DEF VoteCounts, ResolveProposal, CheckQuorum, Mark
    <3> QED
      BY <3>1, <3>2, <1>2 DEF GovInv, TypeOK, Decided
  <2>4. CASE UNCHANGED status
    BY <2>4, <1>2
  <2> QED
    BY ZenonT(60), <2>1, <2>2, <2>3, <2>4 DEF Next, LockStep, AwaitStep, Call, CallSubmit, CallVote,
       CallResolve, CallCheck, Queue, VoteRaises, NothingToDecide, CopyResolution, MirrorProposal,
       MirrorVote, MirrorResolution, Cancel, Tick, RecordTaskCompletion, SubmitPeerRating, Record,
       propVars
<1>3. ASSUME NEW p \in Proposals, status[p] \notin {"none", "open"}
      PROVE  /\ votes'[p] = votes[p]
             /\ status'[p] # status[p] => status'[p] = "expired" /\ now >= expires[p]
  <2>1. status[p] \in Decided
    BY <1>3 DEF GovInv, TypeOK, Status, Decided
  <2> QED
    BY <2>1, <1>1, <1>2 DEF Legal, Decided
<1> QED
  BY <1>3 DEF BallotsFrozen

\* For any number of calls, agents and proposals the verdicts follow from the
\* ballots on record, the backend is told the truth, and what is decided stays.
THEOREM GovernanceSoundHolds == Spec => GovernanceSound
<1>1. GovInv => VerdictSound /\ MirrorAgrees
  BY DEF GovInv
<1> QED
  BY <1>1, StepFreezes, GovInvariant, PTL DEF Spec, GovernanceSound
=============================================================================
