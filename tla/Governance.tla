----------------------------- MODULE Governance -----------------------------
(***************************************************************************)
(* Reputation-weighted votes on proposals: GovernanceEngine                 *)
(* (src/agency/lattice/governance.py) with the ReputationEngine it asks for *)
(* weights (src/agency/lattice/reputation.py).                              *)
(*                                                                         *)
(* Both engines are objects of one event loop.  What a call does under the  *)
(* engine's lock is one action up to its next await.  A call can be         *)
(* suspended, and cancelled, where it waits for the lock and where it       *)
(* awaits the backend, which keeps a mirror of what happened and may fail.  *)
(* A proposal's lifetime is measured on the wall clock.                     *)
(*                                                                         *)
(* Weights are integers, Full standing for 1.0.  The arguments the methods  *)
(* reject before they change anything are not inputs.                       *)
(***************************************************************************)
EXTENDS Naturals, Sequences, FiniteSets

CONSTANTS
    Tasks,          \* concurrent calls
    Agents,         \* voters that vote at their reputation
    Proposals,      \* proposal identities, each used once
    Quorums,        \* quorum_required, in percent
    Ratings,        \* peer ratings
    Full,           \* the weight 1.0
    Window,         \* REPUTATION_WINDOW
    MaxRecords,     \* bound: outcomes and ratings recorded
    MaxTime,        \* bound: the clock
    None

Trusted == {"user", "butler"}
Voters == Agents \cup Trusted
Decisions == {"approve", "deny", "abstain"}

ASSUME GovernanceAssumption ==
    /\ Quorums \subseteq 1..100
    /\ Ratings \subseteq 0..Full
    /\ Full \in Nat \ {0} /\ Window \in Nat \ {0}
    /\ MaxRecords \in Nat /\ MaxTime \in Nat
    /\ IsFiniteSet(Agents) /\ Agents \cap Trusted = {}
    /\ None \notin Tasks \cup Proposals \cup Voters
    /\ None \notin [decision : Decisions, weight : 0..Full]

VARIABLES
    now,        \* the wall clock
    rep,        \* _reputations: outcomes and last peer ratings of each agent
    records,    \* number of updates of rep (the bound)
    status,     \* of each proposal, "none" before it is submitted
    quorum, expires, \* quorum_required and expires_at
    votes,      \* the ballot of each voter on each proposal, or None
    lock,       \* the call that holds _lock across an await
    pc, call,   \* where each call stands, and what it remembers
    mirror      \* the resolutions the backend was told

repVars  == <<rep, records>>
propVars == <<status, quorum, expires, votes>>
callVars == <<lock, pc, call>>
vars     == <<now, repVars, propVars, callVars, mirror>>

Idle == [op |-> "none", prop |-> None, voter |-> None, decision |-> "abstain",
         weight |-> 0, seen |-> "none", approve |-> 0, deny |-> 0]

Init ==
    /\ now = 0
    /\ rep = [a \in Agents |-> [done |-> 0, failed |-> 0, ratings |-> <<>>]]
    /\ records = 0
    /\ status = [p \in Proposals |-> "none"]
    /\ quorum = [p \in Proposals |-> 100]
    /\ expires = [p \in Proposals |-> 0]
    /\ votes = [p \in Proposals |-> [v \in Voters |-> None]]
    /\ lock = None
    /\ pc = [t \in Tasks |-> "idle"]
    /\ call = [t \in Tasks |-> Idle]
    /\ mirror = {}

-----------------------------------------------------------------------------
(* Reputation.                                                             *)

\* The sum of a function's values, which are in 0..Full: the number of its units.
Total(f) == Cardinality({u \in (DOMAIN f) \X (1..Full) : u[2] <= f[u[1]]})

Average(s) == Total(s) \div Len(s)
SuccessRate(r) == (Full * r.done) \div (r.done + r.failed)

\* Tasks count for 60 percent and peers for 40; one of them alone counts fully.
compute_score(r) ==
    CASE r.done + r.failed = 0 /\ r.ratings = <<>> -> Full \div 2
      [] r.done + r.failed = 0 /\ r.ratings # <<>> -> Average(r.ratings)
      [] r.done + r.failed > 0 /\ r.ratings = <<>> -> SuccessRate(r)
      [] OTHER -> (6 * SuccessRate(r) + 4 * Average(r.ratings)) \div 10

vote_weight(v) == IF v \in Trusted THEN Full ELSE compute_score(rep[v])

\* The last Window ratings.
Rated(r, x) ==
    LET s == Append(r.ratings, x)
    IN  IF Len(s) > Window THEN Tail(s) ELSE s

Record(a, r) ==
    /\ records < MaxRecords
    /\ rep' = [rep EXCEPT ![a] = r]
    /\ records' = records + 1
    /\ UNCHANGED <<now, propVars, callVars, mirror>>

RecordTaskCompletion(a) ==
    \E success \in BOOLEAN, x \in Ratings \cup {None} :
        LET r == rep[a]
        IN  Record(a, [done |-> r.done + IF success THEN 1 ELSE 0,
                       failed |-> r.failed + IF success THEN 0 ELSE 1,
                       ratings |-> IF x = None THEN r.ratings ELSE Rated(r, x)])

SubmitPeerRating(a) ==
    \E x \in Ratings : Record(a, [rep[a] EXCEPT !.ratings = Rated(rep[a], x)])

-----------------------------------------------------------------------------
(* The tally.                                                              *)

\* The weight of decision d among the ballots b.
Weight(b, d) ==
    Total([v \in {w \in Voters : b[w] # None /\ b[w].decision = d} |-> b[v].weight])

\* _meets_quorum_locked: abstentions do not count.
Meets(b, q) ==
    LET yes == Weight(b, "approve")
        all == yes + Weight(b, "deny")
    IN  all > 0 /\ 100 * yes >= q * all

MeetsQuorum(p) == Meets(votes[p], quorum[p])

IsExpired(p) == now >= expires[p]

\* _mark_locked.
Mark(p, s) == status' = [status EXCEPT ![p] = s]

-----------------------------------------------------------------------------
(* The calls.                                                              *)

\* The call waits for the lock.
Queue(t, c) ==
    /\ pc[t] = "idle"
    /\ pc' = [pc EXCEPT ![t] = "queued"]
    /\ call' = [call EXCEPT ![t] = c]
    /\ UNCHANGED <<now, repVars, propVars, lock, mirror>>

\* The new proposal has an identity of its own.
CallSubmit(t, p) ==
    /\ status[p] = "none"
    /\ \A u \in Tasks : call[u].op = "submit" => call[u].prop # p
    /\ Queue(t, [Idle EXCEPT !.op = "submit", !.prop = p])

\* The weight is read before the lock is taken.
CallVote(t, p, v, d) ==
    /\ status[p] # "none"
    /\ Queue(t, [Idle EXCEPT !.op = "vote", !.prop = p, !.voter = v, !.decision = d,
                             !.weight = vote_weight(v)])

CallResolve(t, p) ==
    status[p] # "none" /\ Queue(t, [Idle EXCEPT !.op = "resolve", !.prop = p])

CallCheck(t, p) ==
    status[p] # "none" /\ Queue(t, [Idle EXCEPT !.op = "check", !.prop = p])

\* The call returns or raises.
Return(t) ==
    /\ pc' = [pc EXCEPT ![t] = "idle"]
    /\ call' = [call EXCEPT ![t] = Idle]
    /\ UNCHANGED lock

\* Its next await is the backend or, for a resolution, the lock.
Goto(t, at) ==
    /\ pc' = [pc EXCEPT ![t] = at]
    /\ UNCHANGED <<lock, call>>

Locked(t, op) == pc[t] = "queued" /\ lock = None /\ call[t].op = op

SubmitProposal(t) ==
    LET p == call[t].prop
    IN  /\ Locked(t, "submit")
        /\ \E q \in Quorums : quorum' = [quorum EXCEPT ![p] = q]
        /\ \E ttl \in 1..MaxTime : expires' = [expires EXCEPT ![p] = now + ttl]
        /\ Mark(p, "open")
        /\ Goto(t, "mirror_proposal")
        /\ UNCHANGED <<now, repVars, votes, mirror>>

TooLate(p) == status[p] = "expired" \/ IsExpired(p)

MutOverturns(p) == status[p] = "denied" /\ ~TooLate(p)

\* cast_vote raises: the proposal was decided and its lifetime is not over.
AlreadyResolved(p) == status[p] # "open" /\ ~TooLate(p)

VoteRaises(t) ==
    /\ Locked(t, "vote") /\ AlreadyResolved(call[t].prop)
    /\ Return(t)
    /\ UNCHANGED <<now, repVars, propVars, mirror>>

MutForgetsTally(p, t) ==
    call' = [call EXCEPT ![t].seen = status'[p], ![t].approve = 0, ![t].deny = 0]

\* What the backend will be told of proposal p.
Snapshot(p, t) ==
    call' = [call EXCEPT ![t].seen = status'[p], ![t].approve = Weight(votes[p], "approve"),
                         ![t].deny = Weight(votes[p], "deny")]

\* The lifetime of the proposal is over, decided or not: it is marked expired
\* and mirrored with the lock held.
VoteTooLate(t) ==
    LET p == call[t].prop
    IN  /\ Locked(t, "vote") /\ TooLate(p)
        /\ Mark(p, "expired")
        /\ lock' = t
        /\ pc' = [pc EXCEPT ![t] = "mirror_resolution"]
        /\ Snapshot(p, t)
        /\ UNCHANGED <<now, repVars, quorum, expires, votes, mirror>>

MutUserWaits(v, d, p, meets) == IF meets THEN "passed" ELSE status[p]

\* The verdict on a ballot: the user decides alone, others by quorum.
Verdict(v, d, p, meets) ==
    IF v = "user" /\ d # "abstain"
    THEN IF d = "approve" THEN "passed" ELSE "denied"
    ELSE IF meets THEN "passed" ELSE status[p]

\* A ballot replaces the voter's earlier one and is tallied at once.
VoteCounts(t) ==
    LET p == call[t].prop
        v == call[t].voter
    IN  /\ Locked(t, "vote") /\ ~TooLate(p) /\ ~AlreadyResolved(p)
        /\ votes' = [votes EXCEPT ![p][v] =
                        [decision |-> call[t].decision, weight |-> call[t].weight]]
        /\ Mark(p, Verdict(v, call[t].decision, p, Meets(votes'[p], quorum[p])))
        /\ pc' = [pc EXCEPT ![t] = "mirror_vote"]
        /\ call' = [call EXCEPT ![t].seen = status'[p]]
        /\ UNCHANGED <<now, repVars, quorum, expires, lock, mirror>>

\* An explicit resolve decides an open proposal one way or the other.
ResolveProposal(t) ==
    LET p == call[t].prop
    IN  /\ Locked(t, "resolve") /\ status[p] = "open"
        /\ Mark(p, IF IsExpired(p) THEN "expired"
                   ELSE IF MeetsQuorum(p) THEN "passed" ELSE "denied")
        /\ Goto(t, "snapshot")
        /\ UNCHANGED <<now, repVars, quorum, expires, votes, mirror>>

CheckQuorum(t) ==
    LET p == call[t].prop
    IN  /\ Locked(t, "check") /\ status[p] = "open" /\ (IsExpired(p) \/ MeetsQuorum(p))
        /\ Mark(p, IF IsExpired(p) THEN "expired" ELSE "passed")
        /\ Goto(t, "snapshot")
        /\ UNCHANGED <<now, repVars, quorum, expires, votes, mirror>>

\* resolve_proposal and check_quorum have nothing to do.
NothingToDecide(t) ==
    LET p == call[t].prop
    IN  /\ \/ Locked(t, "resolve") /\ status[p] # "open"
           \/ Locked(t, "check") /\ (status[p] = "open" => ~IsExpired(p) /\ ~MeetsQuorum(p))
        /\ Return(t)
        /\ UNCHANGED <<now, repVars, propVars, mirror>>

-----------------------------------------------------------------------------
(* The mirror in the backend.                                              *)

\* _mirror_proposal ends, successfully or not.
MirrorProposal(t) ==
    /\ pc[t] = "mirror_proposal"
    /\ Return(t)
    /\ UNCHANGED <<now, repVars, propVars, mirror>>

\* _mirror_vote ends; a ballot that decided is followed by the resolution.
MirrorVote(t) ==
    /\ pc[t] = "mirror_vote"
    /\ IF call[t].seen = "open" THEN Return(t) ELSE Goto(t, "snapshot")
    /\ UNCHANGED <<now, repVars, propVars, mirror>>

\* _mirror_resolution copies the proposal under the lock.
CopyResolution(t) ==
    /\ pc[t] = "snapshot" /\ lock = None
    /\ pc' = [pc EXCEPT ![t] = "mirror_resolution"]
    /\ UNCHANGED status
    /\ Snapshot(call[t].prop, t)
    /\ UNCHANGED <<now, repVars, quorum, expires, votes, lock, mirror>>

\* What the lock is after t has left its locked section.
Unlocked(t) == IF lock = t THEN None ELSE lock

\* _mirror_resolution_locked ends: the backend has the node or refused it.
MirrorResolution(t) ==
    /\ pc[t] = "mirror_resolution"
    /\ mirror' \in {mirror, mirror \cup {[prop |-> call[t].prop, resolution |-> call[t].seen,
                                          approve |-> call[t].approve, deny |-> call[t].deny]}}
    /\ lock' = Unlocked(t)
    /\ pc' = [pc EXCEPT ![t] = "idle"]
    /\ call' = [call EXCEPT ![t] = Idle]
    /\ UNCHANGED <<now, repVars, propVars>>

\* Cancelled at an await.
Cancel(t) ==
    /\ pc[t] # "idle"
    /\ lock' = Unlocked(t)
    /\ pc' = [pc EXCEPT ![t] = "idle"]
    /\ call' = [call EXCEPT ![t] = Idle]
    /\ UNCHANGED <<now, repVars, propVars, mirror>>

Tick ==
    /\ now < MaxTime
    /\ now' = now + 1
    /\ UNCHANGED <<repVars, propVars, callVars, mirror>>

-----------------------------------------------------------------------------
Call(t) ==
    \E p \in Proposals :
        \/ CallSubmit(t, p)
        \/ \E v \in Voters, d \in Decisions : CallVote(t, p, v, d)
        \/ CallResolve(t, p)
        \/ CallCheck(t, p)

LockStep(t) ==
    \/ SubmitProposal(t)
    \/ VoteRaises(t) \/ VoteTooLate(t) \/ VoteCounts(t)
    \/ ResolveProposal(t) \/ CheckQuorum(t) \/ NothingToDecide(t)
    \/ CopyResolution(t)

AwaitStep(t) == MirrorProposal(t) \/ MirrorVote(t) \/ MirrorResolution(t)

Next ==
    \/ \E t \in Tasks : Call(t) \/ LockStep(t) \/ AwaitStep(t) \/ Cancel(t)
    \/ \E a \in Agents : RecordTaskCompletion(a) \/ SubmitPeerRating(a)
    \/ Tick

Spec == Init /\ [][Next]_vars

-----------------------------------------------------------------------------
(* Properties.                                                             *)

Ballot == [decision : Decisions, weight : 0..Full]
Status == {"none", "open", "passed", "denied", "expired"}
Ops == {"none", "submit", "vote", "resolve", "check"}
Stages == {"idle", "queued", "mirror_proposal", "mirror_vote", "snapshot", "mirror_resolution"}

\* Every object keeps its type; in particular a ballot weighs at most 1.0, so
\* that an agent never outweighs the user.
TypeOK ==
    /\ now \in Nat
    /\ rep \in [Agents -> [done : Nat, failed : Nat, ratings : Seq(Ratings)]]
    /\ \A a \in Agents : Len(rep[a].ratings) <= Window
    /\ status \in [Proposals -> Status]
    /\ quorum \in [Proposals -> 1..100]
    /\ expires \in [Proposals -> Nat]
    /\ votes \in [Proposals -> [Voters -> Ballot \cup {None}]]
    /\ lock \in Tasks \cup {None}
    /\ pc \in [Tasks -> Stages]
    /\ call \in [Tasks -> [op : Ops, prop : Proposals \cup {None}, voter : Voters \cup {None},
                          decision : Decisions, weight : 0..Full, seen : Status,
                          approve : Nat, deny : Nat]]
    /\ mirror \subseteq [prop : Proposals, resolution : Status, approve : Nat, deny : Nat]

UserSays(p, d) == votes[p]["user"] # None /\ votes[p]["user"].decision = d

\* What a quorum is: someone approves, with the required share of all that
\* approve or deny.
HasQuorum(p) ==
    LET yes == Weight(votes[p], "approve")
    IN  yes > 0 /\ quorum[p] * (yes + Weight(votes[p], "deny")) <= 100 * yes

\* The verdict follows from the ballots that are on record, whatever calls and
\* reputation updates came between: a proposal passed with a quorum or by the
\* user, was denied without, and is not open with either.
VerdictSound ==
    \A p \in Proposals :
        /\ status[p] = "passed" => UserSays(p, "approve") \/ HasQuorum(p)
        /\ status[p] = "denied" => UserSays(p, "deny") \/ ~HasQuorum(p)
        /\ status[p] = "open" => ~UserSays(p, "approve") /\ ~UserSays(p, "deny") /\ ~HasQuorum(p)

\* The ballots on a decided proposal are never touched again, and its status
\* changes only to expired, only after its lifetime (a vote that comes then marks
\* it expired although it had been decided).
BallotsFrozen ==
    \A p \in Proposals : status[p] \notin {"none", "open"} =>
       /\ votes'[p] = votes[p]
       /\ status'[p] # status[p] => status'[p] = "expired" /\ now >= expires[p]

\* What the backend was told of a resolution is so: the tally is the one the
\* proposal has, the verdict the one it has or had before it expired, and no
\* two calls told it opposite verdicts.
MirrorAgrees ==
    \A r \in mirror :
        /\ r.approve = Weight(votes[r.prop], "approve") /\ r.deny = Weight(votes[r.prop], "deny")
        /\ r.resolution \in {"passed", "denied", "expired"}
        /\ status[r.prop] \in {r.resolution, "expired"}
        /\ \A s \in mirror : s.prop = r.prop => {s.resolution, r.resolution} # {"passed", "denied"}

\* VerdictSound and MirrorAgrees (the verdict follows from the ballots and the backend is
\* told the truth) and BallotsFrozen (a decided proposal is not touched again).
GovernanceSound == [](VerdictSound /\ MirrorAgrees) /\ [][BallotsFrozen]_vars
=============================================================================
