---------------------------- MODULE AgentFactory ----------------------------
(***************************************************************************)
(* The governed agent factory (agency/factory) over the versioned skills    *)
(* and prompts its blueprints pin (agency/skills, agency/factory/prompts).   *)
(*                                                                         *)
(* Factories of several processes share the SQLite files.  A process has its *)
(* own kernel and runtime registry in memory; several factories may live in  *)
(* one process.  A call reads, asks its callbacks and writes in steps of its *)
(* own; only activate and revoke take the write lock before they read.      *)
(***************************************************************************)
EXTENDS Naturals, FiniteSets, Sequences, SequencesExt

CONSTANTS
    Factories, Blueprints, Actors,
    Skills, Prompts,        \* pinned references
    Packs, Safety,          \* prompt packs that need the safety prompt, and that prompt
    MaxChanges,             \* bound: registrations and transitions of references
    MaxCalls,               \* bound: calls of approve and activate
    None

VARIABLES
    row,        \* blueprint table
    events,     \* factory_events, per blueprint
    ref,        \* status of each skill and prompt version, with its events
    registry,   \* the process a factory lives in: the registries it was given
    kernel,     \* identities that are not revoked in each kernel registry
    runtime,    \* workers in each runtime registry
    lock,       \* the factory that holds the write lock of the blueprint file
    call,       \* what each factory is doing
    changes, calls

factory == <<row, events, ref, registry, kernel, runtime, lock, call, changes, calls>>

Refs == Skills \cup Prompts

-----------------------------------------------------------------------------
(* References: immutable versions that only move forward.                  *)

Lifecycle == <<"DRAFT", "TESTING", "APPROVED", "PUBLISHED", "DEPRECATED", "RETIRED">>
Allowed(from, to) ==
    \E n \in 1 .. Len(Lifecycle) - 1 : from = Lifecycle[n] /\ to = Lifecycle[n + 1]

Rank(status) == IF status = None THEN 0
                ELSE CHOOSE n \in 1 .. Len(Lifecycle) : Lifecycle[n] = status

Published(r) == ref[r].status = "PUBLISHED"

Idle == [op |-> None, b |-> None, r |-> None, pc |-> "idle", left |-> {}, seen |-> None,
         actor |-> None]

Init ==
    /\ row = [b \in Blueprints |-> None]
    /\ events = [b \in Blueprints |-> <<>>]
    /\ ref = [r \in Refs |-> [status |-> None, events |-> <<>>]]
    /\ registry \in {[f \in Factories |-> f],
                     [f \in Factories |-> CHOOSE g \in Factories : TRUE]}
    /\ kernel = [p \in Factories |-> {}]
    /\ runtime = [p \in Factories |-> {}]
    /\ lock = None
    /\ call = [f \in Factories |-> Idle]
    /\ changes = 0 /\ calls = 0

Ends(f) == call' = [call EXCEPT ![f] = Idle]
Change == changes < MaxChanges /\ changes' = changes + 1
OnlyRefs == UNCHANGED <<row, events, registry, kernel, runtime, lock, calls>>

\* SkillRegistry.register writes no event.
RegisterSkill(r) ==
    /\ r \in Skills /\ ref[r].status = None /\ Change
    /\ ref' = [ref EXCEPT ![r].status = "DRAFT"]
    /\ OnlyRefs /\ UNCHANGED call

RegisterPrompt(r) ==
    /\ r \in Prompts /\ ref[r].status = None /\ Change
    /\ ref' = [ref EXCEPT ![r] = [status |-> "DRAFT", events |-> <<<<None, "DRAFT">>>>]]
    /\ OnlyRefs /\ UNCHANGED call

\* seed_builtin never overwrites an existing row.
SeedBuiltin(r) ==
    /\ r \in Prompts /\ ref[r].status = None /\ Change
    /\ ref' = [ref EXCEPT ![r] = [status |-> "PUBLISHED", events |-> <<<<None, "PUBLISHED">>>>]]
    /\ OnlyRefs /\ UNCHANGED call

\* transition reads the current status ...
ReadRef(f, r) ==
    /\ call[f].op = None /\ ref[r].status # None /\ Change
    /\ call' = [call EXCEPT ![f] = [Idle EXCEPT !.op = "transition", !.r = r, !.pc = "move",
                                                !.seen = ref[r].status]]
    /\ OnlyRefs /\ UNCHANGED ref

MutMovesAnyway(r, seen) == TRUE

\* ... and updates the row only if it still has it.
Unchanged(r, seen) == ref[r].status = seen

MoveRef(f, to) ==
    LET r == call[f].r
        seen == call[f].seen
    IN  /\ call[f].pc = "move" /\ Ends(f)
        /\ ref' = IF Allowed(seen, to) /\ Unchanged(r, seen)
                  THEN [ref EXCEPT ![r].status = to, ![r].events = Append(@, <<seen, to>>)]
                  ELSE ref
        /\ OnlyRefs /\ UNCHANGED changes

-----------------------------------------------------------------------------
(* Blueprints.                                                             *)

Status(b) == IF row[b] = None THEN None ELSE row[b].status
Logged(b, from, to) == events' = [events EXCEPT ![b] = Append(@, <<from, to>>)]

Called(f, b, op, pc, left, actor) ==
    /\ calls < MaxCalls /\ calls' = calls + 1
    /\ call' = [call EXCEPT ![f] =
          [Idle EXCEPT !.op = op, !.b = b, !.pc = pc, !.left = left, !.actor = actor]]

Goes(f, pc) == call' = [call EXCEPT ![f].pc = pc]
OnlyCall == UNCHANGED <<row, events, ref, registry, kernel, runtime, changes>>

\* What _normalize_refs lets a blueprint pin: ids with an exact version.
Pins == SUBSET Refs

\* A row of the table; revoker is history.
Draft(creator, pins) ==
    [status |-> "DRAFT", creator |-> creator, approver |-> None, pins |-> pins,
     agent |-> None, revoker |-> None]

\* create: insert and event in one transaction; a duplicate is refused.
Create(f, b, creator, pins) ==
    /\ call[f].op = None /\ row[b] = None /\ lock = None
    /\ row' = [row EXCEPT ![b] = Draft(creator, pins)]
    /\ Logged(b, None, "DRAFT")
    /\ UNCHANGED <<ref, registry, kernel, runtime, lock, call, changes, calls>>

\* approve reads the row and refuses what is no draft or its own creator's.
Approve(f, b, approver) ==
    /\ call[f].op = None /\ Status(b) = "DRAFT" /\ approver # row[b].creator
    /\ Called(f, b, "approve", "authorize", row[b].pins, approver)
    /\ OnlyCall /\ UNCHANGED lock

\* The trusted authorizer answers; a denial or an error ends the call.
Authorize(f, allowed) ==
    /\ call[f].pc = "authorize"
    /\ IF allowed THEN Goes(f, "refs") ELSE Ends(f)
    /\ OnlyCall /\ UNCHANGED <<lock, calls>>

\* A call that fails inside the write transaction gives the lock back.
Unlocks(f) == lock' = IF lock = f THEN None ELSE lock

\* _check_published_refs, one callback at a time.
CheckRef(f, r) ==
    /\ call[f].pc = "refs" /\ r \in call[f].left
    /\ IF Published(r) THEN call' = [call EXCEPT ![f].left = @ \ {r}] /\ UNCHANGED lock
                       ELSE Ends(f) /\ Unlocks(f)
    /\ OnlyCall /\ UNCHANGED calls

\* reap_packs_missing_safety.
MissesSafety(pins) == pins \cap Packs # {} /\ Safety \notin pins

RefsChecked(f) ==
    /\ call[f].pc = "refs" /\ call[f].left = {}
    /\ IF MissesSafety(row[call[f].b].pins) THEN Ends(f) /\ Unlocks(f)
       ELSE Goes(f, IF call[f].op = "approve" THEN "write" ELSE "compose") /\ UNCHANGED lock
    /\ OnlyCall /\ UNCHANGED calls

MutApprovesAnyway(b) == TRUE

\* The update finds the row only while it is still a draft.
StillDraft(b) == Status(b) = "DRAFT"

ApproveWrite(f) ==
    LET b == call[f].b IN
    /\ call[f].op = "approve" /\ call[f].pc = "write" /\ lock = None /\ Ends(f)
    /\ IF StillDraft(b)
       THEN /\ row' = [row EXCEPT ![b].status = "APPROVED", ![b].approver = call[f].actor]
            /\ Logged(b, "DRAFT", "APPROVED")
       ELSE UNCHANGED <<row, events>>
    /\ UNCHANGED <<ref, registry, kernel, runtime, lock, changes, calls>>

\* activate takes the write lock before it reads.
Activate(f, b) ==
    /\ call[f].op = None /\ row[b] # None /\ lock = None
    /\ Status(b) = "APPROVED" /\ row[b].agent = None
    /\ Called(f, b, "activate", "refs", row[b].pins, None)
    /\ lock' = f
    /\ OnlyCall

\* compose_system_prompt: no resolver, a slot without value, a value without slot, a
\* provider that fails or contradicts the blueprint all end the call.
Compose(f, ok) ==
    /\ call[f].pc = "compose"
    /\ IF ok THEN Goes(f, "kernel") /\ UNCHANGED lock ELSE Ends(f) /\ Unlocks(f)
    /\ OnlyCall /\ UNCHANGED calls

\* The new identity, one of this attempt: unknown trust, observation only, no permission.
Identity(f) == <<call[f].b, f>>

RegisterKernel(f) ==
    /\ call[f].pc = "kernel" /\ Goes(f, "runtime")
    /\ kernel' = [kernel EXCEPT ![registry[f]] = @ \cup {Identity(f)}]
    /\ UNCHANGED <<row, events, ref, registry, runtime, lock, changes, calls>>

RegisterRuntime(f) ==
    /\ call[f].pc = "runtime" /\ Goes(f, "write")
    /\ runtime' = [runtime EXCEPT ![registry[f]] = @ \cup {Identity(f)}]
    /\ UNCHANGED <<row, events, ref, registry, kernel, lock, changes, calls>>

ActivateWrite(f) ==
    LET b == call[f].b IN
    /\ call[f].op = "activate" /\ call[f].pc = "write" /\ Ends(f)
    /\ row' = [row EXCEPT ![b].status = "ACTIVE", ![b].agent = Identity(f)]
    /\ Logged(b, "APPROVED", "ACTIVE")
    /\ lock' = None
    /\ UNCHANGED <<ref, registry, kernel, runtime, changes, calls>>

\* Registration, a statement or the commit fails: the transaction is rolled back, and the
\* identity taken out of both registries, whichever step had been reached.
ActivateFails(f) ==
    /\ call[f].op = "activate" /\ call[f].pc \in {"kernel", "runtime", "write"}
    /\ lock' = None /\ Goes(f, "undo")
    /\ UNCHANGED <<row, events, ref, registry, kernel, runtime, changes, calls>>

MutKeepsIdentity(f) ==
    /\ call[f].pc = "undo" /\ Ends(f)
    /\ runtime' = [runtime EXCEPT ![registry[f]] = @ \ {Identity(f)}]
    /\ UNCHANGED <<row, events, ref, registry, kernel, lock, changes, calls>>

RollBack(f) ==
    /\ call[f].pc = "undo" /\ Ends(f)
    /\ runtime' = [runtime EXCEPT ![registry[f]] = @ \ {Identity(f)}]
    /\ kernel' = [kernel EXCEPT ![registry[f]] = @ \ {Identity(f)}]
    /\ UNCHANGED <<row, events, ref, registry, lock, changes, calls>>

\* revoke: row and event first, in one transaction; idempotent once revoked.
Revoke(f, b) ==
    /\ call[f].op = None /\ row[b] # None /\ lock = None
    /\ Status(b) # "REVOKED"
    /\ row' = [row EXCEPT ![b].status = "REVOKED", ![b].revoker = registry[f]]
    /\ Logged(b, Status(b), "REVOKED")
    /\ call' = [call EXCEPT ![f] = IF row[b].agent = None THEN Idle
                                   ELSE [Idle EXCEPT !.op = "revoke", !.b = b, !.pc = "kill"]]
    /\ UNCHANGED <<ref, registry, kernel, runtime, lock, changes, calls>>

MutDeregistersOnly(f) ==
    /\ call[f].pc = "kill" /\ Ends(f)
    /\ runtime' = [runtime EXCEPT ![registry[f]] = @ \ {row[call[f].b].agent}]
    /\ UNCHANGED <<row, events, ref, registry, kernel, lock, changes, calls>>

\* Then the identity, in the registries this factory has: elsewhere its id is unknown.
Kill(f) ==
    /\ call[f].pc = "kill" /\ Ends(f)
    /\ kernel' = [kernel EXCEPT ![registry[f]] = @ \ {row[call[f].b].agent}]
    /\ runtime' = [runtime EXCEPT ![registry[f]] = @ \ {row[call[f].b].agent}]
    /\ UNCHANGED <<row, events, ref, registry, lock, changes, calls>>

\* A process dies: its registries are gone, its transaction is rolled back, the table stays.
Restart(p) ==
    LET dead == {f \in Factories : registry[f] = p} IN
    /\ dead # {} /\ calls < MaxCalls /\ calls' = calls + 1
    /\ kernel' = [kernel EXCEPT ![p] = {}]
    /\ runtime' = [runtime EXCEPT ![p] = {}]
    /\ call' = [f \in Factories |-> IF f \in dead THEN Idle ELSE call[f]]
    /\ lock' = IF lock \in dead THEN None ELSE lock
    /\ UNCHANGED <<row, events, ref, registry, changes>>

Next ==
    \/ \E r \in Refs : RegisterSkill(r) \/ RegisterPrompt(r) \/ SeedBuiltin(r)
    \/ \E f \in Factories :
          \/ \E r \in Refs : ReadRef(f, r) \/ CheckRef(f, r)
          \/ \E n \in 1 .. Len(Lifecycle) : MoveRef(f, Lifecycle[n])
          \/ \E b \in Blueprints :
                \/ \E a \in Actors, pins \in Pins : Create(f, b, a, pins)
                \/ \E a \in Actors : Approve(f, b, a)
                \/ Activate(f, b) \/ Revoke(f, b)
          \/ \E ok \in BOOLEAN : Authorize(f, ok) \/ Compose(f, ok)
          \/ RefsChecked(f) \/ ApproveWrite(f)
          \/ RegisterKernel(f) \/ RegisterRuntime(f) \/ ActivateWrite(f)
          \/ ActivateFails(f) \/ RollBack(f) \/ Kill(f)
    \/ \E p \in Factories : Restart(p)

-----------------------------------------------------------------------------
(* Properties.                                                             *)

Live == {k \in Factories \X (Blueprints \X Factories) : k[2] \in kernel[k[1]] \cup runtime[k[1]]}
InHand(id) == call[id[2]].op = "activate" /\ call[id[2]].b = id[1]

\* An identity is in a registry only while its activation is under way or the table names
\* it, in the process that made it, so there is one at most; somebody other than the
\* creator approved it; and everything it pins was published when it was looked up, packs
\* with their safety prompt: whatever failed, was revoked, deprecated or restarted in
\* between.
IdentityGoverned ==
    \A at \in Live :
        LET id == at[2]
            blueprint == row[id[1]]
        IN  /\ InHand(id) \/ blueprint.agent = id
            /\ at[1] = registry[id[2]]
            /\ blueprint.approver \notin {None, blueprint.creator}
            /\ \A r \in blueprint.pins : Rank(ref[r].status) >= Rank("PUBLISHED")
            /\ ~MissesSafety(blueprint.pins)

Settled(b) == Status(b) = "REVOKED" /\ \A f \in Factories : call[f].b # b

\* A revoked blueprint has no identity once the calls are over, if the process that
\* revoked it is the one that activated it.
RevokedInProcess ==
    \A b \in Blueprints : Settled(b) =>
        \A at \in Live : at[2] = row[b].agent => at[1] # row[b].revoker

Chained(log) == \A n \in 1 .. Len(log) - 1 : log[n][2] = log[n + 1][1]

\* The event tables tell the whole story: of blueprints, skills and prompts, every change
\* of status has its event, each starting where the one before it ended, although two
\* factories read the same status before either of them wrote; and an approval is never
\* lost or taken twice.
Provenance ==
    /\ \A b \in Blueprints : row[b] # None =>
          /\ Chained(events[b]) /\ Last(events[b])[2] = Status(b) /\ Head(events[b])[1] = None
    /\ \A r \in Refs : ref[r].events # <<>> =>
          /\ Chained(ref[r].events) /\ Last(ref[r].events)[2] = ref[r].status
          /\ Head(ref[r].events)[1] \in {None, "DRAFT"}
=============================================================================
