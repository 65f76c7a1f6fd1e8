------------------------------- MODULE Memory -------------------------------
(***************************************************************************)
(* The memory store (src/agency/memory/sms/store.py), its retrieval engine   *)
(* (retrieval.py) and its tier engine (lifecycle.py).  All operations share  *)
(* one connection without a lock, so the statements of concurrent operations *)
(* interleave in one transaction and whoever commits commits for everybody.  *)
(* The program makes the tier engine and never starts its periodic task      *)
(* (start_periodic has no caller), so an aging pass may run and need not.    *)
(* Callers give every item a new id; contents never change and are left out. *)
(***************************************************************************)
EXTENDS Naturals

CONSTANTS
    Items,         \* ids, each stored at most once
    Ops,           \* concurrent operations
    NewTiers,      \* the tiers callers give new items
    MaxIdle,       \* MaxIdle[r]: the longest idle age of tier rank r (TIER_MAX_AGE)
    AgingThreshold,\* DEFAULT_AGING_THRESHOLD
    MaxDays,       \* bound: time
    MaxOps,        \* bound: operations
    MaxFaults,     \* bound: kills and cancelled operations
    None

VARIABLES
    mem,       \* mem[i]: the row of item i on the connection, or None
    fts,       \* the items with a row in memory_fts
    disk,      \* what is committed of mem and fts
    used,      \* the ids given out
    op,        \* op[o]: the operation o in progress
    aging,     \* the aging pass in progress, if somebody runs one
    day,
    done,      \* operations begun
    faults,
    acked,     \* items whose store() returned and whose delete() was not called
    broken     \* an operation was interrupted inside its statements

memory == <<mem, fts, disk, used, op, aging, day, done, faults, acked, broken>>

Cold == 0
Hot == 4
Tiers == Cold .. Hot

Idle == [kind |-> "idle", item |-> None, pc |-> "idle", tier |-> None, found |-> {}]

NoPass == [pc |-> "none", left |-> {}, seen |-> [i \in Items |-> None], now |-> 0]

Row(tier, when) == [tier |-> tier, accessed |-> when]

Stored == {i \in Items : mem[i] # None}

Init ==
    /\ mem = [i \in Items |-> None]
    /\ fts = {}
    /\ disk = [mem |-> mem, fts |-> fts]
    /\ used = {}
    /\ op = [o \in Ops |-> Idle]
    /\ aging = NoPass
    /\ day = 0 /\ done = 0 /\ faults = 0
    /\ acked = {}
    /\ broken = FALSE

-----------------------------------------------------------------------------
(* Statements and commits.                                                 *)

\* conn.commit() writes the open transaction, whoever wrote its rows.
CommitWith(m, f) == mem' = m /\ fts' = f /\ disk' = [mem |-> m, fts |-> f]

\* A statement that changes rows and the commit after it.
Update(i, row) == CommitWith(IF mem[i] = None THEN mem ELSE [mem EXCEPT ![i] = row], fts)

Begin(o, rec) ==
    /\ op[o].pc = "idle"
    /\ done < MaxOps
    /\ done' = done + 1
    /\ op' = [op EXCEPT ![o] = rec]

GoTo(o, pc) == op' = [op EXCEPT ![o].pc = pc]

Return(o) == op' = [op EXCEPT ![o] = Idle]

-----------------------------------------------------------------------------
(* MemoryStore.                                                            *)

\* store(): the upsert, the index row and the commit.
Store(o, i, tier) ==
    /\ i \notin used
    /\ used' = used \cup {i}
    /\ Begin(o, [Idle EXCEPT !.kind = "store", !.item = i, !.pc = "index"])
    /\ mem' = [mem EXCEPT ![i] = Row(tier, day)]
    /\ UNCHANGED <<fts, disk, aging, day, faults, acked, broken>>

\* delete(): the row, the index row and the commit.
Delete(o, i) ==
    /\ i \in acked
    /\ acked' = acked \ {i}
    /\ Begin(o, [Idle EXCEPT !.kind = "delete", !.item = i, !.pc = "index"])
    /\ mem' = [mem EXCEPT ![i] = None]
    /\ UNCHANGED <<fts, disk, used, aging, day, faults, broken>>

\* Mutant: the index keeps the rows of deleted items.
MutIndexed(o) == fts \cup (IF op[o].kind = "store" THEN {op[o].item} ELSE {})

\* The index after operation o's statement on it.
Indexed(o) == IF op[o].kind = "store" THEN fts \cup {op[o].item} ELSE fts \ {op[o].item}

Index(o) ==
    /\ op[o].pc = "index"
    /\ fts' = Indexed(o)
    /\ GoTo(o, "commit")
    /\ UNCHANGED <<mem, disk, used, aging, day, done, faults, acked, broken>>

\* The commit at the end of store() and delete().
Commit == CommitWith(mem, fts)

Finish(o) ==
    /\ op[o].pc = "commit"
    /\ Commit
    /\ Return(o)
    /\ acked' = IF op[o].kind = "store" THEN acked \cup {op[o].item} ELSE acked
    /\ UNCHANGED <<used, aging, day, done, faults, broken>>

\* MemoryStore.auto_age(): one statement demotes all stale items by one tier and restarts
\* their clocks.
StoreAge ==
    /\ done < MaxOps
    /\ done' = done + 1
    /\ CommitWith([i \in Items |->
            IF mem[i] # None /\ mem[i].tier # Cold /\ day - mem[i].accessed > AgingThreshold
            THEN Row(mem[i].tier - 1, day) ELSE mem[i]], fts)
    /\ UNCHANGED <<used, op, aging, day, faults, acked, broken>>

-----------------------------------------------------------------------------
(* RetrievalEngine: a search reads, then touches what it found.            *)

\* semantic_search: full text over the index, else a scan of the rows; hybrid_search adds
\* what is related by tags.  A query matches any set of items.
Search(o, found) ==
    /\ found # {}
    /\ found \subseteq Stored
    /\ Begin(o, [Idle EXCEPT !.kind = "search", !.found = found, !.pc = "touch"])
    /\ UNCHANGED <<mem, fts, disk, used, aging, day, faults, acked, broken>>

\* touch_many: items deleted meanwhile have no row to update.
Touch(o) ==
    /\ op[o].pc = "touch"
    /\ CommitWith([i \in Items |-> IF i \in op[o].found /\ mem[i] # None
                                   THEN Row(mem[i].tier, day) ELSE mem[i]], fts)
    /\ Return(o)
    /\ UNCHANGED <<used, aging, day, done, faults, acked, broken>>

-----------------------------------------------------------------------------
(* TieredMemoryEngine.                                                     *)

\* tier_for_age.
TierForAge(age) ==
    IF \E r \in Tiers \ {Cold} : age <= MaxIdle[r]
    THEN CHOOSE r \in Tiers \ {Cold} : age <= MaxIdle[r] /\ \A q \in (r + 1) .. Hot : age > MaxIdle[q]
    ELSE Cold

\* promote() and demote() read the tier; at the end of the scale they do nothing.
Move(o, i, up) ==
    /\ i \in Stored
    /\ IF up THEN mem[i].tier < Hot ELSE mem[i].tier > Cold
    /\ Begin(o, [Idle EXCEPT !.kind = IF up THEN "promote" ELSE "demote", !.item = i, !.pc = "tier",
                             !.tier = IF up THEN mem[i].tier + 1 ELSE mem[i].tier - 1])
    /\ UNCHANGED <<mem, fts, disk, used, aging, day, faults, acked, broken>>

\* update_tier with the tier read before.
UpdateTier(o) ==
    /\ op[o].pc = "tier"
    /\ LET i == op[o].item
       IN  Update(i, IF mem[i] = None THEN None ELSE Row(op[o].tier, mem[i].accessed))
    /\ Return(o)
    /\ UNCHANGED <<used, aging, day, done, faults, acked, broken>>

\* auto_age of the engine starts: the time and all items are read once (a pass over an
\* empty store changes nothing).
Scan ==
    /\ aging.pc = "none"
    /\ Stored # {}
    /\ aging' = [pc |-> "scanning", left |-> Stored, seen |-> mem, now |-> day]
    /\ UNCHANGED <<mem, fts, disk, used, op, day, done, faults, acked, broken>>

\* The tier of a row at the time of the scan.
Target(row, now) == TierForAge(now - row.accessed)

\* One item of the pass: it is moved only to a colder tier than it had in the scan.
AgeItem(i) ==
    /\ aging.pc = "scanning"
    /\ i \in aging.left
    /\ LET target == Target(aging.seen[i], aging.now)
       IN  IF target < aging.seen[i].tier
           THEN Update(i, IF mem[i] = None THEN None ELSE Row(target, mem[i].accessed))
           ELSE UNCHANGED <<mem, fts, disk>>
    /\ aging' = [aging EXCEPT !.left = @ \ {i}]
    /\ UNCHANGED <<used, op, day, done, faults, acked, broken>>

\* The pass is over, or it failed.
ScanEnds ==
    /\ aging.pc = "scanning"
    /\ aging.left = {} \/ faults < MaxFaults
    /\ faults' = IF aging.left = {} THEN faults ELSE faults + 1
    /\ aging' = NoPass
    /\ UNCHANGED <<mem, fts, disk, used, op, day, done, acked, broken>>

-----------------------------------------------------------------------------
(* The surroundings.                                                       *)

\* A caller gives up an operation between two of its statements.
Cancel(o) ==
    /\ faults < MaxFaults
    /\ faults' = faults + 1
    /\ op[o].pc # "idle"
    /\ broken' = (broken \/ op[o].pc \in {"index", "commit"})
    /\ Return(o)
    /\ UNCHANGED <<mem, fts, disk, used, aging, day, done, acked>>

\* The process is killed: SQLite goes back to the last commit.
Kill ==
    /\ faults < MaxFaults
    /\ faults' = faults + 1
    /\ broken' = (broken \/ \E o \in Ops : op[o].pc \in {"index", "commit"})
    /\ mem' = disk.mem /\ fts' = disk.fts
    /\ op' = [o \in Ops |-> Idle]
    /\ aging' = NoPass
    /\ UNCHANGED <<disk, used, day, done, acked>>

Tick ==
    /\ day < MaxDays
    /\ day' = day + 1
    /\ UNCHANGED <<mem, fts, disk, used, op, aging, done, faults, acked, broken>>

OpStep(o) == Index(o) \/ Finish(o) \/ Touch(o) \/ UpdateTier(o)

AgingStep == Scan \/ (\E i \in Items : AgeItem(i)) \/ ScanEnds

Next ==
    \/ \E o \in Ops, i \in Items, tier \in NewTiers : Store(o, i, tier)
    \/ \E o \in Ops, i \in Items : Delete(o, i) \/ Move(o, i, TRUE) \/ Move(o, i, FALSE)
    \/ \E o \in Ops, found \in SUBSET Items : Search(o, found)
    \/ \E o \in Ops : OpStep(o) \/ Cancel(o)
    \/ StoreAge \/ AgingStep \/ Kill \/ Tick

-----------------------------------------------------------------------------
(* Properties.                                                             *)

\* The full-text index mirrors the rows whenever no operation is between its statements,
\* in memory and after a restart: interleaved stores and deletes, which share one
\* transaction, cannot separate them as long as none of them is interrupted.
IndexMirrors ==
    ~broken /\ (\A o \in Ops : op[o].pc \notin {"index", "commit"})
        => /\ fts = Stored
           /\ disk = [mem |-> mem, fts |-> fts]

\* What store() acknowledged survives every kill until somebody deletes it, also when
\* other operations are interrupted.
AcknowledgedLasts == acked \subseteq {i \in Items : disk.mem[i] # None}
=============================================================================
