-------------------------- MODULE MCServices_proofs --------------------------
(***************************************************************************)
(* Proofs about the memory store (Memory), the Telegram gateway              *)
(* (TelegramGateway) and the tasks with their executions (TaskExecution), as *)
(* MCServices composes them, for every set of items, operations, tasks and   *)
(* calls and every number of updates, faults and restarts.  Each part has an *)
(* inductive invariant of its own, as the parts share no state: MemoryInv    *)
(* says who owns a row that is being written, GatewayInv which updates are   *)
(* behind the bot and why none of them is missed, ExecutionInv who works on  *)
(* a task that is running and what has been recorded of it.                  *)
(***************************************************************************)
EXTENDS MCServices, Integers, Sequences, FiniteSetTheorems, SequenceTheorems,
        WellFoundedInduction, TLAPS

(***************************************************************************)
(* The memory store and its index (Memory).                                 *)
(***************************************************************************)

MemoryRow == [tier : 0 .. 4, accessed : Nat]
Rows      == [Items -> MemoryRow \cup {None}]
OpState   ==
    [kind : {"idle", "store", "delete", "search", "promote", "demote"},
     item : Items \cup {None}, pc : {"idle", "index", "commit", "touch", "tier"},
     tier : (0 .. 4) \cup {None}, found : SUBSET Items]

\* An operation between its first statement and its commit.
Dirty(o) == op[o].pc \in {"index", "commit"}

MemoryType ==
    /\ mem \in Rows /\ fts \subseteq Items
    /\ disk \in [mem : Rows, fts : SUBSET Items]
    /\ used \subseteq Items /\ acked \subseteq used
    /\ op \in [Ops -> OpState] /\ day \in Nat
    /\ aging \in [pc : {"none", "scanning"}, left : SUBSET Items, seen : Rows, now : Nat]
    /\ \A i \in aging.left : aging.seen[i] # None
    /\ \A o \in Ops : op[o].pc = "tier" => op[o].tier \in 0 .. 4 /\ op[o].item \in Items
    /\ broken \in BOOLEAN

\* A store or delete in progress owns its item: nobody else writes that row or
\* its index entry, and what is acknowledged is in neither.
OwnInv ==
    /\ \A o \in Ops : Dirty(o) =>
           /\ op[o].item \in used \ acked /\ op[o].kind \in {"store", "delete"}
           /\ op[o].kind = "store" <=> mem[op[o].item] # None
    /\ \A o, q \in Ops : Dirty(o) /\ Dirty(q) /\ o # q => op[o].item # op[q].item

\* Acknowledged rows are there; the index entry of a row is missing or left
\* over only while its operation is before that statement; and nothing is
\* uncommitted when no operation is in progress.
KeptInv ==
    /\ \A i \in acked : mem[i] # None /\ disk.mem[i] # None
    /\ ~broken => \A i \in Items :
           (\A o \in Ops : ~(op[o].pc = "index" /\ op[o].item = i)) => (i \in fts <=> mem[i] # None)
    /\ ~broken /\ (\A o \in Ops : ~Dirty(o)) => disk = [mem |-> mem, fts |-> fts]

MemoryInv == MemoryType /\ OwnInv /\ KeptInv

USE MemoryAssumption

\* Nothing is stored yet.
LEMMA MemoryInitial ==
    ASSUME Memories!Init PROVE MemoryInv
<1>1. /\ mem = [i \in Items |-> None] /\ fts = {} /\ disk = [mem |-> mem, fts |-> fts]
      /\ used = {} /\ op = [o \in Ops |-> Memories!Idle] /\ aging = Memories!NoPass
      /\ day = 0 /\ acked = {} /\ broken = FALSE
  BY DEF Memories!Init
<1>2. Memories!Idle \in OpState /\ Memories!Idle.pc = "idle"
  BY DEF Memories!Idle, OpState
<1>3. /\ aging \in [pc : {"none", "scanning"}, left : SUBSET Items, seen : Rows, now : Nat]
      /\ aging.left = {}
  BY <1>1 DEF Memories!NoPass, Rows
<1>4. mem \in Rows /\ disk \in [mem : Rows, fts : SUBSET Items] /\ disk.mem = mem
  BY <1>1 DEF Rows
<1>5. \A o \in Ops : op[o].pc = "idle"
  BY <1>1, <1>2
<1>6. MemoryType
  BY <1>1, <1>2, <1>3, <1>4, <1>5 DEF MemoryType
<1>7. OwnInv
  BY <1>5 DEF OwnInv, Dirty
<1>8. KeptInv
  BY <1>1, <1>5 DEF KeptInv
<1> QED
  BY <1>6, <1>7, <1>8 DEF MemoryInv

\* The operations between their statements are the same after the step.
OpsKept ==
    /\ op' \in [Ops -> OpState]
    /\ \A o \in Ops : op'[o] = op[o] \/ (~Dirty(o) /\ ~Dirty(o)')
    /\ \A o \in Ops : op'[o].pc = "tier" => op'[o].tier \in 0 .. 4 /\ op'[o].item \in Items

AgingType ==
    /\ aging \in [pc : {"none", "scanning"}, left : SUBSET Items, seen : Rows, now : Nat]
    /\ \A i \in aging.left : aging.seen[i] # None

\* No row comes or goes, and what is written is committed with all that waited.
LEMMA RewriteStep ==
    ASSUME MemoryInv, OpsKept, AgingType', day' \in Nat, UNCHANGED <<fts, used, acked, broken>>,
           mem' \in Rows, \A i \in Items : mem'[i] = None <=> mem[i] = None,
           \/ disk' = [mem |-> mem', fts |-> fts']
           \/ UNCHANGED <<mem, disk>>
    PROVE  MemoryInv'
<1>1. disk' \in [mem : Rows, fts : SUBSET Items] /\ (disk'.mem = mem' \/ UNCHANGED <<mem, disk>>)
  BY DEF MemoryInv, MemoryType
<1>2. MemoryType'
  BY <1>1 DEF MemoryInv, MemoryType, OpsKept, AgingType
<1>3. \A o \in Ops : Dirty(o)' => op'[o] = op[o] /\ Dirty(o) /\ op[o].item \in Items
  BY DEF OpsKept, Dirty, MemoryInv, MemoryType, OwnInv
<1>4. OwnInv'
  BY <1>3 DEF MemoryInv, OwnInv
<1>5. KeptInv'
  <2>1. \A i \in acked' : mem'[i] # None /\ disk'.mem[i] # None
    BY <1>1 DEF MemoryInv, MemoryType, KeptInv
  <2>2. ASSUME ~broken', NEW i \in Items,
               \A o \in Ops : ~(op'[o].pc = "index" /\ op'[o].item = i)
        PROVE  i \in fts' <=> mem'[i] # None
    <3>1. \A o \in Ops : ~(op[o].pc = "index" /\ op[o].item = i)
      BY <2>2 DEF OpsKept, Dirty
    <3> QED
      BY <2>2, <3>1 DEF MemoryInv, KeptInv
  <2>3. ASSUME ~broken', \A o \in Ops : ~Dirty(o)' PROVE disk' = [mem |-> mem', fts |-> fts']
    <3>1. CASE UNCHANGED <<mem, disk>>
      <4>1. \A o \in Ops : ~Dirty(o)
        BY <2>3 DEF OpsKept, Dirty
      <4> QED
        BY <2>3, <3>1, <4>1 DEF MemoryInv, KeptInv
    <3> QED
      BY <3>1
  <2> QED
    BY <2>1, <2>2, <2>3 DEF KeptInv
<1> QED
  BY <1>2, <1>4, <1>5 DEF MemoryInv

\* An operation that is not between its statements begins another stage or ends.
LEMMA OpMoves ==
    ASSUME MemoryType, NEW o \in Ops, NEW y \in OpState, ~Dirty(o),
           y.pc \notin {"index", "commit"}, y.pc = "tier" => y.tier \in 0 .. 4 /\ y.item \in Items,
           op' = [op EXCEPT ![o] = y]
    PROVE  OpsKept
<1>1. op \in [Ops -> OpState]
      /\ \A q \in Ops : op[q].pc = "tier" => op[q].tier \in 0 .. 4 /\ op[q].item \in Items
  BY DEF MemoryType
<1>2. op' \in [Ops -> OpState] /\ op'[o] = y /\ \A q \in Ops : q # o => op'[q] = op[q]
  BY <1>1
<1> QED
  BY <1>1, <1>2 DEF OpsKept, Dirty

\* No operation moves.
LEMMA OpsSame ==
    ASSUME MemoryType, UNCHANGED op PROVE OpsKept
  BY DEF OpsKept, MemoryType

\* The aging pass does not move.
LEMMA AgingSame ==
    ASSUME MemoryType, UNCHANGED aging PROVE AgingType'
  BY DEF AgingType, MemoryType

\* An operation that has ended.
LEMMA IdleOp == Memories!Idle \in OpState /\ Memories!Idle.pc = "idle"
  BY DEF Memories!Idle, OpState

\* A row rewritten with a tier of the scale is a row.
LEMMA RowIsRow ==
    ASSUME NEW t \in 0 .. 4, NEW w \in Nat
    PROVE  Memories!Row(t, w) \in MemoryRow /\ Memories!Row(t, w) # None
  BY DEF Memories!Row, MemoryRow

\* The fields of a stored row.
LEMMA RowFields ==
    ASSUME mem \in Rows, NEW i \in Items, mem[i] # None
    PROVE  mem[i].tier \in 0 .. 4 /\ mem[i].accessed \in Nat
  BY DEF Rows, MemoryRow

\* tier_for_age answers a tier of the scale.
LEMMA TierOfAge ==
    ASSUME NEW age \in Int PROVE Memories!TierForAge(age) \in 0 .. 4
<1> DEFINE P(r) == age <= MaxIdle[r] /\ \A q \in (r + 1) .. Memories!Hot : age > MaxIdle[q]
           S == Memories!Tiers \ {Memories!Cold}
<1>1. S = 1 .. 4 /\ Memories!Hot = 4 /\ Memories!Cold = 0
  BY DEF Memories!Tiers, Memories!Cold, Memories!Hot
<1>2. \A r \in 1 .. 4 : MaxIdle[r] \in Nat
  BY DEF MaxIdle
<1>3. (\E r \in S : age <= MaxIdle[r]) => \E r \in S : P(r)
  <2> SUFFICES ASSUME NEW r \in 1 .. 4, age <= MaxIdle[r] PROVE \E q \in 1 .. 4 : P(q)
    BY <1>1
  <2>1. CASE age <= MaxIdle[4]
    BY <1>1, <2>1
  <2>2. CASE age > MaxIdle[4] /\ age <= MaxIdle[3]
    <3>1. P(3)
      BY <1>1, <2>2
    <3> QED
      BY <3>1
  <2>3. CASE age > MaxIdle[4] /\ age > MaxIdle[3] /\ age <= MaxIdle[2]
    <3>1. P(2)
      BY <1>1, <2>3
    <3> QED
      BY <3>1
  <2>4. CASE age > MaxIdle[4] /\ age > MaxIdle[3] /\ age > MaxIdle[2]
    <3>1. r = 1
      BY <1>2, <2>4
    <3>2. P(1)
      BY <1>1, <2>4, <3>1
    <3> QED
      BY <3>2
  <2> QED
    BY <1>2, <2>1, <2>2, <2>3, <2>4
<1>4. (\E r \in S : P(r)) => (CHOOSE r \in S : P(r)) \in S
  OBVIOUS
<1>5. Memories!TierForAge(age) = IF \E r \in S : age <= MaxIdle[r] THEN CHOOSE r \in S : P(r)
                                                                   ELSE Memories!Cold
  BY DEF Memories!TierForAge
<1> HIDE DEF P, S
<1> QED
  BY <1>1, <1>3, <1>4, <1>5

\* One row gets another tier, if it is still there.
LEMMA RowUpdated ==
    ASSUME MemoryInv, NEW i \in Items, NEW t \in 0 .. 4,
           Memories!Update(i, IF mem[i] = None THEN None
                              ELSE Memories!Row(t, mem[i].accessed))
    PROVE  /\ mem' \in Rows /\ (\A j \in Items : mem'[j] = None <=> mem[j] = None)
           /\ UNCHANGED fts /\ disk' = [mem |-> mem', fts |-> fts']
<1>1. mem \in Rows
  BY DEF MemoryInv, MemoryType
<1>2. CASE mem[i] = None
  BY <1>1, <1>2 DEF Memories!Update, Memories!CommitWith
<1>3. CASE mem[i] # None
  <2>1. /\ mem' = [mem EXCEPT ![i] = Memories!Row(t, mem[i].accessed)]
        /\ UNCHANGED fts /\ disk' = [mem |-> mem', fts |-> fts']
    BY <1>3 DEF Memories!Update, Memories!CommitWith
  <2>2. Memories!Row(t, mem[i].accessed) \in MemoryRow /\ Memories!Row(t, mem[i].accessed) # None
    BY <1>1, <1>3, RowFields, RowIsRow
  <2> QED
    BY <1>1, <1>3, <2>1, <2>2 DEF Rows
<1> QED
  BY <1>2, <1>3

\* MemoryStore.auto_age(): one statement over all rows, and its commit.
LEMMA StoreAgeStep ==
    ASSUME MemoryInv, Memories!StoreAge PROVE MemoryInv'
<1>1. mem \in Rows /\ day \in Nat
  BY DEF MemoryInv, MemoryType
<1> DEFINE Stale(i) == /\ mem[i] # None /\ mem[i].tier # Memories!Cold
                       /\ day - mem[i].accessed > AgingThreshold
           f(i) == IF Stale(i) THEN Memories!Row(mem[i].tier - 1, day) ELSE mem[i]
<1>2. /\ Memories!CommitWith([i \in Items |-> f(i)], fts)
      /\ UNCHANGED <<used, op, aging, day, acked, broken>>
  BY DEF Memories!StoreAge
<1>3. ASSUME NEW i \in Items, mem[i] # None PROVE f(i) \in MemoryRow /\ f(i) # None
  <2>1. CASE Stale(i)
    <3>1. mem[i].tier - 1 \in 0 .. 4
      BY <1>1, <1>3, <2>1, RowFields DEF Memories!Cold
    <3> QED
      BY <1>1, <2>1, <3>1, RowIsRow
  <2>2. CASE ~Stale(i)
    BY <1>1, <1>3, <2>2 DEF Rows
  <2> QED
    BY <2>1, <2>2
<1>4. \A i \in Items : mem[i] = None => f(i) = None
  OBVIOUS
<1> HIDE DEF f
<1>5. /\ mem' \in Rows /\ (\A j \in Items : mem'[j] = None <=> mem[j] = None)
      /\ UNCHANGED fts /\ disk' = [mem |-> mem', fts |-> fts']
  BY <1>2, <1>3, <1>4 DEF Memories!CommitWith, Rows
<1>6. OpsKept /\ AgingType'
  BY <1>2, OpsSame, AgingSame DEF MemoryInv
<1> QED
  BY <1>1, <1>2, <1>5, <1>6, RewriteStep

\* touch_many: what a search found gets a new access time, if it is still there.
LEMMA TouchStep ==
    ASSUME MemoryInv, NEW o \in Ops, Memories!Touch(o) PROVE MemoryInv'
<1>1. mem \in Rows /\ day \in Nat
  BY DEF MemoryInv, MemoryType
<1> DEFINE Found(i) == i \in op[o].found /\ mem[i] # None
           f(i) == IF Found(i) THEN Memories!Row(mem[i].tier, day) ELSE mem[i]
<1>2. /\ Memories!CommitWith([i \in Items |-> f(i)], fts) /\ op[o].pc = "touch"
      /\ op' = [op EXCEPT ![o] = Memories!Idle]
      /\ UNCHANGED <<used, aging, day, acked, broken>>
  BY DEF Memories!Touch, Memories!Return
<1>3. ASSUME NEW i \in Items, mem[i] # None PROVE f(i) \in MemoryRow /\ f(i) # None
  <2>1. CASE Found(i)
    BY <1>1, <1>3, <2>1, RowFields, RowIsRow
  <2>2. CASE ~Found(i)
    BY <1>1, <1>3, <2>2 DEF Rows
  <2> QED
    BY <2>1, <2>2
<1>4. \A i \in Items : mem[i] = None => f(i) = None
  OBVIOUS
<1> HIDE DEF f
<1>5. /\ mem' \in Rows /\ (\A j \in Items : mem'[j] = None <=> mem[j] = None)
      /\ UNCHANGED fts /\ disk' = [mem |-> mem', fts |-> fts']
  BY <1>2, <1>3, <1>4 DEF Memories!CommitWith, Rows
<1>6. OpsKept /\ AgingType'
  BY <1>2, OpMoves, IdleOp, AgingSame DEF MemoryInv, Dirty
<1> QED
  BY <1>1, <1>2, <1>5, <1>6, RewriteStep

\* update_tier with the tier that promote() or demote() read before.
LEMMA UpdateTierStep ==
    ASSUME MemoryInv, NEW o \in Ops, Memories!UpdateTier(o) PROVE MemoryInv'
<1> DEFINE i == op[o].item
           t == op[o].tier
<1>1. i \in Items /\ t \in 0 .. 4 /\ day \in Nat /\ op[o].pc = "tier"
  BY DEF MemoryInv, MemoryType, OpState, Memories!UpdateTier
<1>2. /\ Memories!Update(i, IF mem[i] = None THEN None ELSE Memories!Row(t, mem[i].accessed))
      /\ op' = [op EXCEPT ![o] = Memories!Idle]
      /\ UNCHANGED <<used, aging, day, acked, broken>>
  BY DEF Memories!UpdateTier, Memories!Return
<1>3. /\ mem' \in Rows /\ (\A j \in Items : mem'[j] = None <=> mem[j] = None)
      /\ UNCHANGED fts /\ disk' = [mem |-> mem', fts |-> fts']
  BY <1>1, <1>2, RowUpdated
<1>4. OpsKept /\ AgingType'
  BY <1>1, <1>2, OpMoves, IdleOp, AgingSame DEF MemoryInv, Dirty
<1> QED
  BY <1>1, <1>2, <1>3, <1>4, RewriteStep

\* One item of an aging pass.
LEMMA AgeItemStep ==
    ASSUME MemoryInv, NEW i \in Items, Memories!AgeItem(i) PROVE MemoryInv'
<1> DEFINE t == Memories!Target(aging.seen[i], aging.now)
           y == [aging EXCEPT !.left = aging.left \ {i}]
<1>1. /\ aging \in [pc : {"none", "scanning"}, left : SUBSET Items, seen : Rows, now : Nat]
      /\ mem \in Rows /\ day \in Nat /\ \A j \in aging.left : aging.seen[j] # None
  BY DEF MemoryInv, MemoryType
<1>2. /\ i \in aging.left /\ aging' = y
      /\ UNCHANGED <<used, op, day, acked, broken>>
  BY DEF Memories!AgeItem
<1>3. aging.seen[i].accessed \in Nat
  BY <1>1, <1>2 DEF Rows, MemoryRow
<1>4. t \in 0 .. 4
  <2>1. aging.now - aging.seen[i].accessed \in Int
    BY <1>1, <1>3
  <2> QED
    BY <2>1, TierOfAge DEF Memories!Target
<1>5. AgingType'
  <2>1. y \in [pc : {"none", "scanning"}, left : SUBSET Items, seen : Rows, now : Nat]
        /\ y.left = aging.left \ {i} /\ y.seen = aging.seen
    BY <1>1
  <2> QED
    BY <1>1, <1>2, <2>1 DEF AgingType
<1>6. OpsKept
  BY <1>2, OpsSame DEF MemoryInv
<1>7. \/ Memories!Update(i, IF mem[i] = None THEN None ELSE Memories!Row(t, mem[i].accessed))
      \/ UNCHANGED <<mem, fts, disk>>
  BY DEF Memories!AgeItem
<1> HIDE DEF t, y
<1>8. CASE Memories!Update(i, IF mem[i] = None THEN None ELSE Memories!Row(t, mem[i].accessed))
  <2>1. /\ mem' \in Rows /\ (\A j \in Items : mem'[j] = None <=> mem[j] = None)
        /\ UNCHANGED fts /\ disk' = [mem |-> mem', fts |-> fts']
    BY <1>4, <1>8, RowUpdated
  <2> QED
    BY <1>1, <1>2, <1>5, <1>6, <2>1, RewriteStep
<1>9. CASE UNCHANGED <<mem, fts, disk>>
  BY <1>1, <1>2, <1>5, <1>6, <1>9, RewriteStep
<1> QED
  BY <1>7, <1>8, <1>9

\* Steps that write no row: a search, the start of a promotion or demotion, the
\* bounds of an aging pass, the clock.
LEMMA QuietMemoryStep ==
    ASSUME MemoryInv, OpsKept, AgingType', day' \in Nat,
           UNCHANGED <<mem, fts, disk, used, acked, broken>>
    PROVE  MemoryInv'
<1>1. mem \in Rows
  BY DEF MemoryInv, MemoryType
<1> QED
  BY <1>1, RewriteStep

\* A search reads.
LEMMA SearchStep ==
    ASSUME MemoryInv, NEW o \in Ops, NEW found \in SUBSET Items, Memories!Search(o, found)
    PROVE  MemoryInv'
<1> DEFINE y == [Memories!Idle EXCEPT !.kind = "search", !.found = found, !.pc = "touch"]
<1>1. /\ op[o].pc = "idle" /\ op' = [op EXCEPT ![o] = y]
      /\ UNCHANGED <<mem, fts, disk, used, aging, day, acked, broken>>
  BY DEF Memories!Search, Memories!Begin
<1>2. y \in OpState /\ y.pc = "touch"
  BY DEF Memories!Idle, OpState
<1> HIDE DEF y
<1>3. OpsKept /\ AgingType' /\ day' \in Nat
  BY <1>1, <1>2, OpMoves, AgingSame DEF MemoryInv, MemoryType, Dirty
<1> QED
  BY <1>1, <1>3, QuietMemoryStep

\* promote() or demote() reads the tier.
LEMMA MoveTierStep ==
    ASSUME MemoryInv, NEW o \in Ops, NEW i \in Items, NEW upward \in BOOLEAN,
           Memories!Move(o, i, upward)
    PROVE  MemoryInv'
<1> DEFINE k == IF upward THEN "promote" ELSE "demote"
           t == IF upward THEN mem[i].tier + 1 ELSE mem[i].tier - 1
           y == [Memories!Idle EXCEPT !.kind = k, !.item = i, !.pc = "tier", !.tier = t]
<1>1. /\ op[o].pc = "idle" /\ op' = [op EXCEPT ![o] = y]
      /\ UNCHANGED <<mem, fts, disk, used, aging, day, acked, broken>>
  BY DEF Memories!Move, Memories!Begin
<1>2. mem[i].tier \in 0 .. 4
  BY RowFields DEF Memories!Move, Memories!Stored, MemoryInv, MemoryType
<1>3. t \in 0 .. 4 /\ k \in {"promote", "demote"}
  BY <1>2 DEF Memories!Move, Memories!Hot, Memories!Cold
<1> HIDE DEF k, t
<1>4. y \in OpState /\ y.pc = "tier" /\ y.tier = t /\ y.item = i
  BY <1>3 DEF Memories!Idle, OpState
<1> HIDE DEF y
<1>5. OpsKept /\ AgingType' /\ day' \in Nat
  BY <1>1, <1>3, <1>4, OpMoves, AgingSame DEF MemoryInv, MemoryType, Dirty
<1> QED
  BY <1>1, <1>5, QuietMemoryStep

\* An aging pass reads all rows.
LEMMA ScanStep ==
    ASSUME MemoryInv, Memories!Scan \/ Memories!ScanEnds PROVE MemoryInv'
<1>1. UNCHANGED <<mem, fts, disk, used, op, day, acked, broken>>
  BY DEF Memories!Scan, Memories!ScanEnds
<1>2. mem \in Rows /\ day \in Nat
  BY DEF MemoryInv, MemoryType
<1>3. CASE Memories!Scan
  <2>1. aging' = [pc |-> "scanning", left |-> Memories!Stored, seen |-> mem, now |-> day]
    BY <1>3 DEF Memories!Scan
  <2>2. AgingType'
    BY <1>2, <2>1 DEF AgingType, Memories!Stored
  <2> QED
    BY <1>1, <1>2, <2>2, OpsSame, QuietMemoryStep DEF MemoryInv
<1>4. CASE Memories!ScanEnds
  <2>1. aging' = Memories!NoPass
    BY <1>4 DEF Memories!ScanEnds
  <2>2. AgingType'
    BY <2>1 DEF AgingType, Memories!NoPass, Rows
  <2> QED
    BY <1>1, <1>2, <2>2, OpsSame, QuietMemoryStep DEF MemoryInv
<1> QED
  BY <1>3, <1>4

\* A day passes.
LEMMA TickMemoryStep ==
    ASSUME MemoryInv, Memories!Tick PROVE MemoryInv'
<1>1. UNCHANGED <<mem, fts, disk, used, op, aging, acked, broken>> /\ day' \in Nat
  BY DEF Memories!Tick, MemoryInv, MemoryType
<1> QED
  BY <1>1, OpsSame, AgingSame, QuietMemoryStep DEF MemoryInv

\* A store or a delete begins on an item that no operation is writing.
LEMMA BeginStep ==
    ASSUME MemoryInv, NEW o \in Ops, NEW i \in Items, NEW k \in {"store", "delete"},
           op[o].pc = "idle",
           op' = [op EXCEPT ![o] =
                     [Memories!Idle EXCEPT !.kind = k, !.item = i, !.pc = "index"]],
           \A q \in Ops : Dirty(q) => op[q].item # i,
           NEW x \in MemoryRow \cup {None}, mem' = [mem EXCEPT ![i] = x],
           k = "store" <=> x # None,
           used' \subseteq Items, used \subseteq used', acked' \subseteq acked,
           i \in used' \ acked', UNCHANGED <<fts, disk, aging, day, broken>>
    PROVE  MemoryInv'
<1> DEFINE y == [Memories!Idle EXCEPT !.kind = k, !.item = i, !.pc = "index"]
<1>1. y \in OpState /\ y.kind = k /\ y.item = i /\ y.pc = "index"
  BY DEF Memories!Idle, OpState
<1>2. op' = [op EXCEPT ![o] = y]
  OBVIOUS
<1> HIDE DEF y
<1>3. /\ op' \in [Ops -> OpState] /\ op'[o] = y /\ (\A q \in Ops : q # o => op'[q] = op[q])
      /\ mem' \in Rows /\ mem'[i] = x /\ (\A j \in Items : j # i => mem'[j] = mem[j])
  BY <1>1, <1>2 DEF MemoryInv, MemoryType, Rows
<1>4. MemoryType'
  BY <1>1, <1>3 DEF MemoryInv, MemoryType
<1>5. OwnInv'
  <2>1. \A q \in Ops : Dirty(q)' => q = o \/ (Dirty(q) /\ op'[q] = op[q])
    BY <1>3 DEF Dirty
  <2>2. \A q \in Ops : Dirty(q) => op[q].item \in Items
    BY DEF MemoryInv, MemoryType, OwnInv
  <2> QED
    BY <1>1, <1>3, <2>1, <2>2 DEF MemoryInv, OwnInv
<1>6. KeptInv'
  <2>1. \A j \in acked' : mem'[j] # None /\ disk'.mem[j] # None
    BY <1>3 DEF MemoryInv, MemoryType, KeptInv
  <2>2. ASSUME ~broken', NEW j \in Items,
               \A q \in Ops : ~(op'[q].pc = "index" /\ op'[q].item = j)
        PROVE  j \in fts' <=> mem'[j] # None
    <3>1. j # i
      BY <1>1, <1>3, <2>2
    <3>2. \A q \in Ops : ~(op[q].pc = "index" /\ op[q].item = j)
      BY <1>3, <2>2
    <3> QED
      BY <1>3, <2>2, <3>1, <3>2 DEF MemoryInv, KeptInv
  <2>3. Dirty(o)'
    BY <1>1, <1>3 DEF Dirty
  <2> QED
    BY <2>1, <2>2, <2>3 DEF KeptInv
<1> QED
  BY <1>4, <1>5, <1>6 DEF MemoryInv

\* store() writes its row.
LEMMA StoreStep ==
    ASSUME MemoryInv, NEW o \in Ops, NEW i \in Items, NEW tier \in NewTiers,
           Memories!Store(o, i, tier)
    PROVE  MemoryInv'
<1>1. /\ i \notin used /\ used' = used \cup {i} /\ op[o].pc = "idle"
      /\ op' = [op EXCEPT ![o] =
                   [Memories!Idle EXCEPT !.kind = "store", !.item = i, !.pc = "index"]]
      /\ mem' = [mem EXCEPT ![i] = Memories!Row(tier, day)]
      /\ UNCHANGED <<fts, disk, aging, day, acked, broken>>
  BY DEF Memories!Store, Memories!Begin
<1>2. Memories!Row(tier, day) \in MemoryRow /\ Memories!Row(tier, day) # None
  BY RowIsRow DEF MemoryInv, MemoryType
<1>3. /\ \A q \in Ops : Dirty(q) => op[q].item # i
      /\ used' \subseteq Items /\ i \in used' \ acked'
  BY <1>1 DEF MemoryInv, MemoryType, OwnInv
<1> QED
  BY <1>1, <1>2, <1>3, BeginStep

\* delete() removes its row.
LEMMA DeleteStep ==
    ASSUME MemoryInv, NEW o \in Ops, NEW i \in Items, Memories!Delete(o, i)
    PROVE  MemoryInv'
<1>1. /\ i \in acked /\ acked' = acked \ {i} /\ op[o].pc = "idle"
      /\ op' = [op EXCEPT ![o] =
                   [Memories!Idle EXCEPT !.kind = "delete", !.item = i, !.pc = "index"]]
      /\ mem' = [mem EXCEPT ![i] = None]
      /\ UNCHANGED <<fts, disk, used, aging, day, broken>>
  BY DEF Memories!Delete, Memories!Begin
<1>2. /\ \A q \in Ops : Dirty(q) => op[q].item # i
      /\ used' \subseteq Items /\ i \in used' \ acked'
  BY <1>1 DEF MemoryInv, MemoryType, OwnInv
<1> QED
  BY <1>1, <1>2, BeginStep

\* The index statement of a store or delete: its row and entry agree again.
LEMMA IndexStep ==
    ASSUME MemoryInv, NEW o \in Ops, Memories!Index(o) PROVE MemoryInv'
<1> DEFINE i == op[o].item
           y == [op[o] EXCEPT !.pc = "commit"]
<1>1. /\ op[o].pc = "index" /\ fts' = Memories!Indexed(o)
      /\ UNCHANGED <<mem, disk, used, aging, day, acked, broken>>
  BY DEF Memories!Index
<1>2. op' = [op EXCEPT ![o] = y]
  BY DEF Memories!Index, Memories!GoTo, MemoryInv, MemoryType
<1>3. /\ y \in OpState /\ y.pc = "commit" /\ y.item = i /\ y.kind = op[o].kind
  BY DEF MemoryInv, MemoryType, OpState
<1> HIDE DEF y
<1>4. op' \in [Ops -> OpState] /\ op'[o] = y /\ (\A q \in Ops : q # o => op'[q] = op[q])
  BY <1>2, <1>3 DEF MemoryInv, MemoryType
<1>5. /\ i \in Items /\ op[o].kind \in {"store", "delete"}
      /\ op[o].kind = "store" <=> mem[i] # None
  BY <1>1 DEF MemoryInv, MemoryType, OwnInv, Dirty
<1>6. /\ fts' \subseteq Items /\ (i \in fts' <=> mem[i] # None)
      /\ \A j \in Items : j # i => (j \in fts' <=> j \in fts)
  BY <1>1, <1>5 DEF Memories!Indexed, MemoryInv, MemoryType
<1>7. MemoryType'
  BY <1>1, <1>3, <1>4, <1>6 DEF MemoryInv, MemoryType
<1>8. OwnInv'
  BY <1>1, <1>3, <1>4 DEF MemoryInv, OwnInv, Dirty
<1>9. KeptInv'
  <2>1. ASSUME ~broken', NEW j \in Items,
               \A q \in Ops : ~(op'[q].pc = "index" /\ op'[q].item = j)
        PROVE  j \in fts' <=> mem'[j] # None
    <3>1. CASE j = i
      BY <1>1, <1>6, <3>1
    <3>2. CASE j # i
      <4>1. \A q \in Ops : ~(op[q].pc = "index" /\ op[q].item = j)
        BY <1>4, <2>1, <3>2
      <4> QED
        BY <1>1, <1>6, <2>1, <3>2, <4>1 DEF MemoryInv, KeptInv
    <3> QED
      BY <3>1, <3>2
  <2>2. Dirty(o)'
    BY <1>3, <1>4 DEF Dirty
  <2> QED
    BY <1>1, <2>1, <2>2 DEF MemoryInv, KeptInv
<1> QED
  BY <1>7, <1>8, <1>9 DEF MemoryInv

\* The commit of a store or delete commits for everybody.
LEMMA FinishStep ==
    ASSUME MemoryInv, NEW o \in Ops, Memories!Finish(o) PROVE MemoryInv'
<1> DEFINE i == op[o].item
<1>1. /\ op[o].pc = "commit" /\ op' = [op EXCEPT ![o] = Memories!Idle]
      /\ acked' = IF op[o].kind = "store" THEN acked \cup {i} ELSE acked
      /\ disk' = [mem |-> mem, fts |-> fts]
      /\ UNCHANGED <<mem, fts, used, aging, day, broken>>
  BY DEF Memories!Finish, Memories!Commit, Memories!CommitWith, Memories!Return
<1>2. op' \in [Ops -> OpState] /\ op'[o].pc = "idle" /\ (\A q \in Ops : q # o => op'[q] = op[q])
  BY <1>1, IdleOp DEF MemoryInv, MemoryType
<1>3. /\ i \in used \ acked /\ (op[o].kind = "store" <=> mem[i] # None)
      /\ \A q \in Ops : Dirty(q) /\ q # o => op[q].item # i
  BY <1>1 DEF MemoryInv, OwnInv, Dirty
<1>4. /\ disk' \in [mem : Rows, fts : SUBSET Items] /\ disk'.mem = mem'
      /\ disk' = [mem |-> mem', fts |-> fts']
  BY <1>1 DEF MemoryInv, MemoryType
<1>5. MemoryType'
  BY <1>1, <1>2, <1>3, <1>4 DEF MemoryInv, MemoryType
<1>6. OwnInv'
  <2>1. \A q \in Ops : Dirty(q)' => q # o /\ Dirty(q) /\ op'[q] = op[q]
    BY <1>2 DEF Dirty
  <2> QED
    BY <1>1, <1>3, <2>1 DEF MemoryInv, OwnInv
<1>7. KeptInv'
  <2>1. \A j \in acked' : mem'[j] # None /\ disk'.mem[j] # None
    BY <1>1, <1>3, <1>4 DEF MemoryInv, KeptInv
  <2>2. ASSUME ~broken', NEW j \in Items,
               \A q \in Ops : ~(op'[q].pc = "index" /\ op'[q].item = j)
        PROVE  j \in fts' <=> mem'[j] # None
    <3>1. \A q \in Ops : ~(op[q].pc = "index" /\ op[q].item = j)
      BY <1>1, <1>2, <2>2
    <3> QED
      BY <1>1, <2>2, <3>1 DEF MemoryInv, KeptInv
  <2> QED
    BY <1>4, <2>1, <2>2 DEF KeptInv
<1> QED
  BY <1>5, <1>6, <1>7 DEF MemoryInv

\* After an interruption the index is no longer promised, the acknowledged rows are.
LEMMA CancelMemoryStep ==
    ASSUME MemoryInv, NEW o \in Ops, Memories!Cancel(o) PROVE MemoryInv'
<1>1. /\ broken' = (broken \/ Dirty(o)) /\ op' = [op EXCEPT ![o] = Memories!Idle]
      /\ UNCHANGED <<mem, fts, disk, used, aging, day, acked>>
  BY DEF Memories!Cancel, Memories!Return, Dirty
<1>2. op' \in [Ops -> OpState] /\ op'[o].pc = "idle" /\ (\A q \in Ops : q # o => op'[q] = op[q])
  BY <1>1, IdleOp DEF MemoryInv, MemoryType
<1>3. broken' \in BOOLEAN
  BY <1>1 DEF MemoryInv, MemoryType, Dirty
<1>4. MemoryType'
  BY <1>1, <1>2, <1>3 DEF MemoryInv, MemoryType
<1>5. OwnInv'
  BY <1>1, <1>2 DEF MemoryInv, OwnInv, Dirty
<1>6. KeptInv'
  <2>1. ~broken' => ~broken /\ ~Dirty(o)
    BY <1>1
  <2>2. ASSUME ~broken', NEW j \in Items,
               \A q \in Ops : ~(op'[q].pc = "index" /\ op'[q].item = j)
        PROVE  j \in fts' <=> mem'[j] # None
    <3>1. \A q \in Ops : ~(op[q].pc = "index" /\ op[q].item = j)
      BY <1>2, <2>1, <2>2 DEF Dirty
    <3> QED
      BY <1>1, <2>1, <2>2, <3>1 DEF MemoryInv, KeptInv
  <2>3. ASSUME ~broken', \A q \in Ops : ~Dirty(q)' PROVE disk' = [mem |-> mem', fts |-> fts']
    <3>1. \A q \in Ops : ~Dirty(q)
      BY <1>2, <2>1, <2>3 DEF Dirty
    <3> QED
      BY <1>1, <2>1, <2>3, <3>1 DEF MemoryInv, KeptInv
  <2> QED
    BY <1>1, <2>2, <2>3 DEF MemoryInv, KeptInv
<1> QED
  BY <1>4, <1>5, <1>6 DEF MemoryInv

\* The connection goes back to the last commit.
LEMMA KillMemoryStep ==
    ASSUME MemoryInv, Memories!Kill PROVE MemoryInv'
<1>1. /\ broken' = (broken \/ \E o \in Ops : Dirty(o))
      /\ mem' = disk.mem /\ fts' = disk.fts
      /\ op' = [o \in Ops |-> Memories!Idle] /\ aging' = Memories!NoPass
      /\ UNCHANGED <<disk, used, day, acked>>
  BY DEF Memories!Kill, Dirty
<1>2. op' \in [Ops -> OpState] /\ \A o \in Ops : op'[o].pc = "idle"
  BY <1>1, IdleOp
<1>3. disk \in [mem : Rows, fts : SUBSET Items] /\ disk = [mem |-> disk.mem, fts |-> disk.fts]
  BY DEF MemoryInv, MemoryType
<1>4. AgingType'
  BY <1>1 DEF AgingType, Memories!NoPass, Rows
<1>5. broken' \in BOOLEAN
  BY <1>1 DEF MemoryInv, MemoryType, Dirty
<1>6. MemoryType'
  BY <1>1, <1>2, <1>3, <1>4, <1>5 DEF MemoryInv, MemoryType, AgingType
<1>7. OwnInv'
  BY <1>2 DEF OwnInv, Dirty
<1>8. KeptInv'
  <2>1. \A j \in acked' : mem'[j] # None /\ disk'.mem[j] # None
    BY <1>1 DEF MemoryInv, KeptInv
  <2>2. disk' = [mem |-> mem', fts |-> fts']
    BY <1>1, <1>3
  <2>3. ASSUME ~broken' PROVE \A j \in Items : j \in fts' <=> mem'[j] # None
    <3>1. ~broken /\ \A o \in Ops : ~Dirty(o)
      BY <1>1, <2>3
    <3>2. disk = [mem |-> mem, fts |-> fts]
      BY <3>1 DEF MemoryInv, KeptInv
    <3>3. mem' = mem /\ fts' = fts
      BY <1>1, <3>2
    <3> QED
      BY <3>1, <3>3 DEF MemoryInv, KeptInv, Dirty
  <2> QED
    BY <2>1, <2>2, <2>3 DEF KeptInv
<1> QED
  BY <1>6, <1>7, <1>8 DEF MemoryInv

\* Every step keeps the invariant of the memory.
LEMMA MemoryNext ==
    ASSUME MemoryInv, Memories!Next PROVE MemoryInv'
<1>1. CASE \E o \in Ops, i \in Items, tier \in NewTiers : Memories!Store(o, i, tier)
  BY <1>1, StoreStep
<1>2. CASE \E o \in Ops, i \in Items :
               Memories!Delete(o, i) \/ Memories!Move(o, i, TRUE) \/ Memories!Move(o, i, FALSE)
  BY <1>2, DeleteStep, MoveTierStep
<1>3. CASE \E o \in Ops, found \in SUBSET Items : Memories!Search(o, found)
  BY <1>3, SearchStep
<1>4. CASE \E o \in Ops : Memories!OpStep(o) \/ Memories!Cancel(o)
  BY <1>4, IndexStep, FinishStep, TouchStep, UpdateTierStep, CancelMemoryStep DEF
     Memories!OpStep
<1>5. CASE Memories!StoreAge \/ Memories!AgingStep \/ Memories!Kill \/ Memories!Tick
  BY <1>5, StoreAgeStep, ScanStep, AgeItemStep, KillMemoryStep, TickMemoryStep
     DEF Memories!AgingStep
<1> QED
  BY <1>1, <1>2, <1>3, <1>4, <1>5 DEF Memories!Next

\* The inductive invariant of the memory store: whatever the interleaving of the operations'
\* statements on the one connection, kills and cancellations, a row that is being written has
\* one owner.
THEOREM MemoryInvariant == Spec => []MemoryInv
<1>1. Init => MemoryInv
  BY MemoryInitial DEF Init
<1>2. MemoryInv /\ [Next]_vars => MemoryInv'
  <2> SUFFICES ASSUME MemoryInv, [Next]_vars PROVE MemoryInv'
    OBVIOUS
  <2>1. Memories!Next \/ UNCHANGED memories
    BY DEF Next, vars
  <2>2. CASE UNCHANGED memories
    <3>1. UNCHANGED <<mem, fts, disk, used, op, aging, day, acked, broken>>
      BY <2>2 DEF memories
    <3> QED
      BY <3>1 DEF MemoryInv, MemoryType, OwnInv, KeptInv, Dirty
  <2> QED
    BY <2>1, <2>2, MemoryNext
<1> QED
  BY <1>1, <1>2, PTL DEF Spec

\* For every set of items and concurrent operations: when nothing was interrupted and no
\* operation is between its statements, rows, index and disk agree; and what store()
\* acknowledged is on disk until delete() is called (store.py, retrieval.py, lifecycle.py).
THEOREM MemorySoundHolds == Spec => []MemorySound
<1>1. MemoryInv => MemorySound
  <2> SUFFICES ASSUME MemoryInv PROVE Memories!IndexMirrors /\ Memories!AcknowledgedLasts
    BY DEF MemorySound
  <2>1. Memories!AcknowledgedLasts
    BY DEF Memories!AcknowledgedLasts, MemoryInv, MemoryType, KeptInv
  <2>2. ASSUME ~broken, \A o \in Ops : op[o].pc \notin {"index", "commit"}
        PROVE  fts = Memories!Stored /\ disk = [mem |-> mem, fts |-> fts]
    <3>1. \A i \in Items : i \in fts <=> mem[i] # None
      BY <2>2 DEF MemoryInv, KeptInv
    <3>2. fts = Memories!Stored
      BY <3>1 DEF MemoryInv, MemoryType, Memories!Stored
    <3> QED
      BY <2>2, <3>2 DEF MemoryInv, KeptInv, Dirty
  <2> QED
    BY <2>1, <2>2 DEF Memories!IndexMirrors
<1> QED
  BY <1>1, MemoryInvariant, PTL

-----------------------------------------------------------------------------
(***************************************************************************)
(* The Telegram gateway (TelegramGateway).                                  *)
(***************************************************************************)

\* The update's user got a reply, or it may be passed over without one.
Excused(i) ==
    kind[i] \in {"malformed", "blocked"} \/ i \in answered \/ (beta /\ i \in dropped)

\* The bot will not handle this update again.
Passed(i) == i < offset \/ kind[i] = "malformed"

Handling == batch # <<>> /\ at \notin {"poll", "next"}

GatewayType ==
    /\ beta \in BOOLEAN /\ kind \in [1 .. N -> Gateway!Kinds]
    /\ sent \in 0 .. N
    /\ confirmed \in 1 .. (sent + 1) /\ saved \in 0 .. (sent + 1) /\ offset \in 0 .. (sent + 1)
    /\ row \in [1 .. N -> {"ABSENT", "RESERVED", "RUNNING", "COMPLETED", "FAILED"}]
    /\ names \in Seq(1 .. N) /\ seen \subseteq 1 .. N
    /\ batch \in Seq(1 .. N) /\ at \in {"poll", "next", "reserve", "mark", "run", "send",
                                        "decline", "finish", "advance"}
    /\ res \in {"ok", "rejected", "error"}

\* The batch is a run of consecutive updates that were sent.
BatchInv ==
    /\ at = "poll" => batch = <<>>
    /\ up \in BOOLEAN /\ (~up => at = "poll")
    /\ \A j \in DOMAIN batch : batch[j] = batch[1] + j - 1 /\ batch[j] <= sent
    /\ Handling => kind[batch[1]] # "malformed" /\ offset <= batch[1]
    /\ Handling /\ at \in {"reserve", "mark", "finish", "decline"} => beta

\* Whatever is behind the offset, behind what Telegram was told or behind the
\* batch is excused.
ExcusedInv ==
    /\ \A i \in 1 .. N : i < confirmed \/ i < offset \/ i < saved => Excused(i)
    /\ \A i \in seen : i < offset
    /\ batch # <<>> => \A i \in 1 .. N : i < batch[1] => Excused(i)
    /\ Handling /\ at \in {"finish", "advance"} /\ res # "error" => Excused(batch[1])
    /\ Handling /\ at = "finish" => batch[1] \in answered

\* In beta mode the offset is the durable one, and a name was written by an
\* update that has its row and before which nothing will be handled again.
NamesInv ==
    beta =>
        /\ offset = saved /\ \A i \in 1 .. N : i < confirmed => i < offset
        /\ batch # <<>> => \A i \in 1 .. N : i < batch[1] => Passed(i)
        /\ Handling /\ at \in {"mark", "run"} => row[batch[1]] # "ABSENT"
        /\ \A k \in DOMAIN names :
               /\ row[names[k]] # "ABSENT"
               /\ \A i \in 1 .. N : i < names[k] => Passed(i)
               /\ Handling /\ at \in {"mark", "run"} => names[k] # batch[1]
        /\ \A k, m \in DOMAIN names : k < m => names[k] < names[m]

GatewayInv == GatewayType /\ BatchInv /\ ExcusedInv /\ NamesInv

HIDE MemoryAssumption
USE GatewayAssumption

RowStates == {"ABSENT", "RESERVED", "RUNNING", "COMPLETED", "FAILED"}
Places    == {"poll", "next", "reserve", "mark", "run", "send", "decline", "finish", "advance"}

\* A sequence with elements has a first one.
LEMMA NonEmpty ==
    ASSUME NEW S, NEW s \in Seq(S), s # <<>> PROVE 1 \in DOMAIN s /\ s[1] \in S
  OBVIOUS

\* The update at the head of the batch is one that was sent.
LEMMA HeadOfBatch ==
    ASSUME GatewayInv, batch # <<>>
    PROVE  Gateway!u = batch[1] /\ batch[1] \in 1 .. N /\ batch[1] <= sent
<1>1. batch \in Seq(1 .. N)
  BY DEF GatewayInv, GatewayType
<1>2. 1 \in DOMAIN batch /\ batch[1] \in 1 .. N
  BY <1>1
<1> QED
  BY <1>1, <1>2 DEF Gateway!u, GatewayInv, BatchInv

\* Whoever is excused stays so.
LEMMA StaysExcused ==
    ASSUME NEW i, Excused(i), UNCHANGED <<beta, kind>>,
           answered \subseteq answered', dropped \subseteq dropped'
    PROVE  Excused(i)'
  BY DEF Excused

\* The update at the head of the batch moves on inside the handler.
LEMMA HandleStep ==
    ASSUME GatewayInv, batch # <<>>,
           UNCHANGED <<beta, kind, sent, confirmed, saved, names, up, offset, seen, batch>>,
           up, kind[batch[1]] # "malformed", offset <= batch[1],
           at' \in Places \ {"poll", "next"}, res' \in {"ok", "rejected", "error"},
           answered \subseteq answered', dropped \subseteq dropped',
           row' \in [1 .. N -> RowStates],
           \A i \in 1 .. N : row[i] # "ABSENT" => row'[i] # "ABSENT",
           at' \in {"reserve", "mark", "finish", "decline"} => beta,
           at' = "finish" => batch[1] \in answered',
           at' = "advance" /\ res' # "error" => Excused(batch[1])',
           beta /\ at' \in {"mark", "run"} =>
               row'[batch[1]] # "ABSENT" /\ \A k \in DOMAIN names : names[k] # batch[1]
    PROVE  GatewayInv'
<1>1. GatewayType'
  BY DEF GatewayInv, GatewayType, Places, RowStates
<1>2. BatchInv'
  BY DEF GatewayInv, BatchInv, Handling
<1>3. \A i : Excused(i) => Excused(i)'
  BY StaysExcused
<1>4. at' = "finish" => Excused(batch[1])'
  BY DEF Excused
<1>5. ExcusedInv'
  BY <1>3, <1>4 DEF GatewayInv, ExcusedInv, Handling
<1>6. NamesInv'
  <2> SUFFICES ASSUME beta PROVE NamesInv'
    BY DEF NamesInv
  <2>1. \A k \in DOMAIN names : names[k] \in 1 .. N
    BY DEF GatewayInv, GatewayType
  <2>2. \A i : Passed(i)' <=> Passed(i)
    BY DEF Passed
  <2>3. /\ offset' = saved' /\ \A i \in 1 .. N : i < confirmed' => i < offset'
    BY DEF GatewayInv, NamesInv
  <2>4. batch' # <<>> => \A i \in 1 .. N : i < batch'[1] => Passed(i)'
    BY <2>2 DEF GatewayInv, NamesInv
  <2>5. \A k \in DOMAIN names : /\ row'[names[k]] # "ABSENT"
                                /\ \A i \in 1 .. N : i < names[k] => Passed(i)'
    BY <2>1, <2>2 DEF GatewayInv, NamesInv
  <2>6. \A k, m \in DOMAIN names : k < m => names[k] < names[m]
    BY DEF GatewayInv, NamesInv
  <2> QED
    BY <2>3, <2>4, <2>5, <2>6 DEF NamesInv
<1> QED
  BY <1>1, <1>2, <1>5, <1>6 DEF GatewayInv

\* The batch is given up: what is left of it will be fetched again.
LEMMA GiveUpStep ==
    ASSUME GatewayInv, UNCHANGED <<beta, kind, sent, confirmed, saved, row, names, offset, seen>>,
           batch' = <<>>, at' = "poll", up' \in BOOLEAN, res' \in {"ok", "rejected", "error"},
           answered \subseteq answered', dropped \subseteq dropped'
    PROVE  GatewayInv'
<1>1. GatewayType'
  BY DEF GatewayInv, GatewayType
<1>2. BatchInv' /\ ~Handling'
  BY DEF BatchInv, Handling
<1>3. \A i : Excused(i) => Excused(i)'
  BY StaysExcused
<1>4. ExcusedInv'
  BY <1>2, <1>3 DEF GatewayInv, ExcusedInv
<1>5. \A i : Passed(i)' <=> Passed(i)
  BY DEF Passed
<1>6. NamesInv'
  BY <1>2, <1>5 DEF GatewayInv, NamesInv
<1> QED
  BY <1>1, <1>2, <1>4, <1>6 DEF GatewayInv

\* The next update of the batch: the one before it is excused and passed.
LEMMA TailStep ==
    ASSUME GatewayInv, batch # <<>>, UNCHANGED <<beta, kind, sent, confirmed, row, names, up, res,
                                                answered, dropped>>,
           batch' = Tail(batch), at' = "next", up,
           saved' \in 0 .. (sent + 1), offset' \in 0 .. (sent + 1), offset <= offset',
           seen' \subseteq 1 .. N, \A i \in seen' : i < offset',
           offset' <= offset \/ offset' <= batch[1] + 1,
           saved' <= saved \/ saved' <= batch[1] + 1,
           Excused(batch[1]),
           beta => (batch[1] < offset' \/ kind[batch[1]] = "malformed") /\ offset' = saved'
    PROVE  GatewayInv'
<1>1. batch \in Seq(1 .. N) /\ batch[1] \in 1 .. N /\ batch[1] <= sent
  BY HeadOfBatch DEF GatewayInv, GatewayType
<1>2. /\ batch' \in Seq(1 .. N) /\ DOMAIN batch' = 1 .. (Len(batch) - 1)
      /\ \A j \in DOMAIN batch' : batch'[j] = batch[j + 1] /\ j + 1 \in DOMAIN batch
  BY <1>1
<1>3. \A j \in DOMAIN batch' : batch'[j] = batch[1] + j /\ batch'[j] <= sent
  BY <1>1, <1>2 DEF GatewayInv, BatchInv
<1>4. batch' # <<>> => 1 \in DOMAIN batch' /\ batch'[1] = batch[1] + 1
  <2>1. batch' # <<>> => 1 \in DOMAIN batch'
    BY <1>2, NonEmpty
  <2> QED
    BY <1>3, <2>1
<1>5. GatewayType'
  BY <1>2 DEF GatewayInv, GatewayType
<1>6. ~Handling'
  BY DEF Handling
<1>7. BatchInv'
  BY SMTT(30), <1>1, <1>2, <1>3, <1>4, <1>6 DEF BatchInv
<1>8. \A i : Excused(i)' <=> Excused(i)
  BY DEF Excused
<1>9. \A i \in 1 .. N : i <= batch[1] => Excused(i)
  BY <1>1 DEF GatewayInv, ExcusedInv
<1>10. ExcusedInv'
  <2>1. /\ confirmed \in Int /\ offset \in Int /\ saved \in Int
        /\ offset' \in Int /\ saved' \in Int
    BY DEF GatewayInv, GatewayType
  <2>2. ASSUME NEW i \in 1 .. N, i < confirmed' \/ i < offset' \/ i < saved'
        PROVE  Excused(i)'
    <3>1. i < confirmed \/ i < offset \/ i < saved \/ i <= batch[1]
      BY <1>1, <2>1, <2>2
    <3> QED
      BY <1>8, <1>9, <3>1 DEF GatewayInv, ExcusedInv
  <2>3. batch' # <<>> => \A i \in 1 .. N : i < batch'[1] => Excused(i)'
    BY SMTT(30), <1>1, <1>4, <1>8, <1>9
  <2> QED
    BY <1>6, <2>2, <2>3 DEF ExcusedInv
<1>11. NamesInv'
  <2> SUFFICES ASSUME beta PROVE NamesInv'
    BY DEF NamesInv
  <2>1. offset \in Int /\ offset' \in Int /\ confirmed \in Int
    BY DEF GatewayInv, GatewayType
  <2>2. \A i \in 1 .. N : Passed(i) => Passed(i)'
    BY <2>1 DEF Passed
  <2>3. /\ offset' = saved' /\ \A i \in 1 .. N : i < confirmed' => i < offset'
    BY <2>1 DEF GatewayInv, NamesInv
  <2>4. batch' # <<>> => \A i \in 1 .. N : i < batch'[1] => Passed(i)'
    <3> SUFFICES ASSUME batch' # <<>>, NEW i \in 1 .. N, i < batch'[1] PROVE Passed(i)'
      OBVIOUS
    <3>1. i < batch[1] \/ i = batch[1]
      BY SMTT(30), <1>1, <1>4
    <3> QED
      BY <2>2, <3>1 DEF GatewayInv, NamesInv, Passed
  <2> QED
    BY <1>6, <2>2, <2>3, <2>4 DEF GatewayInv, NamesInv
<1> QED
  BY <1>5, <1>7, <1>10, <1>11 DEF GatewayInv

\* What holds of the update in hand at a place of the handler.
LEMMA AtPlace ==
    ASSUME GatewayInv, NEW place, Gateway!At(place)
    PROVE  /\ up /\ at = place /\ batch # <<>> /\ Gateway!u = batch[1] /\ batch[1] \in 1 .. N
           /\ place \in Places \ {"poll", "next"} =>
                  /\ Handling /\ kind[batch[1]] # "malformed" /\ offset <= batch[1]
                  /\ place \in {"reserve", "mark", "finish", "decline"} => beta
<1>1. up /\ at = place /\ batch # <<>>
  BY DEF Gateway!At
<1>2. Gateway!u = batch[1] /\ batch[1] \in 1 .. N
  BY <1>1, HeadOfBatch
<1>3. place \in Places \ {"poll", "next"} => Handling
  BY <1>1 DEF Handling, Places
<1> QED
  BY <1>1, <1>2, <1>3 DEF GatewayInv, BatchInv, Places

\* The status of the handler and the rows of the ledger keep their type.
LEMMA ResOk == ASSUME GatewayInv PROVE res \in {"ok", "rejected", "error"}
                                    /\ row \in [1 .. N -> RowStates]
  BY DEF GatewayInv, GatewayType, RowStates

\* The handler starts: it refuses the update or goes on with it.
LEMMA BeginHandling ==
    ASSUME GatewayInv, Gateway!Begin PROVE GatewayInv'
<1>1. /\ Gateway!At("next") /\ ~Gateway!Skipped
      /\ UNCHANGED <<beta, kind, sent, confirmed, saved, row, names, up, offset, seen, batch,
                     answered, dropped>>
  BY DEF Gateway!Begin, Gateway!world, Gateway!disk, Gateway!past
<1>2. up /\ at = "next" /\ batch # <<>> /\ Gateway!u = batch[1] /\ batch[1] \in 1 .. N
  BY <1>1, AtPlace
<1>3. kind[batch[1]] # "malformed" /\ offset <= batch[1]
  BY <1>1, <1>2 DEF Gateway!Skipped, GatewayInv, GatewayType
<1>4. \/ kind[batch[1]] = "blocked" /\ res' = "rejected" /\ at' = "advance"
      \/ at' = (IF beta THEN "reserve" ELSE "run") /\ UNCHANGED res
  BY <1>2 DEF Gateway!Begin, Gateway!Result, Gateway!Goto
<1>5. CASE kind[batch[1]] = "blocked" /\ res' = "rejected" /\ at' = "advance"
  <2>1. Excused(batch[1])'
    BY <1>1, <1>5 DEF Excused
  <2> QED
    BY <1>1, <1>2, <1>3, <1>5, <2>1, HandleStep, ResOk DEF Places
<1>6. CASE at' = (IF beta THEN "reserve" ELSE "run") /\ UNCHANGED res
  <2>1. (at' = "reserve" /\ beta) \/ (at' = "run" /\ ~beta)
    BY <1>6
  <2> QED
    BY <1>1, <1>2, <1>3, <1>6, <2>1, HandleStep, ResOk DEF Places
<1> QED
  BY <1>4, <1>5, <1>6

\* reserve_request: a new row, or a reply to a replay or over the quota.
LEMMA ReserveStep ==
    ASSUME GatewayInv, Gateway!Reserve PROVE GatewayInv'
<1>1. /\ Gateway!At("reserve")
      /\ UNCHANGED <<beta, kind, sent, confirmed, saved, names, up, offset, seen, batch, res,
                     answered, dropped>>
  BY DEF Gateway!Reserve, Gateway!world, Gateway!past
<1>2. /\ up /\ batch # <<>> /\ Gateway!u = batch[1] /\ batch[1] \in 1 .. N
      /\ kind[batch[1]] # "malformed" /\ offset <= batch[1] /\ beta
  BY <1>1, AtPlace DEF Places
<1>3. CASE /\ row[batch[1]] = "ABSENT" /\ row' = [row EXCEPT ![batch[1]] = "RESERVED"]
           /\ at' = "mark"
  <2>1. \A k \in DOMAIN names : names[k] # batch[1]
    BY <1>2, <1>3 DEF GatewayInv, NamesInv
  <2>2. /\ row' \in [1 .. N -> RowStates] /\ row'[batch[1]] # "ABSENT"
        /\ \A i \in 1 .. N : row[i] # "ABSENT" => row'[i] # "ABSENT"
    BY <1>2, <1>3, ResOk DEF RowStates
  <2> QED
    BY <1>1, <1>2, <1>3, <2>1, <2>2, HandleStep, ResOk DEF Places
<1>4. CASE UNCHANGED row /\ at' = "decline"
  BY <1>1, <1>2, <1>4, HandleStep, ResOk DEF Places
<1> QED
  BY <1>2, <1>3, <1>4 DEF Gateway!Reserve, Gateway!IsNew, Gateway!Goto

\* mark_running.
LEMMA MarkRunningStep ==
    ASSUME GatewayInv, Gateway!MarkRunning PROVE GatewayInv'
<1>1. /\ Gateway!At("mark") /\ at' = "run"
      /\ UNCHANGED <<beta, kind, sent, confirmed, saved, names, up, offset, seen, batch, res,
                     answered, dropped>>
  BY DEF Gateway!MarkRunning, Gateway!world, Gateway!past, Gateway!Goto
<1>2. /\ up /\ at = "mark" /\ batch # <<>> /\ Gateway!u = batch[1] /\ batch[1] \in 1 .. N
      /\ kind[batch[1]] # "malformed" /\ offset <= batch[1] /\ beta /\ Handling
  BY <1>1, AtPlace DEF Places
<1>3. row' = [row EXCEPT ![batch[1]] = "RUNNING"]
  BY <1>2 DEF Gateway!MarkRunning
<1>4. \A k \in DOMAIN names : names[k] # batch[1]
  BY <1>2 DEF GatewayInv, NamesInv
<1>5. /\ row' \in [1 .. N -> RowStates] /\ row'[batch[1]] # "ABSENT"
      /\ \A i \in 1 .. N : row[i] # "ABSENT" => row'[i] # "ABSENT"
  BY <1>2, <1>3, ResOk DEF RowStates
<1> QED
  BY <1>1, <1>2, <1>4, <1>5, HandleStep, ResOk DEF Places

\* The ledger fails and the update is passed over, on record.
LEMMA LedgerFailsStep ==
    ASSUME GatewayInv, Gateway!LedgerFails PROVE GatewayInv'
<1>1. PICK place \in {"reserve", "mark", "finish"} : Gateway!At(place)
  BY DEF Gateway!LedgerFails
<1>2. /\ up /\ batch # <<>> /\ Gateway!u = batch[1] /\ batch[1] \in 1 .. N
      /\ kind[batch[1]] # "malformed" /\ offset <= batch[1] /\ beta
  BY <1>1, AtPlace DEF Places
<1>3. /\ res' = "rejected" /\ at' = "advance" /\ dropped' = dropped \cup {batch[1]}
      /\ UNCHANGED <<beta, kind, sent, confirmed, saved, row, names, up, offset, seen, batch,
                     answered>>
  BY <1>2 DEF Gateway!LedgerFails, Gateway!world, Gateway!disk, Gateway!Result,
     Gateway!Goto
<1>4. Excused(batch[1])'
  BY <1>2, <1>3 DEF Excused
<1> QED
  BY <1>2, <1>3, <1>4, HandleStep, ResOk DEF Places

\* finish_request, after the reply was sent.
LEMMA FinishRequestStep ==
    ASSUME GatewayInv, Gateway!FinishRequest PROVE GatewayInv'
<1>1. /\ Gateway!At("finish") /\ at' = "advance"
      /\ UNCHANGED <<beta, kind, sent, confirmed, saved, names, up, offset, seen, batch, res,
                     answered, dropped>>
  BY DEF Gateway!FinishRequest, Gateway!world, Gateway!past, Gateway!Goto
<1>2. /\ up /\ at = "finish" /\ batch # <<>> /\ Gateway!u = batch[1] /\ batch[1] \in 1 .. N
      /\ kind[batch[1]] # "malformed" /\ offset <= batch[1] /\ beta /\ Handling
  BY <1>1, AtPlace DEF Places
<1>3. row' = [row EXCEPT ![batch[1]] = IF res = "ok" THEN "COMPLETED" ELSE "FAILED"]
  BY <1>2 DEF Gateway!FinishRequest
<1>4. /\ row' \in [1 .. N -> RowStates]
      /\ \A i \in 1 .. N : row[i] # "ABSENT" => row'[i] # "ABSENT"
  BY <1>2, <1>3, ResOk DEF RowStates
<1>5. Excused(batch[1])'
  BY <1>1, <1>2 DEF GatewayInv, ExcusedInv, Excused
<1> QED
  BY <1>1, <1>2, <1>4, <1>5, HandleStep, ResOk DEF Places

\* The handler answers an update without an effect.
LEMMA ReplyStep ==
    ASSUME GatewayInv, Gateway!At("run"), at' = "send", res' \in {"ok", "rejected", "error"},
           UNCHANGED <<beta, kind, sent, confirmed, saved, row, names, up, offset, seen, batch,
                       answered, dropped>>
    PROVE  GatewayInv'
<1>1. /\ up /\ batch # <<>> /\ batch[1] \in 1 .. N
      /\ kind[batch[1]] # "malformed" /\ offset <= batch[1]
  BY AtPlace DEF Places
<1> QED
  BY <1>1, HandleStep, ResOk DEF Places

\* A name is written: in beta mode after all that were written before.
LEMMA NameStep ==
    ASSUME GatewayInv, Gateway!At("run"), at' = "send", res' = "ok",
           names' = Append(names, batch[1]),
           UNCHANGED <<beta, kind, sent, confirmed, saved, row, up, offset, seen, batch,
                       answered, dropped>>
    PROVE  GatewayInv'
<1>1. /\ up /\ at = "run" /\ batch # <<>> /\ batch[1] \in 1 .. N /\ Handling
      /\ kind[batch[1]] # "malformed" /\ offset <= batch[1]
  BY AtPlace DEF Places
<1>2. /\ names \in Seq(1 .. N) /\ names' \in Seq(1 .. N)
      /\ DOMAIN names = 1 .. Len(names) /\ DOMAIN names' = 1 .. (Len(names) + 1)
      /\ \A k \in 1 .. Len(names) : names'[k] = names[k] /\ names[k] \in 1 .. N
      /\ names'[Len(names) + 1] = batch[1] /\ Len(names) \in Nat
  BY SMTT(30), <1>1 DEF GatewayInv, GatewayType
<1>3. GatewayType'
  BY <1>2 DEF GatewayInv, GatewayType
<1>4. BatchInv'
  BY <1>1 DEF GatewayInv, BatchInv, Handling
<1>5. ExcusedInv'
  <2>1. \A i : Excused(i)' <=> Excused(i)
    BY DEF Excused
  <2> QED
    BY <2>1 DEF GatewayInv, ExcusedInv, Handling
<1>6. NamesInv'
  <2> SUFFICES ASSUME beta PROVE NamesInv'
    BY DEF NamesInv
  <2>1. \A i : Passed(i)' <=> Passed(i)
    BY DEF Passed
  <2>2. ASSUME NEW k \in 1 .. Len(names) PROVE names[k] < batch[1]
    <3>1. names[k] # batch[1] /\ \A i \in 1 .. N : i < names[k] => Passed(i)
      BY <1>1, <1>2 DEF GatewayInv, NamesInv
    <3>2. ~Passed(batch[1])
      BY <1>1 DEF Passed, GatewayInv, GatewayType
    <3> QED
      BY <1>1, <1>2, <3>1, <3>2
  <2>3. /\ offset' = saved' /\ \A i \in 1 .. N : i < confirmed' => i < offset'
    BY DEF GatewayInv, NamesInv
  <2>4. batch' # <<>> => \A i \in 1 .. N : i < batch'[1] => Passed(i)'
    BY <2>1 DEF GatewayInv, NamesInv
  <2>5. row[batch[1]] # "ABSENT"
    BY <1>1 DEF GatewayInv, NamesInv
  <2>6. ASSUME NEW k \in DOMAIN names'
        PROVE  /\ row'[names'[k]] # "ABSENT"
               /\ \A i \in 1 .. N : i < names'[k] => Passed(i)'
    <3>1. CASE k \in 1 .. Len(names)
      BY <1>2, <2>1, <3>1 DEF GatewayInv, NamesInv
    <3>2. CASE k = Len(names) + 1
      BY <1>1, <1>2, <2>1, <2>5, <3>2 DEF GatewayInv, NamesInv
    <3> QED
      BY <1>2, <2>6, <3>1, <3>2
  <2>7. ASSUME NEW k \in DOMAIN names', NEW m \in DOMAIN names', k < m
        PROVE  names'[k] < names'[m]
    <3>1. k \in 1 .. Len(names)
      BY <1>2, <2>7
    <3>2. CASE m \in 1 .. Len(names)
      BY <1>2, <2>7, <3>1, <3>2 DEF GatewayInv, NamesInv
    <3>3. CASE m = Len(names) + 1
      BY <1>2, <2>2, <3>1, <3>3
    <3> QED
      BY <1>2, <2>7, <3>2, <3>3
  <2> QED
    BY <2>3, <2>4, <2>6, <2>7 DEF NamesInv
<1> QED
  BY <1>3, <1>4, <1>5, <1>6 DEF GatewayInv

\* send_message delivers the reply.
LEMMA SendReplyStep ==
    ASSUME GatewayInv, Gateway!SendReply PROVE GatewayInv'
<1>1. PICK place \in {"send", "decline"} : Gateway!At(place)
  BY DEF Gateway!SendReply
<1>2. /\ up /\ batch # <<>> /\ Gateway!u = batch[1] /\ batch[1] \in 1 .. N
      /\ kind[batch[1]] # "malformed" /\ offset <= batch[1]
  BY <1>1, AtPlace DEF Places
<1>3. /\ answered' = answered \cup {batch[1]}
      /\ UNCHANGED <<beta, kind, sent, confirmed, saved, row, names, up, offset, seen, batch,
                     dropped>>
  BY <1>2 DEF Gateway!SendReply, Gateway!world, Gateway!disk
<1>4. /\ at' \in {"finish", "advance"} /\ (at' = "finish" => beta)
      /\ res' \in {"ok", "rejected", "error"}
  BY ResOk DEF Gateway!SendReply, Gateway!Goto, Gateway!Result
<1>5. Excused(batch[1])' /\ batch[1] \in answered'
  BY <1>3 DEF Excused
<1> QED
  BY <1>2, <1>3, <1>4, <1>5, HandleStep, ResOk DEF Places

\* The transport fails: the update stays pending, or is passed over on record.
LEMMA SendFailsStep ==
    ASSUME GatewayInv, Gateway!SendFails PROVE GatewayInv'
<1>1. PICK place \in {"send", "decline"} : Gateway!At(place)
  BY DEF Gateway!SendFails
<1>2. /\ up /\ batch # <<>> /\ Gateway!u = batch[1] /\ batch[1] \in 1 .. N
      /\ kind[batch[1]] # "malformed" /\ offset <= batch[1]
  BY <1>1, AtPlace DEF Places
<1>3. /\ answered \subseteq answered'
      /\ UNCHANGED <<beta, kind, sent, confirmed, saved, row, names, up, offset, seen>>
  BY DEF Gateway!SendFails, Gateway!world, Gateway!disk
<1>4. CASE at' = "poll" /\ batch' = <<>> /\ UNCHANGED <<res, dropped>>
  BY <1>2, <1>3, <1>4, GiveUpStep, ResOk
<1>5. CASE /\ beta /\ res' = "rejected" /\ at' = "advance" /\ dropped' = dropped \cup {batch[1]}
           /\ UNCHANGED batch
  <2>1. Excused(batch[1])'
    BY <1>3, <1>5 DEF Excused
  <2> QED
    BY <1>2, <1>3, <1>5, <2>1, HandleStep, ResOk DEF Places
<1> QED
  BY <1>2, <1>4, <1>5 DEF Gateway!SendFails, Gateway!Transient, Gateway!Goto,
     Gateway!Result

\* The offset moves past an update whose handler ended.
LEMMA AdvanceStep ==
    ASSUME GatewayInv, Gateway!Advance PROVE GatewayInv'
<1>1. Gateway!At("advance") /\ res # "error"
  BY DEF Gateway!Advance, Gateway!Advances
<1>2. /\ up /\ at = "advance" /\ batch # <<>> /\ Gateway!u = batch[1] /\ batch[1] \in 1 .. N
      /\ Handling /\ offset <= batch[1]
  BY <1>1, AtPlace DEF Places
<1>3. offset \in Nat /\ batch[1] <= sent /\ sent \in Nat /\ saved \in 0 .. (sent + 1)
  BY <1>2, HeadOfBatch DEF GatewayInv, GatewayType
<1>4. offset' = batch[1] + 1 /\ saved' = IF beta THEN batch[1] + 1 ELSE saved
  BY <1>2, <1>3 DEF Gateway!Advance, Gateway!Larger
<1>5. /\ UNCHANGED <<beta, kind, sent, confirmed, row, names, up, res, answered, dropped>>
      /\ batch' = Tail(batch) /\ at' = "next"
  BY DEF Gateway!Advance, Gateway!world, Gateway!past, Gateway!Goto
<1>6. seen' \subseteq seen \cup {batch[1]}
  BY <1>2 DEF Gateway!Advance, Gateway!Remember
<1>7. seen' \subseteq 1 .. N /\ \A i \in seen' : i < offset'
  BY SMTT(30), <1>2, <1>3, <1>4, <1>6 DEF GatewayInv, GatewayType, ExcusedInv
<1>8. Excused(batch[1])
  BY <1>1, <1>2 DEF GatewayInv, ExcusedInv
<1>9. /\ saved' \in 0 .. (sent + 1) /\ offset' \in 0 .. (sent + 1) /\ offset <= offset'
      /\ offset' <= batch[1] + 1 /\ (saved' <= saved \/ saved' <= batch[1] + 1)
      /\ beta => batch[1] < offset' /\ offset' = saved'
  BY <1>2, <1>3, <1>4
<1> QED
  BY <1>2, <1>5, <1>7, <1>8, <1>9, TailStep

\* An update that was handled before, or has no id, is skipped.
LEMMA SkipStep ==
    ASSUME GatewayInv, Gateway!Skip PROVE GatewayInv'
<1>1. /\ Gateway!At("next") /\ Gateway!Skipped /\ batch' = Tail(batch)
      /\ UNCHANGED <<beta, kind, sent, confirmed, saved, row, names, up, offset, seen, at, res,
                     answered, dropped>>
  BY DEF Gateway!Skip, Gateway!world, Gateway!disk, Gateway!past
<1>2. up /\ at = "next" /\ batch # <<>> /\ Gateway!u = batch[1] /\ batch[1] \in 1 .. N
  BY <1>1, AtPlace
<1>3. batch[1] < offset \/ kind[batch[1]] = "malformed"
  BY <1>1, <1>2 DEF Gateway!Skipped, GatewayInv, ExcusedInv
<1>4. Excused(batch[1])
  BY <1>2, <1>3 DEF GatewayInv, ExcusedInv, Excused
<1>5. /\ saved \in 0 .. (sent + 1) /\ offset \in 0 .. (sent + 1) /\ seen \subseteq 1 .. N
      /\ (\A i \in seen : i < offset) /\ (beta => offset = saved)
  BY DEF GatewayInv, GatewayType, ExcusedInv, NamesInv
<1> QED
  BY <1>1, <1>2, <1>3, <1>4, <1>5, TailStep

\* The branches of the handler that end in a reply.
LEMMA RepliesStep ==
    ASSUME GatewayInv,
           \/ Gateway!ProfileUnavailable \/ Gateway!NameCommand \/ Gateway!Command
           \/ Gateway!CallButler
    PROVE  GatewayInv'
<1>1. /\ Gateway!At("run") /\ at' = "send" /\ res' \in {"ok", "rejected", "error"}
      /\ UNCHANGED <<beta, kind, sent, confirmed, saved, row, up, offset, seen, batch,
                     answered, dropped>>
  BY DEF Gateway!ProfileUnavailable, Gateway!NameCommand, Gateway!Command,
     Gateway!CallButler,
         Gateway!Reply, Gateway!Goto, Gateway!world, Gateway!disk, Gateway!past
<1>2. Gateway!u = batch[1]
  BY <1>1, AtPlace
<1>3. UNCHANGED names \/ (names' = Append(names, batch[1]) /\ res' = "ok")
  BY <1>2 DEF Gateway!ProfileUnavailable, Gateway!NameCommand, Gateway!Command,
         Gateway!CallButler, Gateway!Reply, Gateway!disk
<1> QED
  BY <1>1, <1>3, ReplyStep, NameStep

\* The failures after which the rest of the batch is fetched again.
LEMMA GivesUpStep ==
    ASSUME GatewayInv,
           \/ Gateway!HandlerRaises \/ Gateway!PersistFails \/ Gateway!StayPending
           \/ Gateway!Stop
    PROVE  GatewayInv'
<1>1. /\ batch' = <<>> /\ at' = "poll"
      /\ UNCHANGED <<beta, kind, sent, confirmed, saved, row, names, offset, seen, res,
                     answered, dropped>>
  BY DEF Gateway!HandlerRaises, Gateway!PersistFails, Gateway!StayPending, Gateway!Stop,
         Gateway!Transient, Gateway!Goto, Gateway!world, Gateway!disk, Gateway!past
<1>2. up' \in BOOLEAN
  BY DEF Gateway!HandlerRaises, Gateway!PersistFails, Gateway!StayPending, Gateway!Stop,
         GatewayInv, BatchInv
<1> QED
  BY <1>1, <1>2, GiveUpStep, ResOk

\* What Telegram is asked for, and the run of updates that it answers with.
LEMMA ConfirmedBounds ==
    ASSUME GatewayInv, NEW c, c \in {confirmed, Gateway!Larger(confirmed, offset)}
    PROVE  /\ c \in 1 .. (sent + 1) /\ c \in Int /\ sent \in 0 .. N /\ sent \in Int
           /\ \A i \in 1 .. N : i < c => Excused(i) /\ (beta => i < offset)
<1>1. /\ confirmed \in 1 .. (sent + 1) /\ offset \in 0 .. (sent + 1)
      /\ sent \in 0 .. N /\ sent \in Int
  BY DEF GatewayInv, GatewayType
<1>2. c = confirmed \/ (c = offset /\ confirmed < offset)
  BY <1>1 DEF Gateway!Larger
<1>3. c \in 1 .. (sent + 1) /\ c \in Int
  BY <1>1, <1>2
<1>4. \A i \in 1 .. N : i < c => Excused(i) /\ (beta => i < offset)
  BY <1>2 DEF GatewayInv, ExcusedInv, NamesInv
<1> QED
  BY <1>1, <1>3, <1>4

\* An answer of getUpdates is a run of consecutive updates.
LEMMA AnswerIsRun ==
    ASSUME NEW s \in 0 .. N, NEW c \in 1 .. (s + 1), NEW n, NEW b \in [1 .. n -> Int],
           n = Gateway!Smaller(Limit, s + 1 - c), \A i \in 1 .. n : b[i] = c + i - 1
    PROVE  /\ b \in Seq(1 .. N)
           /\ \A j \in DOMAIN b : b[j] = b[1] + j - 1 /\ b[j] <= s
           /\ b # <<>> => b[1] = c
<1>1. n \in Nat /\ n <= s + 1 - c
  BY GatewayAssumption DEF Gateway!Smaller
<1>2. \A i \in 1 .. n : c + i - 1 \in 1 .. N /\ c + i - 1 <= s
  BY <1>1
<1>3. b \in [1 .. n -> 1 .. N] /\ DOMAIN b = 1 .. n
  BY <1>2
<1>4. b \in Seq(1 .. N)
  BY <1>1, <1>3, SeqDef
<1>5. b # <<>> => 1 \in DOMAIN b
  BY <1>4, NonEmpty
<1>6. \A j \in 1 .. n : 1 \in 1 .. n
  BY <1>1
<1>7. 1 \in 1 .. n => b[1] = c
  OBVIOUS
<1>8. \A j \in 1 .. n : b[j] = b[1] + j - 1 /\ b[j] <= s
  BY <1>1, <1>2, <1>6, <1>7
<1> QED
  BY <1>3, <1>4, <1>5, <1>7, <1>8

\* getUpdates answers.
LEMMA FetchStep ==
    ASSUME GatewayInv, Gateway!Fetch PROVE GatewayInv'
<1>1. /\ up /\ confirmed' = Gateway!Larger(confirmed, offset) /\ at' = "next"
      /\ UNCHANGED <<beta, kind, sent, saved, row, names, up, offset, seen, res,
                     answered, dropped>>
  BY DEF Gateway!Fetch, Gateway!Goto, Gateway!disk, Gateway!past
<1>2. /\ confirmed' \in 1 .. (sent + 1) /\ confirmed' \in Int
      /\ sent \in 0 .. N /\ sent \in Int
      /\ \A i \in 1 .. N : i < confirmed' => Excused(i) /\ (beta => i < offset)
  BY <1>1, ConfirmedBounds
<1>3. batch' = [i \in 1 .. Gateway!Smaller(Limit, sent + 1 - confirmed') |-> confirmed' + i - 1]
  BY DEF Gateway!Fetch
<1>4. PICK n : n = Gateway!Smaller(Limit, sent + 1 - confirmed')
  OBVIOUS
<1>5. /\ batch' = [i \in 1 .. n |-> confirmed' + i - 1]
      /\ \A i \in 1 .. n : confirmed' + i - 1 \in Int
  BY <1>2, <1>3, <1>4
<1>6. batch' \in [1 .. n -> Int] /\ \A i \in 1 .. n : batch'[i] = confirmed' + i - 1
  BY <1>5
<1>7. /\ batch' \in Seq(1 .. N)
      /\ \A j \in DOMAIN batch' : batch'[j] = batch'[1] + j - 1 /\ batch'[j] <= sent
      /\ batch' # <<>> => batch'[1] = confirmed'
  BY <1>2, <1>4, <1>6, AnswerIsRun
<1>8. GatewayType'
  BY <1>1, <1>2, <1>7 DEF GatewayInv, GatewayType
<1>9. ~Handling'
  BY <1>1 DEF Handling
<1>10. BatchInv'
  BY <1>1, <1>7, <1>9 DEF GatewayInv, BatchInv
<1>11. \A i : Excused(i)' <=> Excused(i)
  BY <1>1 DEF Excused
<1>12. ExcusedInv'
  BY <1>1, <1>2, <1>7, <1>9, <1>11 DEF GatewayInv, ExcusedInv
<1>13. \A i : Passed(i)' <=> Passed(i)
  BY <1>1 DEF Passed
<1>14. NamesInv'
  <2> SUFFICES ASSUME beta PROVE NamesInv'
    BY <1>1 DEF NamesInv
  <2>1. \A i \in 1 .. N : i < confirmed' => Passed(i)'
    BY <1>1, <1>2 DEF Passed
  <2> QED
    BY <1>1, <1>2, <1>7, <1>9, <1>13, <2>1 DEF GatewayInv, NamesInv
<1> QED
  BY <1>8, <1>10, <1>12, <1>14 DEF GatewayInv

\* Steps that leave the batch and what was answered as they are.
LEMMA QuietStep ==
    ASSUME GatewayInv, UNCHANGED <<beta, kind, saved, row, names, batch, res, answered, dropped>>,
           sent' \in 0 .. N, sent <= sent',
           confirmed' \in {confirmed, Gateway!Larger(confirmed, offset)},
           \/ UNCHANGED <<up, at, offset, seen>>
           \/ UNCHANGED <<up, offset, seen>> /\ batch = <<>> /\ at' = "poll"
           \/ up' = TRUE /\ offset' = saved /\ seen' = {} /\ UNCHANGED <<at, confirmed>> /\ at = "poll"
    PROVE  GatewayInv'
<1>1. /\ confirmed' \in 1 .. (sent + 1) /\ confirmed' \in Int
      /\ sent \in 0 .. N /\ sent \in Int
      /\ \A i \in 1 .. N : i < confirmed' => Excused(i) /\ (beta => i < offset)
  BY ConfirmedBounds
<1>2. sent' \in Int /\ offset' \in {offset, saved} /\ seen' \subseteq seen
  OBVIOUS
<1>3. GatewayType'
  <2>1. at' \in {at, "poll"}
    OBVIOUS
  <2>2. /\ confirmed' \in 1 .. (sent' + 1) /\ saved' \in 0 .. (sent' + 1)
        /\ offset' \in 0 .. (sent' + 1)
    <3>1. saved \in 0 .. (sent + 1) /\ offset \in 0 .. (sent + 1)
      BY DEF GatewayInv, GatewayType
    <3>2. /\ \A i : i \in 1 .. (sent + 1) => i \in 1 .. (sent' + 1)
          /\ \A i : i \in 0 .. (sent + 1) => i \in 0 .. (sent' + 1)
      BY <1>1, <1>2
    <3> QED
      BY <1>1, <1>2, <3>1, <3>2
  <2> QED
    BY <1>2, <2>1, <2>2 DEF GatewayInv, GatewayType
<1>4. Handling' => Handling /\ UNCHANGED <<up, at, offset, seen>>
  BY DEF Handling, GatewayInv, BatchInv
<1>5. BatchInv'
  <2>1. \A j \in DOMAIN batch : batch[j] \in Int
    BY DEF GatewayInv, GatewayType
  <2>2. (~up' => at' = "poll") /\ (at' = "poll" => batch' = <<>>) /\ up' \in BOOLEAN
    BY DEF GatewayInv, BatchInv
  <2>3. \A j \in DOMAIN batch' : batch'[j] = batch'[1] + j - 1 /\ batch'[j] <= sent'
    BY <1>1, <1>2, <2>1 DEF GatewayInv, BatchInv
  <2> QED
    BY <1>4, <2>2, <2>3 DEF GatewayInv, BatchInv
<1>6. \A i : Excused(i)' <=> Excused(i)
  BY DEF Excused
<1>7. ExcusedInv'
  BY <1>1, <1>2, <1>4, <1>6 DEF GatewayInv, ExcusedInv
<1>8. NamesInv'
  <2> SUFFICES ASSUME beta PROVE NamesInv'
    BY DEF NamesInv
  <2>1. offset' = offset /\ offset' = saved'
    BY DEF GatewayInv, NamesInv
  <2>2. \A i : Passed(i)' <=> Passed(i)
    BY <2>1 DEF Passed
  <2> QED
    BY <1>1, <1>4, <2>1, <2>2 DEF GatewayInv, NamesInv
<1> QED
  BY <1>3, <1>5, <1>7, <1>8 DEF GatewayInv

\* A user sends, a fetch fails, a batch ends, the process starts again.
LEMMA QuietSteps ==
    ASSUME GatewayInv,
           Gateway!Send \/ Gateway!FetchFails \/ Gateway!EndBatch \/ Gateway!Start
    PROVE  GatewayInv'
<1>1. sent \in 0 .. N /\ N \in Nat
  BY DEF GatewayInv, GatewayType
<1>2. CASE Gateway!Send
  <2>1. sent' = sent + 1 /\ sent < N
    BY <1>2 DEF Gateway!Send
  <2>2. sent' \in 0 .. N /\ sent <= sent'
    BY <1>1, <2>1
  <2> QED
    BY <1>2, <2>2, QuietStep DEF Gateway!Send, Gateway!disk, Gateway!memory,
       Gateway!past
<1>3. CASE Gateway!FetchFails
  BY <1>1, <1>3, QuietStep
     DEF Gateway!FetchFails, Gateway!disk, Gateway!memory, Gateway!past
<1>4. CASE Gateway!EndBatch
  BY <1>1, <1>4, QuietStep
     DEF Gateway!EndBatch, Gateway!Goto, Gateway!world, Gateway!disk, Gateway!past
<1>5. CASE Gateway!Start
  <2>1. at = "poll"
    BY <1>5 DEF Gateway!Start, GatewayInv, BatchInv
  <2> QED
    BY <1>1, <1>5, <2>1, QuietStep DEF Gateway!Start, Gateway!world, Gateway!disk,
       Gateway!past
<1> QED
  BY <1>2, <1>3, <1>4, <1>5

\* Nothing has been sent yet.
LEMMA GatewayInitial ==
    ASSUME Gateway!Init PROVE GatewayInv
<1>1. GatewayType
  BY DEF Gateway!Init, Gateway!Updates, GatewayType
<1>2. BatchInv /\ ~Handling
  BY DEF Gateway!Init, BatchInv, Handling
<1>3. ExcusedInv
  BY <1>2 DEF Gateway!Init, ExcusedInv
<1>4. NamesInv
  BY <1>2 DEF Gateway!Init, NamesInv
<1> QED
  BY <1>1, <1>2, <1>3, <1>4 DEF GatewayInv

\* Every step keeps the invariant of the gateway.
LEMMA GatewayNext ==
    ASSUME GatewayInv, Gateway!Next PROVE GatewayInv'
  BY FetchStep, QuietSteps, SkipStep, BeginHandling, ReserveStep, MarkRunningStep,
     LedgerFailsStep, FinishRequestStep, RepliesStep, GivesUpStep, SendReplyStep, SendFailsStep,
     AdvanceStep
     DEF Gateway!Next, Gateway!Work, Gateway!Fail

\* The inductive invariant of the gateway: every update behind the offset, behind what Telegram
\* was told or behind the batch is excused, and no written name can be written again.
THEOREM GatewayInvariant == Spec => []GatewayInv
<1>1. Init => GatewayInv
  BY GatewayInitial DEF Init
<1>2. GatewayInv /\ [Next]_vars => GatewayInv'
  <2> SUFFICES ASSUME GatewayInv, [Next]_vars PROVE GatewayInv'
    OBVIOUS
  <2>1. Gateway!Next \/ UNCHANGED gateway
    BY DEF Next, vars
  <2>2. CASE UNCHANGED gateway
    <3>1. UNCHANGED <<beta, kind, sent, confirmed, saved, row, names, up, offset, seen, batch,
                      at, res, answered, dropped>>
      BY <2>2 DEF gateway
    <3> QED
      BY SMTT(30), <3>1 DEF GatewayInv, GatewayType, BatchInv, ExcusedInv, NamesInv, Handling,
         Excused, Passed
  <2> QED
    BY <2>1, <2>2, GatewayNext
<1> QED
  BY <1>1, <1>2, PTL DEF Spec

\* For every number of updates, size of an answer and number of faults and restarts: an update
\* that will not be handled again was answered, refused at the door or, in beta mode, passed
\* over when the ledger or the API failed; and in beta mode a name is written once and in order
\* (telegram_bot.py, handler.py).
THEOREM GatewaySoundHolds == Spec => []GatewaySound
<1>1. GatewayInv => GatewaySound
  <2> SUFFICES ASSUME GatewayInv PROVE Gateway!NoneLost /\ Gateway!NameOnce
    BY DEF GatewaySound
  <2>1. Gateway!NameOnce
    BY DEF GatewayInv, NamesInv, Gateway!NameOnce
  <2>2. confirmed \in Int /\ offset \in Int /\ saved \in Int
    BY DEF GatewayInv, GatewayType
  <2>3. ASSUME NEW i \in 1 .. N, i < Gateway!Larger(confirmed, Gateway!Larger(offset, saved))
        PROVE  Excused(i)
    <3>1. i < confirmed \/ i < offset \/ i < saved
      BY <2>2, <2>3 DEF Gateway!Larger
    <3> QED
      BY <3>1 DEF GatewayInv, ExcusedInv
  <2>4. Gateway!NoneLost
    BY <2>3 DEF Gateway!NoneLost, Gateway!Updates, Excused
  <2> QED
    BY <2>1, <2>4
<1> QED
  BY <1>1, GatewayInvariant, PTL

(***************************************************************************)
(* Tasks and their execution (TaskExecution).                               *)
(***************************************************************************)

Awaits == {"idle", "model", "backoff", "finding", "audit", "tool", "memory"}

CallRecord ==
    [task : Tasks \cup {None}, path : {"classic", "tool"}, plan : Nat, at : Nat, attempt : Nat,
     done : SUBSET Nat]

ExecutionType ==
    /\ client \in {"orchestrator", "api"}
    /\ status \in [Tasks -> Execution!Statuses \cup {None}]
    /\ priority \in [Tasks -> 0 .. 10] /\ pending \in Seq(Tasks)
    /\ running \in [Tasks -> Calls \cup {None}]
    /\ state \in [Tasks -> {"running", "completed", "failed", "timeout", "cancelled", None}]
    /\ cancelled \subseteq Tasks /\ memory \subseteq Tasks
    /\ findings \in [Tasks -> SUBSET Nat] /\ audited \in [Tasks -> SUBSET Nat]
    /\ pc \in [Calls -> Awaits] /\ call \in [Calls -> CallRecord]

\* The queue holds the PENDING tasks, each once.
QueueInv ==
    /\ \A i \in DOMAIN pending : status[pending[i]] = "pending"
    /\ \A i, j \in DOMAIN pending : pending[i] = pending[j] => i = j
    /\ \A t \in Tasks : status[t] = "pending" => \E i \in DOMAIN pending : pending[i] = t

\* An execution works on a task of the orchestrator that is RUNNING, alone; the executor
\* has the coroutine of an execution only while it is inside the executor, and knows of no
\* task that has not been started.
WorkInv ==
    /\ \A c \in Calls : pc[c] # "idle" =>
           client = "orchestrator" /\ call[c].task \in Tasks /\ status[call[c].task] = "running"
    /\ \A c, d \in Calls :
           pc[c] # "idle" /\ pc[d] # "idle" /\ call[c].task = call[d].task => c = d
    /\ client = "orchestrator" => \A t \in Tasks :
           /\ status[t] = "running" => \E c \in Calls : pc[c] # "idle" /\ call[c].task = t
           /\ status[t] = "completed" => t \in memory
    /\ \A t \in Tasks : running[t] # None =>
           running[t] \in Calls /\ pc[running[t]] \in {"model", "backoff"}
           /\ call[running[t]].task = t
    /\ \A t \in Tasks : t \in cancelled \/ state[t] # None =>
           client = "orchestrator" /\ status[t] \notin {None, "pending"}

\* What an execution of the classic path has recorded: its subtasks are numbered from 1 to
\* the length of its plan, and a subtask is done when both stores have it.
Progress(place, l) ==
    /\ place \in {"model", "backoff", "finding", "audit"} =>
           l.path = "classic" /\ l.at \in 1 .. l.plan
    /\ place = "tool" => l.path = "tool"
    /\ place # "idle" /\ l.path = "classic" =>
           /\ findings[l.task] \subseteq 1 .. l.plan /\ audited[l.task] \subseteq 1 .. l.plan
           /\ l.done \subseteq findings[l.task] \cap audited[l.task]
           /\ place = "audit" => l.at \in findings[l.task]
           /\ place = "memory" => l.done = 1 .. l.plan

ProgressInv ==
    /\ client = "orchestrator" => \A t \in Tasks :
           status[t] \in {None, "pending"} => findings[t] = {} /\ audited[t] = {}
    /\ \A c \in Calls : Progress(pc[c], call[c])

ExecutionInv == ExecutionType /\ QueueInv /\ WorkInv /\ ProgressInv

USE ExecutionAssumption

\* A set of numbers has a least one, from which inductions follow.
LEMMA LeastNumber ==
    ASSUME NEW S, S \subseteq Nat, S # {}
    PROVE  \E m \in S : \A k \in S : m <= k
<1> DEFINE R == OpToRel(<, Nat)
<1>1. IsWellFoundedOn(R, Nat)
  BY NatLessThanWellFounded
<1>2. \A x, y \in Nat : x < y => <<x, y>> \in R
  BY DEF OpToRel
<1> HIDE DEF R
<1>3. \E x \in S : \A y \in S : ~(<<y, x>> \in R)
  BY <1>1, WFMin
<1>4. PICK x \in S : \A y \in S : ~(<<y, x>> \in R)
  BY <1>3
<1>5. ASSUME NEW k \in S PROVE x <= k
  <2>1. k \in Nat /\ x \in Nat
    OBVIOUS
  <2>2. ~(k < x)
    BY <1>2, <1>4, <2>1
  <2> QED
    BY <2>1, <2>2
<1> QED
  BY <1>5

\* A sequence without its element at i.
LEMMA RemoveAtIs ==
    ASSUME NEW S, NEW q \in Seq(S), NEW i \in 1 .. Len(q)
    PROVE  LET r == Execution!RemoveAt(q, i) IN
           /\ r \in Seq(S) /\ Len(r) = Len(q) - 1
           /\ \A j \in 1 .. Len(q) - 1 : r[j] = IF j < i THEN q[j] ELSE q[j + 1]
<1> DEFINE a == SubSeq(q, 1, i - 1)
           b == SubSeq(q, i + 1, Len(q))
<1>1. a \in Seq(S) /\ Len(a) = i - 1 /\ \A j \in 1 .. i - 1 : a[j] = q[j]
  BY SubSeqProperties
<1>2. b \in Seq(S) /\ Len(b) = Len(q) - i /\ \A j \in 1 .. Len(q) - i : b[j] = q[i + j]
  BY SubSeqProperties
<1>3. Execution!RemoveAt(q, i) = a \o b
  BY DEF Execution!RemoveAt
<1> HIDE DEF a, b
<1>n. Len(q) \in Nat
  BY LenProperties
<1>c. /\ a \o b \in Seq(S) /\ Len(a \o b) = Len(a) + Len(b)
      /\ \A j \in 1 .. Len(a) + Len(b) : (a \o b)[j] = IF j <= Len(a) THEN a[j] ELSE b[j - Len(a)]
  BY <1>1, <1>2, ConcatProperties, ZenonT(60)
<1>4. a \o b \in Seq(S) /\ Len(a \o b) = Len(q) - 1
  BY <1>1, <1>2, <1>c, <1>n
<1>5. ASSUME NEW j \in 1 .. Len(q) - 1 PROVE (a \o b)[j] = IF j < i THEN q[j] ELSE q[j + 1]
  <2>1. (a \o b)[j] = IF j <= i - 1 THEN a[j] ELSE b[j - (i - 1)]
    BY <1>1, <1>2, <1>c, <1>n
  <2>2. CASE j < i
    BY <2>1, <2>2, <1>1
  <2>3. CASE j >= i
    <3>1. j - (i - 1) \in 1 .. Len(q) - i /\ i + (j - (i - 1)) = j + 1
      BY <2>3, <1>n
    <3>2. b[j - (i - 1)] = q[i + (j - (i - 1))]
      BY <1>2, <3>1
    <3> QED
      BY <2>1, <2>3, <3>1, <3>2
  <2>4. j < i \/ j >= i
    BY <1>n
  <2> QED
    BY <2>2, <2>3, <2>4
<1> QED
  BY <1>3, <1>4, <1>5

\* The first occurrence is the only one.
LEMMA RemoveFirstIs ==
    ASSUME NEW S, NEW q \in Seq(S), NEW i \in 1 .. Len(q),
           \A j \in 1 .. Len(q) : q[j] = q[i] => j = i
    PROVE  Execution!RemoveFirst(q, q[i]) = Execution!RemoveAt(q, i)
<1> DEFINE I == {j \in 1 .. Len(q) : q[j] = q[i]}
<1>1. I = {i}
  OBVIOUS
<1>2. Execution!Min(I) = i
  BY <1>1 DEF Execution!Min
<1>3. Execution!SelectInSeq(q, LAMBDA v : v = q[i]) = i
  BY <1>1, <1>2 DEF Execution!SelectInSeq
<1> QED
  BY <1>3 DEF Execution!RemoveFirst

\* A task leaves the queue, if it is there, when it is no longer PENDING.
LEMMA Dequeued ==
    ASSUME ExecutionType, QueueInv, NEW t \in Tasks, NEW s, s # "pending",
           status' = [status EXCEPT ![t] = s], pending' = Execution!Requeued(t, s)
    PROVE  QueueInv' /\ pending' \in Seq(Tasks)
<1>1. pending \in Seq(Tasks) /\ status \in [Tasks -> Execution!Statuses \cup {None}]
  BY DEF ExecutionType
<1>2. pending' = Execution!RemoveFirst(pending, t)
  BY DEF Execution!Requeued
<1>3. \A u \in Tasks : status'[u] = IF u = t THEN s ELSE status[u]
  BY <1>1
<1>4. DOMAIN pending = 1 .. Len(pending) /\ \A i \in 1 .. Len(pending) : pending[i] \in Tasks
  BY <1>1, ElementOfSeq
<1>5. CASE \A i \in DOMAIN pending : pending[i] # t
  <2>1. pending' = pending
    BY <1>2, <1>4, <1>5 DEF Execution!RemoveFirst
  <2> QED
    BY <2>1, <1>1, <1>3, <1>4, <1>5 DEF QueueInv
<1>6. CASE \E i \in DOMAIN pending : pending[i] = t
  <2>1. PICK i \in 1 .. Len(pending) : pending[i] = t
    BY <1>4, <1>6
  <2>2. \A j \in 1 .. Len(pending) : pending[j] = t => j = i
    BY <2>1, <1>4 DEF QueueInv
  <2>3. pending' = Execution!RemoveAt(pending, i)
    BY <1>1, <1>2, <2>1, <2>2, RemoveFirstIs
  <2>4. /\ pending' \in Seq(Tasks) /\ Len(pending') = Len(pending) - 1
        /\ \A j \in 1 .. Len(pending) - 1 :
               pending'[j] = IF j < i THEN pending[j] ELSE pending[j + 1]
    BY SMTT(30), <1>1, <2>3, RemoveAtIs
  <2>5. DOMAIN pending' = 1 .. Len(pending) - 1
    BY <2>4, LenProperties
  <2>n. Len(pending) \in Nat
    BY <1>1, LenProperties
  <2> DEFINE old(j) == IF j < i THEN j ELSE j + 1
  <2>6. \A j \in DOMAIN pending' :
            old(j) \in DOMAIN pending /\ pending'[j] = pending[old(j)] /\ old(j) # i
    BY <1>4, <2>4, <2>5, <2>n
  <2>7. \A j, k \in DOMAIN pending' : old(j) = old(k) => j = k
    BY <2>5, <2>n
  <2>8. \A k \in DOMAIN pending : k # i => \E j \in DOMAIN pending' : old(j) = k
    <3> SUFFICES ASSUME NEW k \in DOMAIN pending, k # i PROVE \E j \in DOMAIN pending' : old(j) = k
      OBVIOUS
    <3>1. k \in 1 .. Len(pending) /\ i \in 1 .. Len(pending)
      BY <1>4
    <3>2. CASE k < i
      <4>1. k \in DOMAIN pending' /\ old(k) = k
        BY <3>1, <3>2, <2>5, <2>n
      <4> QED
        BY <4>1
    <3>3. CASE k > i
      <4>1. k - 1 \in DOMAIN pending' /\ old(k - 1) = k
        BY <3>1, <3>3, <2>5, <2>n
      <4> QED
        BY <4>1
    <3> QED
      BY <3>1, <3>2, <3>3
  <2> HIDE DEF old
  <2>9. \A j \in DOMAIN pending' : pending'[j] # t /\ pending'[j] \in Tasks
    BY <2>6, <2>2, <1>4
  <2>10. \A j \in DOMAIN pending' : status'[pending'[j]] = "pending"
    BY <2>6, <2>9, <1>3 DEF QueueInv
  <2>11. \A j, k \in DOMAIN pending' : pending'[j] = pending'[k] => j = k
    BY <2>6, <2>7 DEF QueueInv
  <2>12. ASSUME NEW u \in Tasks, status'[u] = "pending"
         PROVE  \E j \in DOMAIN pending' : pending'[j] = u
    <3>1. u # t /\ status[u] = "pending"
      BY <2>12, <1>3
    <3>2. PICK k \in DOMAIN pending : pending[k] = u
      BY <3>1 DEF QueueInv
    <3>3. PICK j \in DOMAIN pending' : old(j) = k
      BY <3>1, <3>2, <2>1, <2>8
    <3> QED
      BY <3>2, <3>3, <2>6
  <2> QED
    BY <2>4, <2>10, <2>11, <2>12 DEF QueueInv
<1> QED
  BY <1>5, <1>6

\* A task that is PENDING now goes to the end of the queue.
LEMMA Enqueued ==
    ASSUME ExecutionType, QueueInv, NEW t \in Tasks, status[t] # "pending",
           status' = [status EXCEPT ![t] = "pending"], pending' = Append(pending, t)
    PROVE  QueueInv' /\ pending' \in Seq(Tasks)
<1>1. pending \in Seq(Tasks) /\ status \in [Tasks -> Execution!Statuses \cup {None}]
  BY DEF ExecutionType
<1>2. \A u \in Tasks : status'[u] = IF u = t THEN "pending" ELSE status[u]
  BY <1>1
<1>3. /\ pending' \in Seq(Tasks) /\ Len(pending') = Len(pending) + 1
      /\ \A j \in 1 .. Len(pending) : pending'[j] = pending[j]
      /\ pending'[Len(pending) + 1] = t
  BY <1>1, AppendProperties
<1>4. DOMAIN pending' = 1 .. Len(pending) + 1 /\ DOMAIN pending = 1 .. Len(pending)
      /\ Len(pending) \in Nat
  BY <1>1, <1>3, LenProperties
<1>5. \A i \in DOMAIN pending : pending[i] \in Tasks /\ pending[i] # t
  BY <1>1, <1>4, ElementOfSeq DEF QueueInv
<1>6. \A j \in DOMAIN pending' : j \in DOMAIN pending \/ j = Len(pending) + 1
  BY <1>4
<1>7. \A j \in DOMAIN pending' : status'[pending'[j]] = "pending"
  BY <1>2, <1>3, <1>4, <1>5, <1>6 DEF QueueInv
<1>8. \A j, k \in DOMAIN pending' : pending'[j] = pending'[k] => j = k
  BY <1>3, <1>4, <1>5, <1>6 DEF QueueInv
<1>9. \A u \in Tasks : status'[u] = "pending" => \E j \in DOMAIN pending' : pending'[j] = u
  BY <1>2, <1>3, <1>4 DEF QueueInv
<1> QED
  BY <1>3, <1>7, <1>8, <1>9 DEF QueueInv

\* The foremost task is one of the queue: some task has the highest priority, and one of
\* those was there first.
LEMMA ForemostIsQueued ==
    ASSUME ExecutionType, pending # <<>>
    PROVE  Execution!Foremost(pending) \in DOMAIN pending
<1>1. pending \in Seq(Tasks) /\ priority \in [Tasks -> 0 .. 10]
  BY DEF ExecutionType
<1>2. DOMAIN pending = 1 .. Len(pending) /\ Len(pending) \in Nat /\ 1 \in DOMAIN pending
  BY <1>1, EmptySeq, LenProperties
<1>3. \A i \in DOMAIN pending : priority[pending[i]] \in 0 .. 10
  BY <1>1, <1>2, ElementOfSeq
<1> DEFINE rank(i) == 10 - priority[pending[i]]
           ranks == {rank(i) : i \in DOMAIN pending}
<1>4. ranks \subseteq Nat /\ ranks # {}
  BY <1>2, <1>3
<1>5. PICK m \in ranks : \A k \in ranks : m <= k
  BY <1>4, LeastNumber
<1>6. PICK h \in DOMAIN pending : m = rank(h)
  BY <1>5
<1>7. \A j \in DOMAIN pending : priority[pending[h]] >= priority[pending[j]]
  <2> SUFFICES ASSUME NEW j \in DOMAIN pending
               PROVE  priority[pending[h]] >= priority[pending[j]]
    OBVIOUS
  <2>1. rank(h) <= rank(j)
    BY <1>5, <1>6
  <2> QED
    BY <2>1, <1>3
<1> DEFINE first == {i \in DOMAIN pending : priority[pending[i]] = priority[pending[h]]}
<1>8. first \subseteq Nat /\ first # {}
  BY <1>2, <1>6
<1>9. PICK i \in first : \A k \in first : i <= k
  BY <1>8, LeastNumber
<1>10. i \in DOMAIN pending /\ \A j \in DOMAIN pending :
           \/ priority[pending[i]] > priority[pending[j]]
           \/ priority[pending[i]] = priority[pending[j]] /\ i <= j
  <2> SUFFICES ASSUME NEW j \in DOMAIN pending
               PROVE  \/ priority[pending[i]] > priority[pending[j]]
                      \/ priority[pending[i]] = priority[pending[j]] /\ i <= j
    BY <1>9
  <2>1. CASE j \in first
    BY <2>1, <1>9
  <2>2. CASE j \notin first
    BY <2>2, <1>3, <1>7, <1>9
  <2> QED
    BY <2>1, <2>2
<1> QED
  BY <1>10 DEF Execution!Foremost

ExecutorStates == {"running", "completed", "failed", "timeout", "cancelled", None}

\* Only the record of a task changes that nobody has started, or of the REST API, where
\* nobody executes.
LEMMA StatusMoves ==
    ASSUME ExecutionInv, NEW t \in Tasks, NEW s \in Execution!Statuses,
           status' = [status EXCEPT ![t] = s], QueueInv', pending' \in Seq(Tasks),
           priority' \in [Tasks -> 0 .. 10],
           client = "orchestrator" => status[t] \in {None, "pending"} /\ s \in {"pending", "failed"},
           UNCHANGED <<client, running, state, cancelled, findings, audited, memory, pc, call>>
    PROVE  ExecutionInv'
<1>1. ExecutionType'
  BY DEF ExecutionInv, ExecutionType
<1>2. \A u \in Tasks : status'[u] = IF u = t THEN s ELSE status[u]
  BY DEF ExecutionInv, ExecutionType
<1>3. client \in {"orchestrator", "api"}
  BY DEF ExecutionInv, ExecutionType
<1>4. \A c \in Calls : pc[c] # "idle" => call[c].task # t
  BY <1>2 DEF ExecutionInv, WorkInv
<1>5. WorkInv'
  <2>1. \A c \in Calls : pc'[c] # "idle" =>
            client' = "orchestrator" /\ call'[c].task \in Tasks /\ status'[call'[c].task] = "running"
    BY <1>2, <1>4 DEF ExecutionInv, WorkInv
  <2>2. client' = "orchestrator" => \A u \in Tasks :
            /\ status'[u] = "running" => \E c \in Calls : pc'[c] # "idle" /\ call'[c].task = u
            /\ status'[u] = "completed" => u \in memory'
    BY <1>2 DEF ExecutionInv, WorkInv
  <2>3. \A u \in Tasks : u \in cancelled' \/ state'[u] # None =>
            client' = "orchestrator" /\ status'[u] \notin {None, "pending"}
    BY <1>2 DEF ExecutionInv, WorkInv
  <2> QED
    BY <2>1, <2>2, <2>3 DEF ExecutionInv, WorkInv
<1>6. ProgressInv'
  BY <1>2 DEF ExecutionInv, ProgressInv, Progress
<1> QED
  BY <1>1, <1>5, <1>6 DEF ExecutionInv

\* The books of the executor after a step of the execution c of task t: nobody else's
\* coroutine is touched, and its own is gone when it leaves the executor.
BooksKept(c, t, place) ==
    /\ \/ running' = [running EXCEPT ![t] = None]
       \/ place \in {"model", "backoff"} /\ running' \in {running, [running EXCEPT ![t] = c]}
       \/ running' = running /\ pc[c] \notin {"model", "backoff"}
    /\ state' = state \/ \E s \in ExecutorStates : state' = [state EXCEPT ![t] = s]

StoresKept(t) ==
    /\ findings' \in [Tasks -> SUBSET Nat] /\ audited' \in [Tasks -> SUBSET Nat]
    /\ \A u \in Tasks \ {t} : findings'[u] = findings[u] /\ audited'[u] = audited[u]

\* Whose coroutine the executor has after the step.
BooksRight(t) ==
    /\ running' \in [Tasks -> Calls \cup {None}] /\ state' \in [Tasks -> ExecutorStates]
    /\ \A u \in Tasks : running'[u] # None =>
           running'[u] \in Calls /\ pc'[running'[u]] \in {"model", "backoff"}
           /\ call'[running'[u]].task = u
    /\ \A u \in Tasks : state'[u] # None => state[u] # None \/ u = t

\* It is that of an execution inside the executor, of the task it is filed under.
LEMMA RunningKept ==
    ASSUME ExecutionInv, NEW c \in Calls, NEW place \in Awaits, NEW l, NEW t \in Tasks,
           pc[c] # "idle", call[c].task = t, l.task = t \/ place = "idle",
           pc' = [pc EXCEPT ![c] = place], call' = [call EXCEPT ![c] = l],
           BooksKept(c, t, place)
    PROVE  BooksRight(t)
<1>1. running \in [Tasks -> Calls \cup {None}] /\ state \in [Tasks -> ExecutorStates]
      /\ pc \in [Calls -> Awaits] /\ call \in [Calls -> CallRecord]
  BY DEF ExecutionInv, ExecutionType, ExecutorStates
<1>2. \A d \in Calls : pc'[d] = IF d = c THEN place ELSE pc[d]
  BY <1>1
<1>3. \A d \in Calls : call'[d] = IF d = c THEN l ELSE call[d]
  BY <1>1
<1>4. running' \in [Tasks -> Calls \cup {None}] /\ state' \in [Tasks -> ExecutorStates]
  BY <1>1 DEF BooksKept
<1>5. \A u \in Tasks : running[u] # None => running[u] \in Calls
          /\ pc[running[u]] \in {"model", "backoff"} /\ call[running[u]].task = u
  BY DEF ExecutionInv, WorkInv
<1>6. ASSUME NEW u \in Tasks, running'[u] # None
      PROVE  running'[u] \in Calls /\ pc'[running'[u]] \in {"model", "backoff"}
             /\ call'[running'[u]].task = u
  <2>1. CASE u # t
    <3>1. running'[u] = running[u]
      BY <1>1, <2>1 DEF BooksKept
    <3>2. running[u] # c
      BY <1>5, <1>6, <2>1, <3>1
    <3> QED
      BY <1>2, <1>3, <1>5, <1>6, <3>1, <3>2
  <2>2. CASE u = t
    <3>1. running'[t] # None /\ running[t] \in Calls \cup {None}
      BY <1>1, <1>6, <2>2
    <3>2. running[t] # None => running[t] = c
      BY <1>5 DEF ExecutionInv, WorkInv
    <3>3. CASE place \in {"model", "backoff"}
      <4>1. running'[t] = c
        BY <1>1, <3>1, <3>2, <3>3 DEF BooksKept
      <4> QED
        BY <1>2, <1>3, <2>2, <3>3, <4>1
    <3>4. CASE running' = running /\ pc[c] \notin {"model", "backoff"}
      BY <3>1, <3>2, <3>4, <1>5
    <3> QED
      BY <1>1, <3>1, <3>3, <3>4 DEF BooksKept
  <2> QED
    BY <2>1, <2>2
<1>7. \A u \in Tasks : state'[u] # None => state[u] # None \/ u = t
  BY <1>1 DEF BooksKept
<1> QED
  BY <1>4, <1>6, <1>7 DEF BooksRight

\* An execution goes on with the task it has.
LEMMA Continues ==
    ASSUME ExecutionInv, NEW c \in Calls, NEW place \in Awaits, NEW l \in CallRecord,
           NEW t \in Tasks, pc[c] # "idle", place # "idle", call[c].task = t, l.task = t,
           pc' = [pc EXCEPT ![c] = place], call' = [call EXCEPT ![c] = l],
           BooksKept(c, t, place), StoresKept(t), Progress(place, l)',
           UNCHANGED <<client, status, priority, pending, cancelled, memory>>
    PROVE  ExecutionInv'
<1>1. pc \in [Calls -> Awaits] /\ call \in [Calls -> CallRecord] /\ status[t] = "running"
      /\ client = "orchestrator"
  BY DEF ExecutionInv, ExecutionType, WorkInv
<1>2. \A d \in Calls : pc'[d] = IF d = c THEN place ELSE pc[d]
  BY <1>1
<1>3. \A d \in Calls : call'[d] = IF d = c THEN l ELSE call[d]
  BY <1>1
<1>k. BooksRight(t)
  BY RunningKept, Zenon
<1>r. /\ running' \in [Tasks -> Calls \cup {None}] /\ state' \in [Tasks -> ExecutorStates]
      /\ \A u \in Tasks : running'[u] # None =>
             running'[u] \in Calls /\ pc'[running'[u]] \in {"model", "backoff"}
             /\ call'[running'[u]].task = u
      /\ \A u \in Tasks : state'[u] # None => state[u] # None \/ u = t
  BY <1>k DEF BooksRight
<1>4. ExecutionType'
  BY <1>1, <1>r DEF ExecutionInv, ExecutionType, ExecutorStates, StoresKept
<1>5. QueueInv'
  BY DEF ExecutionInv, QueueInv
<1>6. \A d \in Calls : pc'[d] # "idle" <=> pc[d] # "idle"
  BY <1>2
<1>7. \A d \in Calls : call'[d].task = call[d].task
  BY <1>3
<1>8. WorkInv'
  <2>1. \A u \in Tasks : u \in cancelled' \/ state'[u] # None =>
            client' = "orchestrator" /\ status'[u] \notin {None, "pending"}
    BY <1>1, <1>r DEF ExecutionInv, WorkInv
  <2>2. \A d \in Calls : pc'[d] # "idle" =>
            client' = "orchestrator" /\ call'[d].task \in Tasks /\ status'[call'[d].task] = "running"
    BY <1>6, <1>7 DEF ExecutionInv, WorkInv
  <2>3. \A d, e \in Calls :
            pc'[d] # "idle" /\ pc'[e] # "idle" /\ call'[d].task = call'[e].task => d = e
    BY <1>6, <1>7 DEF ExecutionInv, WorkInv
  <2>4. client' = "orchestrator" => \A u \in Tasks :
            /\ status'[u] = "running" => \E d \in Calls : pc'[d] # "idle" /\ call'[d].task = u
            /\ status'[u] = "completed" => u \in memory'
    BY <1>6, <1>7 DEF ExecutionInv, WorkInv
  <2> QED
    BY <1>r, <2>1, <2>2, <2>3, <2>4 DEF WorkInv
<1>9. ProgressInv'
  <2>1. \A u \in Tasks : status'[u] \in {None, "pending"} => u # t
    BY <1>1
  <2>2. \A u \in Tasks : status'[u] \in {None, "pending"} => findings'[u] = {} /\ audited'[u] = {}
    BY <1>1, <2>1 DEF ExecutionInv, ProgressInv, StoresKept
  <2>3. ASSUME NEW d \in Calls PROVE Progress(pc[d], call[d])'
    <3>1. CASE d = c
      BY <3>1, <1>2, <1>3 DEF Progress
    <3>2. CASE d # c
      <4>1. pc'[d] = pc[d] /\ call'[d] = call[d] /\ Progress(pc[d], call[d])
        BY <3>2, <1>2, <1>3 DEF ExecutionInv, ProgressInv
      <4>2. pc[d] # "idle" => call[d].task \in Tasks \ {t}
        BY <3>2 DEF ExecutionInv, WorkInv
      <4> QED
        BY <4>1, <4>2 DEF Progress, StoresKept
    <3> QED
      BY <3>1, <3>2
  <2> QED
    BY <2>2, <2>3 DEF ProgressInv
<1> QED
  BY <1>4, <1>5, <1>8, <1>9 DEF ExecutionInv

\* No call is a call record, of no task.
LEMMA NoCallIs == Execution!NoCall \in CallRecord /\ Execution!NoCall.task = None
  BY DEF Execution!NoCall, CallRecord

\* An execution ends, and its task with it.
LEMMA Finishes ==
    ASSUME ExecutionInv, NEW c \in Calls, NEW t \in Tasks, NEW s \in {"failed", "completed"},
           pc[c] # "idle", call[c].task = t, s = "completed" => t \in memory',
           pc' = [pc EXCEPT ![c] = "idle"], call' = [call EXCEPT ![c] = Execution!NoCall],
           status' = [status EXCEPT ![t] = s], pending' = Execution!Requeued(t, s),
           BooksKept(c, t, "idle"), StoresKept(t), UNCHANGED <<client, priority>>,
           cancelled' \in {cancelled, cancelled \cup {t}},
           memory \subseteq memory', memory' \subseteq Tasks
    PROVE  ExecutionInv'
<1>1. pc \in [Calls -> Awaits] /\ call \in [Calls -> CallRecord]
      /\ status \in [Tasks -> Execution!Statuses \cup {None}] /\ client = "orchestrator"
  BY DEF ExecutionInv, ExecutionType, WorkInv
<1>2. \A d \in Calls : pc'[d] = IF d = c THEN "idle" ELSE pc[d]
  BY <1>1
<1>3. \A d \in Calls : d # c => call'[d] = call[d]
  BY <1>1
<1>u. \A u \in Tasks : status'[u] = IF u = t THEN s ELSE status[u]
  BY <1>1
<1>i. "idle" \in Awaits
  BY DEF Awaits
<1>k. BooksRight(t)
  BY <1>i, RunningKept, Zenon
<1>r. /\ running' \in [Tasks -> Calls \cup {None}] /\ state' \in [Tasks -> ExecutorStates]
      /\ \A u \in Tasks : running'[u] # None =>
             running'[u] \in Calls /\ pc'[running'[u]] \in {"model", "backoff"}
             /\ call'[running'[u]].task = u
      /\ \A u \in Tasks : state'[u] # None => state[u] # None \/ u = t
  BY <1>k DEF BooksRight
<1>q. QueueInv' /\ pending' \in Seq(Tasks)
  BY Dequeued DEF ExecutionInv
<1>4. ExecutionType'
  <2>1. status' \in [Tasks -> Execution!Statuses \cup {None}]
    BY <1>1 DEF Execution!Statuses
  <2>2. pc' \in [Calls -> Awaits] /\ call' \in [Calls -> CallRecord]
    BY <1>1, <1>i, NoCallIs
  <2> QED
    BY <1>r, <1>q, <2>1, <2>2 DEF ExecutionInv, ExecutionType, ExecutorStates, StoresKept
<1>6. \A d \in Calls : pc'[d] # "idle" => d # c /\ pc[d] # "idle" /\ call'[d] = call[d]
                                          /\ call[d].task \in Tasks \ {t}
  BY <1>2, <1>3 DEF ExecutionInv, WorkInv
<1>7. WorkInv'
  <2>1. \A u \in Tasks : u \in cancelled' \/ state'[u] # None =>
            client' = "orchestrator" /\ status'[u] \notin {None, "pending"}
    BY <1>1, <1>r, <1>u DEF ExecutionInv, WorkInv
  <2>2. \A d \in Calls : pc'[d] # "idle" =>
            client' = "orchestrator" /\ call'[d].task \in Tasks /\ status'[call'[d].task] = "running"
    BY <1>6, <1>u DEF ExecutionInv, WorkInv
  <2>3. \A d, e \in Calls :
            pc'[d] # "idle" /\ pc'[e] # "idle" /\ call'[d].task = call'[e].task => d = e
    BY <1>6 DEF ExecutionInv, WorkInv
  <2>4. ASSUME NEW u \in Tasks, status'[u] = "running"
        PROVE  \E d \in Calls : pc'[d] # "idle" /\ call'[d].task = u
    <3>1. u # t /\ status[u] = "running"
      BY <1>u, <2>4
    <3>2. PICK d \in Calls : pc[d] # "idle" /\ call[d].task = u
      BY <1>1, <3>1 DEF ExecutionInv, WorkInv
    <3>3. d # c
      BY <3>1, <3>2
    <3> QED
      BY <1>2, <1>3, <3>2, <3>3
  <2>5. \A u \in Tasks : status'[u] = "completed" => u \in memory'
    BY <1>1, <1>u DEF ExecutionInv, WorkInv
  <2> QED
    BY <1>r, <2>1, <2>2, <2>3, <2>4, <2>5 DEF WorkInv
<1>8. ProgressInv'
  <2>1. \A u \in Tasks : status'[u] \in {None, "pending"} => findings'[u] = {} /\ audited'[u] = {}
    BY <1>1, <1>u DEF ExecutionInv, ProgressInv, StoresKept
  <2>2. ASSUME NEW d \in Calls PROVE Progress(pc[d], call[d])'
    <3>1. CASE pc'[d] = "idle"
      BY <3>1 DEF Progress
    <3>2. CASE pc'[d] # "idle"
      <4>1. pc'[d] = pc[d] /\ call'[d] = call[d] /\ Progress(pc[d], call[d])
        BY <3>2, <1>2, <1>6 DEF ExecutionInv, ProgressInv
      <4>2. call[d].task \in Tasks \ {t}
        BY <3>2, <1>6
      <4> QED
        BY <4>1, <4>2 DEF Progress, StoresKept
    <3> QED
      BY <3>1, <3>2
  <2> QED
    BY <2>1, <2>2 DEF ProgressInv
<1> QED
  BY <1>4, <1>q, <1>7, <1>8 DEF ExecutionInv

\* What is known of an execution that is not idle.
LEMMA AtWork ==
    ASSUME ExecutionInv, NEW c \in Calls, pc[c] # "idle"
    PROVE  /\ call[c] \in CallRecord /\ call[c].task \in Tasks /\ Progress(pc[c], call[c])
           /\ pc[c] \in Awaits /\ client = "orchestrator"
  BY DEF ExecutionInv, ExecutionType, WorkInv, ProgressInv

\* Where a step goes: on, or to the end.
LEMMA GotoIs ==
    ASSUME NEW c, NEW place, NEW l, Execution!Goto(c, place, l)
    PROVE  /\ pc' = [pc EXCEPT ![c] = place]
           /\ place # "idle" => call' = [call EXCEPT ![c] = l]
           /\ place = "idle" => call' = [call EXCEPT ![c] = Execution!NoCall]
  BY DEF Execution!Goto

\* A legal change of one status, and what becomes of the queue.
LEMMA SetStatusIs ==
    ASSUME NEW t, NEW s, Execution!SetStatus(t, s)
    PROVE  /\ status[t] # None /\ s \in Execution!Legal[status[t]]
           /\ status' = [status EXCEPT ![t] = s] /\ pending' = Execution!Requeued(t, s)
           /\ priority' = priority
  BY DEF Execution!SetStatus

\* The executor's books change for the task of the call only.
LEMMA BooksAre ==
    ASSUME NEW t \in Tasks, NEW c, NEW d, NEW place, NEW s \in ExecutorStates,
           Execution!Books(t, s, d),
           d = None \/ (d = c /\ place \in {"model", "backoff"})
    PROVE  BooksKept(c, t, place) /\ cancelled' = cancelled
  BY DEF Execution!Books, BooksKept

\* The subtasks are through: the completion is remembered first, or the task has failed.
LEMMA ConcludeStep ==
    ASSUME ExecutionInv, NEW c \in Calls, NEW l \in CallRecord, NEW t \in Tasks,
           pc[c] # "idle", call[c].task = t, l.task = t,
           l.path = "classic" => /\ findings'[t] \subseteq 1 .. l.plan
                                 /\ audited'[t] \subseteq 1 .. l.plan
                                 /\ l.done \subseteq findings'[t] \cap audited'[t],
           Execution!Conclude(c, l), \A place \in Awaits : BooksKept(c, t, place),
           StoresKept(t), UNCHANGED <<client, cancelled, memory>>
    PROVE  ExecutionInv'
<1>m. {"memory", "idle"} \subseteq Awaits
  BY DEF Awaits
<1>1. CASE l.done = 1 .. l.plan
  <2>1. Execution!Goto(c, "memory", l) /\ UNCHANGED <<status, priority, pending>>
    BY <1>1 DEF Execution!Conclude, Execution!manager
  <2>2. pc' = [pc EXCEPT ![c] = "memory"] /\ call' = [call EXCEPT ![c] = l]
    BY <2>1, GotoIs
  <2>3. Progress("memory", l)'
    BY <1>1 DEF Progress
  <2>4. BooksKept(c, t, "memory")
    BY <1>m
  <2> QED
    BY <1>m, <2>1, <2>2, <2>3, <2>4, Continues
<1>2. CASE l.done # 1 .. l.plan
  <2>1. Execution!SetStatus(t, "failed") /\ Execution!Goto(c, "idle", l)
    BY <1>2 DEF Execution!Conclude
  <2>2. pc' = [pc EXCEPT ![c] = "idle"] /\ call' = [call EXCEPT ![c] = Execution!NoCall]
    BY <2>1, GotoIs
  <2>3. status' = [status EXCEPT ![t] = "failed"] /\ pending' = Execution!Requeued(t, "failed")
        /\ priority' = priority
    BY <2>1, SetStatusIs
  <2>4. BooksKept(c, t, "idle")
    BY <1>m
  <2>5. memory \subseteq memory' /\ memory' \subseteq Tasks
    BY DEF ExecutionInv, ExecutionType
  <2> QED
    BY <2>2, <2>3, <2>4, <2>5, Finishes
<1> QED
  BY <1>1, <1>2

\* A call that goes on to another subtask.
LEMMA Renumbered ==
    ASSUME NEW l \in CallRecord, NEW a \in Nat
    PROVE  LET n == [l EXCEPT !.at = a, !.attempt = 0] IN
           /\ n \in CallRecord /\ n.task = l.task /\ n.path = l.path /\ n.plan = l.plan
           /\ n.done = l.done /\ n.at = a
  BY DEF CallRecord

\* The next subtask, or the end.
LEMMA NextSubtaskStep ==
    ASSUME ExecutionInv, NEW c \in Calls, NEW l \in CallRecord, NEW t \in Tasks,
           NEW s \in ExecutorStates,
           pc[c] # "idle", call[c].task = t, l.task = t, l.path = "classic", l.at \in 1 .. l.plan,
           findings'[t] \subseteq 1 .. l.plan, audited'[t] \subseteq 1 .. l.plan,
           l.done \subseteq findings'[t] \cap audited'[t],
           Execution!NextSubtask(c, l, s), StoresKept(t), UNCHANGED <<client, memory>>
    PROVE  /\ ExecutionInv'
           /\ pc'[c] = "model" => call'[c].task \notin cancelled
<1> DEFINE n == [l EXCEPT !.at = @ + 1, !.attempt = 0]
<1>1. n \in CallRecord /\ n.task = t /\ n.path = "classic" /\ n.plan = l.plan /\ n.done = l.done
      /\ n.at = l.at + 1
  <2>1. l.task \in Tasks \cup {None} /\ l.path \in {"classic", "tool"} /\ l.plan \in Nat
        /\ l.at \in Nat /\ l.done \in SUBSET Nat /\ l.at + 1 \in Nat
    BY DEF CallRecord
  <2> QED
    BY <2>1, Renumbered
<1>e. pc \in [Calls -> Awaits] /\ call \in [Calls -> CallRecord]
      /\ {"running", "cancelled"} \subseteq ExecutorStates
  BY DEF ExecutionInv, ExecutionType, ExecutorStates
<1>c. ASSUME NEW x \in ExecutorStates, Execution!Conclude(c, l), Execution!Books(t, x, None)
      PROVE  ExecutionInv' /\ pc'[c] # "model"
  <2>1. \A place \in Awaits : BooksKept(c, t, place)
    BY <1>c, BooksAre
  <2>2. cancelled' = cancelled
    BY <1>c DEF Execution!Books
  <2>3. ExecutionInv'
    BY <1>c, <2>1, <2>2, ConcludeStep
  <2>4. pc'[c] # "model"
    BY <1>c, <1>e DEF Execution!Conclude, Execution!Goto
  <2> QED
    BY <2>3, <2>4
<1>2. CASE n.at > l.plan
  <2>1. Execution!Conclude(c, l) /\ Execution!Books(t, s, None)
    BY <1>2 DEF Execution!NextSubtask
  <2> QED
    BY <2>1, <1>c
<1>3. CASE ~(n.at > l.plan) /\ Execution!MayAttempt(t)
  <2>1. Execution!Goto(c, "model", n) /\ Execution!Books(t, "running", c)
        /\ UNCHANGED <<status, priority, pending>>
    BY <1>3 DEF Execution!NextSubtask, Execution!manager
  <2>2. pc' = [pc EXCEPT ![c] = "model"] /\ call' = [call EXCEPT ![c] = n]
    BY <2>1, GotoIs
  <2>3. BooksKept(c, t, "model") /\ cancelled' = cancelled
    BY <2>1, <1>e, BooksAre
  <2>4. l.at \in Nat /\ l.plan \in Nat
    BY DEF CallRecord
  <2>5. n.at \in 1 .. n.plan
    BY <1>1, <1>3, <2>4
  <2>6. Progress("model", n)'
    BY <1>1, <2>5 DEF Progress
  <2>7. ExecutionInv'
    <3>1. "model" \in Awaits
      BY DEF Awaits
    <3> HIDE DEF n
    <3> QED
      BY <1>1, <2>1, <2>2, <2>3, <2>6, <3>1, Continues
  <2>8. call'[c] = n
    BY <2>2, <1>e
  <2> QED
    BY <2>7, <2>8, <1>1, <1>3 DEF Execution!MayAttempt
<1>4. CASE ~(n.at > l.plan) /\ ~Execution!MayAttempt(t)
  <2>1. Execution!Conclude(c, l) /\ Execution!Books(t, "cancelled", None)
    BY <1>4 DEF Execution!NextSubtask
  <2> QED
    BY <2>1, <1>c, <1>e
<1> QED
  BY <1>2, <1>3, <1>4

\* The call raises out of a step, and its task is FAILED.
LEMMA RaiseStep ==
    ASSUME ExecutionInv, NEW c \in Calls, pc[c] # "idle", NEW t \in Tasks, t = call[c].task,
           Execution!Raise(c), BooksKept(c, t, "idle"),
           cancelled' \in {cancelled, cancelled \cup {t}}, memory \subseteq memory',
           memory' \subseteq Tasks, UNCHANGED <<client, findings, audited>>
    PROVE  ExecutionInv'
<1>1. Execution!SetStatus(t, "failed") /\ Execution!Goto(c, "idle", Execution!NoCall)
  BY DEF Execution!Raise, Execution!Fail
<1>2. pc' = [pc EXCEPT ![c] = "idle"] /\ call' = [call EXCEPT ![c] = Execution!NoCall]
  BY <1>1, GotoIs
<1>3. status' = [status EXCEPT ![t] = "failed"] /\ pending' = Execution!Requeued(t, "failed")
      /\ priority' = priority
  BY <1>1, SetStatusIs
<1>4. StoresKept(t)
  BY DEF StoresKept, ExecutionInv, ExecutionType
<1> QED
  BY <1>2, <1>3, <1>4, Finishes

\* Nobody else is touched by a step of the execution c.
Alone(c) ==
    /\ \A d \in Calls \ {c} : pc'[d] = pc[d] /\ call'[d] = call[d]
    /\ \A u \in Tasks \ {call[c].task} : status'[u] = status[u]

\* The task of an execution in progress has not ended, so only its next model call matters.
LEMMA LastsAlone ==
    ASSUME ExecutionInv, NEW c \in Calls, pc[c] # "idle", Alone(c),
           pc'[c] = "model" => call'[c].task \notin cancelled
    PROVE  Execution!CancellationLasts
<1>1. status[call[c].task] = "running"
  BY DEF ExecutionInv, WorkInv
<1>2. \A u \in Tasks : status[u] \in {"completed", "failed"} => status'[u] = status[u]
  BY <1>1 DEF Alone
<1>3. ASSUME NEW d \in Calls, pc'[d] = "model", <<pc[d], call[d]>> # <<pc'[d], call'[d]>>
      PROVE  call'[d].task \notin cancelled
  <2>1. d = c
    BY <1>3 DEF Alone
  <2> QED
    BY <1>3, <2>1
<1> QED
  BY <1>2, <1>3 DEF Execution!CancellationLasts

\* A step of one execution leaves the others alone:
LEMMA AloneGoes ==
    ASSUME ExecutionType, NEW c \in Calls, NEW place, NEW l, Execution!Goto(c, place, l),
           status' = status \/ \E s : status' = [status EXCEPT ![call[c].task] = s]
    PROVE  Alone(c) /\ pc'[c] = place /\ (place # "idle" => call'[c] = l)
<1>1. pc \in [Calls -> Awaits] /\ call \in [Calls -> CallRecord]
      /\ status \in [Tasks -> Execution!Statuses \cup {None}]
  BY DEF ExecutionType
<1> DEFINE x == IF place = "idle" THEN Execution!NoCall ELSE l
<1>2. pc' = [pc EXCEPT ![c] = place] /\ call' = [call EXCEPT ![c] = x]
  BY DEF Execution!Goto
<1>3. \A d \in Calls \ {c} : pc'[d] = pc[d] /\ call'[d] = call[d]
  BY <1>1, <1>2
<1>4. \A u \in Tasks \ {call[c].task} : status'[u] = status[u]
  BY <1>1
<1>5. pc'[c] = place /\ (place # "idle" => call'[c] = l)
  BY <1>1, <1>2
<1> QED
  BY <1>3, <1>4, <1>5 DEF Alone

\* one that ends it,
LEMMA AloneConcludes ==
    ASSUME ExecutionType, NEW c \in Calls, NEW l, l.task = call[c].task, Execution!Conclude(c, l)
    PROVE  Alone(c)
<1>1. CASE l.done = 1 .. l.plan
  BY <1>1, AloneGoes DEF Execution!Conclude, Execution!manager
<1>2. CASE l.done # 1 .. l.plan
  <2>1. Execution!SetStatus(call[c].task, "failed") /\ Execution!Goto(c, "idle", l)
    BY <1>2 DEF Execution!Conclude
  <2> QED
    BY <2>1, SetStatusIs, AloneGoes
<1> QED
  BY <1>1, <1>2

\* one that goes on to the next subtask,
LEMMA AloneNext ==
    ASSUME ExecutionType, NEW c \in Calls, NEW l, NEW s, l.task = call[c].task,
           Execution!NextSubtask(c, l, s)
    PROVE  Alone(c)
<1>1. \/ Execution!Conclude(c, l)
      \/ \E n : Execution!Goto(c, "model", n) /\ status' = status
  BY DEF Execution!NextSubtask, Execution!manager
<1> QED
  BY <1>1, AloneConcludes, AloneGoes

\* and one that raises.
LEMMA AloneRaises ==
    ASSUME ExecutionType, NEW c \in Calls, Execution!Raise(c)
    PROVE  Alone(c) /\ pc'[c] = "idle"
<1>1. Execution!SetStatus(call[c].task, "failed") /\ Execution!Goto(c, "idle", Execution!NoCall)
  BY DEF Execution!Raise, Execution!Fail
<1> QED
  BY <1>1, SetStatusIs, AloneGoes

\* Nothing of the stores changes.
LEMMA StoresSame ==
    ASSUME ExecutionInv, NEW t, UNCHANGED <<findings, audited>>
    PROVE  StoresKept(t)
  BY DEF ExecutionInv, ExecutionType, StoresKept

\* The answer of the model becomes a finding.
LEMMA AnswerStep ==
    ASSUME ExecutionInv, NEW c \in Calls, Execution!Answer(c)
    PROVE  ExecutionInv' /\ Execution!CancellationLasts
<1>c. PICK l, t : l = call[c] /\ t = l.task
  OBVIOUS
<1>1. /\ pc[c] = "model" /\ Execution!Goto(c, "finding", l)
      /\ Execution!Books(t, "completed", None)
      /\ UNCHANGED <<client, status, priority, pending, findings, audited, memory>>
  BY <1>c DEF Execution!Answer, Execution!Keep, Execution!manager, Execution!records
<1>2. l \in CallRecord /\ t \in Tasks /\ Progress("model", l)
  BY <1>1, <1>c, AtWork
<1>3. pc' = [pc EXCEPT ![c] = "finding"] /\ call' = [call EXCEPT ![c] = l]
  BY <1>1, GotoIs
<1>4. BooksKept(c, t, "finding") /\ cancelled' = cancelled
  BY <1>1, <1>2, BooksAre DEF ExecutorStates
<1>5. Progress("finding", l)'
  BY <1>1, <1>2 DEF Progress
<1>6. StoresKept(t)
  BY <1>1, StoresSame
<1>7. ExecutionInv'
  BY <1>1, <1>2, <1>3, <1>4, <1>5, <1>6, <1>c, Continues DEF Awaits
<1>8. Alone(c) /\ pc'[c] = "finding"
  BY <1>1, AloneGoes DEF ExecutionInv
<1> QED
  BY <1>1, <1>7, <1>8, LastsAlone

\* A subtask is over without an answer, or after its last attempt.
LEMMA SubtaskOver ==
    ASSUME ExecutionInv, NEW c \in Calls, pc[c] \in {"model", "backoff"},
           NEW s \in ExecutorStates, Execution!NextSubtask(c, call[c], s),
           UNCHANGED <<client, findings, audited, memory>>
    PROVE  ExecutionInv' /\ Execution!CancellationLasts
<1>c. PICK l, t : l = call[c] /\ t = l.task
  OBVIOUS
<1>1. l \in CallRecord /\ t \in Tasks /\ Progress(pc[c], l)
  BY <1>c, AtWork
<1>2. /\ l.path = "classic" /\ l.at \in 1 .. l.plan
      /\ findings'[t] \subseteq 1 .. l.plan /\ audited'[t] \subseteq 1 .. l.plan
      /\ l.done \subseteq findings'[t] \cap audited'[t]
  BY <1>1, <1>c DEF Progress
<1>3. StoresKept(t)
  BY StoresSame
<1>4. /\ ExecutionInv'
      /\ pc'[c] = "model" => call'[c].task \notin cancelled
  BY <1>1, <1>2, <1>3, <1>c, NextSubtaskStep
<1>5. Alone(c)
  BY <1>c, AloneNext DEF ExecutionInv
<1> QED
  BY <1>4, <1>5, LastsAlone

\* An answer that cannot be used keeps the invariant.
LEMMA UnusableStep ==
    ASSUME ExecutionInv, NEW c \in Calls, Execution!Unusable(c)
    PROVE  ExecutionInv' /\ Execution!CancellationLasts
<1>1. /\ pc[c] = "model" /\ UNCHANGED <<client, findings, audited, memory>>
      /\ \E s \in {"completed", "failed"} : Execution!NextSubtask(c, call[c], s)
  BY DEF Execution!Unusable, Execution!Keep, Execution!records
<1>2. PICK s \in {"completed", "failed"} : Execution!NextSubtask(c, call[c], s)
  BY <1>1
<1>3. s \in ExecutorStates
  BY DEF ExecutorStates
<1> QED
  BY <1>1, <1>2, <1>3, SubtaskOver

\* A call that tries its subtask again.
LEMMA Retried ==
    ASSUME NEW l \in CallRecord
    PROVE  LET n == [l EXCEPT !.attempt = @ + 1] IN
           /\ n \in CallRecord /\ n.task = l.task /\ n.path = l.path /\ n.plan = l.plan
           /\ n.done = l.done /\ n.at = l.at
  BY DEF CallRecord

\* A failed attempt keeps the invariant.
LEMMA AttemptFailsStep ==
    ASSUME ExecutionInv, NEW c \in Calls, Execution!AttemptFails(c)
    PROVE  ExecutionInv' /\ Execution!CancellationLasts
<1>c. PICK l, t : l = call[c] /\ t = l.task
  OBVIOUS
<1>1. pc[c] = "model" /\ UNCHANGED <<client, findings, audited, memory>>
  BY DEF Execution!AttemptFails, Execution!Keep, Execution!records
<1>2. l \in CallRecord /\ t \in Tasks /\ Progress("model", l)
  BY <1>1, <1>c, AtWork
<1>3. CASE l.attempt < MaxRetries
  <2> DEFINE n == [l EXCEPT !.attempt = @ + 1]
  <2>1. Execution!Goto(c, "backoff", n)
        /\ UNCHANGED <<status, priority, pending, running, state, cancelled>>
    BY <1>3, <1>c DEF Execution!AttemptFails, Execution!manager, Execution!executor
  <2>2. /\ n \in CallRecord /\ n.task = t /\ n.path = l.path /\ n.plan = l.plan
        /\ n.done = l.done /\ n.at = l.at
    BY <1>2, <1>c, Retried
  <2> HIDE DEF n
  <2>3. pc' = [pc EXCEPT ![c] = "backoff"] /\ call' = [call EXCEPT ![c] = n]
    BY <2>1, GotoIs
  <2>4. BooksKept(c, t, "backoff") /\ StoresKept(t)
    BY <1>1, <2>1, StoresSame DEF BooksKept
  <2>5. Progress("backoff", n)'
    BY <1>1, <1>2, <1>c, <2>2 DEF Progress
  <2>6. ExecutionInv'
    BY <1>1, <1>2, <1>c, <2>1, <2>2, <2>3, <2>4, <2>5, Continues DEF Awaits
  <2>7. Alone(c) /\ pc'[c] = "backoff"
    BY <2>1, AloneGoes DEF ExecutionInv
  <2> QED
    BY <1>1, <2>6, <2>7, LastsAlone
<1>4. CASE ~(l.attempt < MaxRetries)
  <2>1. PICK s \in {"timeout", "failed"} : Execution!NextSubtask(c, call[c], s)
    BY <1>4, <1>c DEF Execution!AttemptFails
  <2>2. s \in ExecutorStates
    BY DEF ExecutorStates
  <2> QED
    BY <1>1, <2>1, <2>2, SubtaskOver
<1> QED
  BY <1>3, <1>4

\* A retry keeps the invariant.
LEMMA RetryStep ==
    ASSUME ExecutionInv, NEW c \in Calls, Execution!Retry(c)
    PROVE  ExecutionInv' /\ Execution!CancellationLasts
<1>c. PICK l, t : l = call[c] /\ t = l.task
  OBVIOUS
<1>1. pc[c] = "backoff" /\ UNCHANGED <<client, findings, audited, memory>>
  BY DEF Execution!Retry, Execution!Keep, Execution!records
<1>2. l \in CallRecord /\ t \in Tasks /\ Progress("backoff", l)
  BY <1>1, <1>c, AtWork
<1>3. CASE Execution!MayAttempt(t)
  <2>1. Execution!Goto(c, "model", l)
        /\ UNCHANGED <<status, priority, pending, running, state, cancelled>>
    BY <1>3, <1>c DEF Execution!Retry, Execution!manager, Execution!executor
  <2>3. pc' = [pc EXCEPT ![c] = "model"] /\ call' = [call EXCEPT ![c] = l]
    BY <2>1, GotoIs
  <2>4. BooksKept(c, t, "model") /\ StoresKept(t)
    BY <1>1, <2>1, StoresSame DEF BooksKept
  <2>5. Progress("model", l)'
    BY <1>1, <1>2 DEF Progress
  <2>6. ExecutionInv'
    BY <1>1, <1>2, <1>c, <2>1, <2>3, <2>4, <2>5, Continues DEF Awaits
  <2>7. Alone(c) /\ call'[c] = l
    BY <2>1, AloneGoes DEF ExecutionInv
  <2> QED
    BY <1>1, <1>3, <1>c, <2>6, <2>7, LastsAlone DEF Execution!MayAttempt
<1>4. CASE ~Execution!MayAttempt(t)
  <2>1. Execution!NextSubtask(c, call[c], "cancelled") /\ "cancelled" \in ExecutorStates
    BY <1>4, <1>c DEF Execution!Retry, ExecutorStates
  <2> QED
    BY <1>1, <2>1, SubtaskOver
<1> QED
  BY <1>3, <1>4

\* A refused model call keeps the invariant.
LEMMA MeteredBlocksStep ==
    ASSUME ExecutionInv, NEW c \in Calls, Execution!MeteredBlocks(c)
    PROVE  ExecutionInv' /\ Execution!CancellationLasts
<1>c. PICK l, t : l = call[c] /\ t = l.task
  OBVIOUS
<1>1. pc[c] = "model" /\ UNCHANGED <<client, findings, audited, memory>>
      /\ Execution!Raise(c) /\ Execution!Books(t, "failed", None)
  BY <1>c DEF Execution!MeteredBlocks, Execution!Keep, Execution!records
<1>2. t \in Tasks
  BY <1>1, <1>c, AtWork
<1>3. BooksKept(c, t, "idle") /\ cancelled' = cancelled
  BY <1>1, <1>2, BooksAre DEF ExecutorStates
<1>4. memory \subseteq Tasks
  BY DEF ExecutionInv, ExecutionType
<1>5. ExecutionInv'
  BY <1>1, <1>2, <1>3, <1>4, <1>c, RaiseStep
<1>6. Alone(c) /\ pc'[c] = "idle"
  BY <1>1, AloneRaises DEF ExecutionInv
<1> QED
  BY <1>1, <1>5, <1>6, LastsAlone

\* A stored finding keeps the invariant.
LEMMA FindingStoredStep ==
    ASSUME ExecutionInv, NEW c \in Calls, Execution!FindingStored(c)
    PROVE  ExecutionInv' /\ Execution!CancellationLasts
<1>c. PICK l, t : l = call[c] /\ t = l.task
  OBVIOUS
<1>1. /\ pc[c] = "finding" /\ Execution!Goto(c, "audit", l)
      /\ findings' = [findings EXCEPT ![t] = @ \cup {l.at}]
      /\ UNCHANGED <<client, status, priority, pending, running, state, cancelled, audited, memory>>
  BY <1>c DEF Execution!FindingStored, Execution!Keep, Execution!manager, Execution!executor
<1>2. l \in CallRecord /\ t \in Tasks /\ Progress("finding", l)
  BY <1>1, <1>c, AtWork
<1>3. pc' = [pc EXCEPT ![c] = "audit"] /\ call' = [call EXCEPT ![c] = l]
  BY <1>1, GotoIs
<1>4. findings \in [Tasks -> SUBSET Nat] /\ audited \in [Tasks -> SUBSET Nat] /\ l.at \in Nat
  BY <1>2 DEF ExecutionInv, ExecutionType, CallRecord
<1>5. findings'[t] = findings[t] \cup {l.at} /\ StoresKept(t)
  BY <1>1, <1>2, <1>4 DEF StoresKept
<1>6. Progress("audit", l)'
  <2>1. /\ l.path = "classic" /\ l.at \in 1 .. l.plan
        /\ findings[t] \subseteq 1 .. l.plan /\ audited[t] \subseteq 1 .. l.plan
        /\ l.done \subseteq findings[t] \cap audited[t]
    BY <1>2, <1>c DEF Progress
  <2> QED
    BY <1>1, <1>5, <1>c, <2>1 DEF Progress
<1>7. BooksKept(c, t, "audit")
  BY <1>1 DEF BooksKept
<1>8. ExecutionInv'
  BY <1>1, <1>2, <1>3, <1>5, <1>6, <1>7, <1>c, Continues DEF Awaits
<1>9. Alone(c) /\ pc'[c] = "audit"
  BY <1>1, AloneGoes DEF ExecutionInv
<1> QED
  BY <1>1, <1>8, <1>9, LastsAlone

\* A call that has finished one more subtask.
LEMMA Ticked ==
    ASSUME NEW l \in CallRecord
    PROVE  LET n == [l EXCEPT !.done = @ \cup {l.at}] IN
           /\ n \in CallRecord /\ n.task = l.task /\ n.path = l.path /\ n.plan = l.plan
           /\ n.done = l.done \cup {l.at} /\ n.at = l.at
  BY DEF CallRecord

\* The subtask is on both records, and the next one begins or the execution concludes.
LEMMA AuditedStep ==
    ASSUME ExecutionInv, NEW c \in Calls, Execution!Audited(c)
    PROVE  ExecutionInv' /\ Execution!CancellationLasts
<1>c. PICK l, t : l = call[c] /\ t = l.task
  OBVIOUS
<1> DEFINE n == [l EXCEPT !.done = @ \cup {l.at}]
<1>1. /\ pc[c] = "audit" /\ Execution!NextSubtask(c, n, state[t])
      /\ audited' = [audited EXCEPT ![t] = @ \cup {l.at}]
      /\ UNCHANGED <<client, findings, memory>>
  BY <1>c DEF Execution!Audited, Execution!Keep
<1>2. l \in CallRecord /\ t \in Tasks /\ Progress("audit", l)
  BY <1>1, <1>c, AtWork
<1>3. /\ n \in CallRecord /\ n.task = t /\ n.path = l.path /\ n.plan = l.plan
      /\ n.done = l.done \cup {l.at} /\ n.at = l.at
  BY <1>2, <1>c, Ticked
<1> HIDE DEF n
<1>4. findings \in [Tasks -> SUBSET Nat] /\ audited \in [Tasks -> SUBSET Nat] /\ l.at \in Nat
      /\ state[t] \in ExecutorStates
  BY <1>2 DEF ExecutionInv, ExecutionType, CallRecord, ExecutorStates
<1>5. audited'[t] = audited[t] \cup {l.at} /\ findings'[t] = findings[t] /\ StoresKept(t)
  BY <1>1, <1>2, <1>4 DEF StoresKept
<1>6. /\ l.path = "classic" /\ l.at \in 1 .. l.plan /\ l.at \in findings[t]
      /\ findings[t] \subseteq 1 .. l.plan /\ audited[t] \subseteq 1 .. l.plan
      /\ l.done \subseteq findings[t] \cap audited[t]
  BY <1>2, <1>c DEF Progress
<1>7. /\ n.at \in 1 .. n.plan
      /\ findings'[t] \subseteq 1 .. n.plan /\ audited'[t] \subseteq 1 .. n.plan
      /\ n.done \subseteq findings'[t] \cap audited'[t]
  BY <1>3, <1>5, <1>6
<1>8. /\ ExecutionInv'
      /\ pc'[c] = "model" => call'[c].task \notin cancelled
  BY <1>1, <1>2, <1>3, <1>4, <1>5, <1>6, <1>7, <1>c, NextSubtaskStep
<1>9. Alone(c)
  BY <1>1, <1>3, <1>c, AloneNext DEF ExecutionInv
<1> QED
  BY <1>1, <1>8, <1>9, LastsAlone

\* A call that has its answer, or not.
LEMMA Answered ==
    ASSUME NEW l \in CallRecord, NEW d \in {{}, {1}}
    PROVE  LET n == [l EXCEPT !.done = d] IN
           n \in CallRecord /\ n.task = l.task /\ n.path = l.path
  BY DEF CallRecord

\* The end of a tool loop keeps the invariant.
LEMMA ToolLoopEndsStep ==
    ASSUME ExecutionInv, NEW c \in Calls, Execution!ToolLoopEnds(c)
    PROVE  ExecutionInv' /\ Execution!CancellationLasts
<1>c. PICK l, t : l = call[c] /\ t = l.task
  OBVIOUS
<1>1. /\ pc[c] = "tool"
      /\ UNCHANGED <<client, running, state, cancelled, findings, audited, memory>>
  BY DEF Execution!ToolLoopEnds, Execution!Keep, Execution!executor, Execution!records
<1>2. PICK d \in {{}, {1}} : Execution!Conclude(c, [l EXCEPT !.done = d])
  BY <1>c DEF Execution!ToolLoopEnds
<1> DEFINE n == [l EXCEPT !.done = d]
<1>3. l \in CallRecord /\ t \in Tasks /\ Progress("tool", l)
  BY <1>1, <1>c, AtWork
<1>4. n \in CallRecord /\ n.task = t /\ n.path = "tool"
  BY <1>3, <1>c, Answered DEF Progress
<1>5. Execution!Conclude(c, n)
  BY <1>2
<1> HIDE DEF n
<1>6. StoresKept(t)
  BY <1>1, StoresSame
<1>7. \A place \in Awaits : BooksKept(c, t, place)
  BY <1>1 DEF BooksKept
<1>8. ExecutionInv'
  BY <1>1, <1>3, <1>4, <1>5, <1>6, <1>7, <1>c, ConcludeStep
<1>9. Alone(c)
  BY <1>4, <1>5, <1>c, AloneConcludes DEF ExecutionInv
<1>10. pc'[c] # "model"
  BY <1>5 DEF Execution!Conclude, Execution!Goto, ExecutionInv, ExecutionType
<1> QED
  BY <1>1, <1>8, <1>9, <1>10, LastsAlone

\* The completion is remembered, then the task is COMPLETED.
LEMMA MemoryStoredStep ==
    ASSUME ExecutionInv, NEW c \in Calls, Execution!MemoryStored(c)
    PROVE  ExecutionInv' /\ Execution!CancellationLasts
<1>c. PICK l, t : l = call[c] /\ t = l.task
  OBVIOUS
<1>1. /\ pc[c] = "memory" /\ memory' = memory \cup {t}
      /\ Execution!SetStatus(t, "completed") /\ Execution!Goto(c, "idle", Execution!NoCall)
      /\ UNCHANGED <<client, running, state, cancelled, findings, audited>>
  BY <1>c DEF Execution!MemoryStored, Execution!Keep, Execution!executor
<1>2. t \in Tasks
  BY <1>1, <1>c, AtWork
<1>3. pc' = [pc EXCEPT ![c] = "idle"] /\ call' = [call EXCEPT ![c] = Execution!NoCall]
  BY <1>1, GotoIs
<1>4. status' = [status EXCEPT ![t] = "completed"] /\ priority' = priority
      /\ pending' = Execution!Requeued(t, "completed")
  BY <1>1, SetStatusIs
<1>5. BooksKept(c, t, "idle") /\ StoresKept(t)
  BY <1>1, StoresSame DEF BooksKept
<1>6. memory \subseteq memory' /\ memory' \subseteq Tasks /\ t \in memory'
  BY <1>1, <1>2 DEF ExecutionInv, ExecutionType
<1>7. ExecutionInv'
  BY <1>1, <1>2, <1>3, <1>4, <1>5, <1>6, <1>c, Finishes
<1>8. Alone(c) /\ pc'[c] = "idle"
  BY <1>1, <1>4, <1>c, AloneGoes DEF ExecutionInv
<1> QED
  BY <1>1, <1>7, <1>8, LastsAlone

\* An exception at any await keeps the invariant.
LEMMA StepRaisesStep ==
    ASSUME ExecutionInv, NEW c \in Calls, Execution!StepRaises(c)
    PROVE  ExecutionInv' /\ Execution!CancellationLasts
<1>c. PICK l, t : l = call[c] /\ t = l.task
  OBVIOUS
<1>1. /\ pc[c] \in {"finding", "audit", "tool", "memory"} /\ Execution!Raise(c)
      /\ UNCHANGED <<client, running, state, cancelled, findings, audited>>
  BY DEF Execution!StepRaises, Execution!Keep, Execution!executor
<1>2. t \in Tasks
  BY <1>1, <1>c, AtWork
<1>3. memory \subseteq memory' /\ memory' \subseteq Tasks
  BY DEF Execution!StepRaises, ExecutionInv, ExecutionType
<1>4. BooksKept(c, t, "idle")
  BY <1>1 DEF BooksKept
<1>5. ExecutionInv'
  BY <1>1, <1>2, <1>3, <1>4, <1>c, RaiseStep
<1>6. Alone(c) /\ pc'[c] = "idle"
  BY <1>1, AloneRaises DEF ExecutionInv
<1> QED
  BY <1>1, <1>5, <1>6, LastsAlone

\* A CancelledError inside the executor ends the call.
LEMMA InterruptedStep ==
    ASSUME ExecutionInv, NEW c \in Calls, NEW s \in ExecutorStates, Execution!Interrupted(c, s),
           cancelled' \in {cancelled, cancelled \cup {call[c].task}},
           UNCHANGED <<client, findings, audited, memory>>
    PROVE  ExecutionInv' /\ Execution!CancellationLasts
<1>c. PICK l, t : l = call[c] /\ t = l.task
  OBVIOUS
<1>1. /\ pc[c] \in {"model", "backoff"} /\ Execution!Raise(c)
      /\ state' = [state EXCEPT ![t] = IF pc[c] = "model" THEN "cancelled" ELSE s]
      /\ running' = [running EXCEPT ![t] = None]
  BY <1>c DEF Execution!Interrupted
<1>2. t \in Tasks
  BY <1>1, <1>c, AtWork
<1>3. memory \subseteq memory' /\ memory' \subseteq Tasks
  BY DEF ExecutionInv, ExecutionType
<1>4. BooksKept(c, t, "idle")
  BY <1>1 DEF BooksKept, ExecutorStates
<1>5. ExecutionInv'
  BY <1>1, <1>2, <1>3, <1>4, <1>c, RaiseStep
<1>6. Alone(c) /\ pc'[c] = "idle"
  BY <1>1, AloneRaises DEF ExecutionInv
<1> QED
  BY <1>1, <1>5, <1>6, LastsAlone

\* So does a cancellation of the caller.
LEMMA CallerCancelledStep ==
    ASSUME ExecutionInv, NEW c \in Calls, Execution!CallerCancelled(c)
    PROVE  ExecutionInv' /\ Execution!CancellationLasts
<1>1. /\ pc[c] \in {"model", "backoff"} /\ Execution!Interrupted(c, state[call[c].task])
      /\ UNCHANGED <<client, cancelled, findings, audited, memory>>
  BY DEF Execution!CallerCancelled, Execution!Keep, Execution!records
<1>2. state[call[c].task] \in ExecutorStates
  BY <1>1, AtWork DEF ExecutionInv, ExecutionType, ExecutorStates
<1> QED
  BY <1>1, <1>2, InterruptedStep

\* AgentExecutor.cancel reaches the coroutine of the task, or only its books.
LEMMA ExecutorCancelStep ==
    ASSUME ExecutionInv, NEW t \in Tasks, Execution!ExecutorCancel(t)
    PROVE  ExecutionInv' /\ Execution!CancellationLasts
<1>1. /\ state[t] = "running" /\ cancelled' = cancelled \cup {t}
      /\ UNCHANGED <<client, findings, audited, memory>>
  BY DEF Execution!ExecutorCancel, Execution!Keep, Execution!records
<1>2. CASE running[t] # None /\ Execution!Interrupted(running[t], "cancelled")
  <2>1. running[t] \in Calls /\ call[running[t]].task = t
    BY <1>2 DEF ExecutionInv, WorkInv
  <2>2. "cancelled" \in ExecutorStates
    BY DEF ExecutorStates
  <2> QED
    BY <1>1, <1>2, <2>1, <2>2, InterruptedStep
<1>3. CASE /\ state' = [state EXCEPT ![t] = "cancelled"]
           /\ UNCHANGED <<status, priority, pending, running, pc, call>>
  <2>1. state' \in [Tasks -> ExecutorStates] /\ \A u \in Tasks : u # t => state'[u] = state[u]
    BY <1>3 DEF ExecutionInv, ExecutionType, ExecutorStates
  <2>2. client = "orchestrator" /\ status[t] \notin {None, "pending"}
    BY <1>1 DEF ExecutionInv, WorkInv
  <2>3. ExecutionType'
    BY <1>1, <1>3, <2>1 DEF ExecutionInv, ExecutionType, ExecutorStates
  <2>4. QueueInv' /\ ProgressInv'
    BY <1>1, <1>3 DEF ExecutionInv, QueueInv, ProgressInv, Progress
  <2>5. WorkInv'
    BY <1>1, <1>3, <2>1, <2>2 DEF ExecutionInv, WorkInv
  <2>6. Execution!CancellationLasts
    BY <1>3 DEF Execution!CancellationLasts
  <2> QED
    BY <2>3, <2>4, <2>5, <2>6 DEF ExecutionInv
<1> QED
  BY <1>2, <1>3 DEF Execution!ExecutorCancel, Execution!manager

\* Nobody executes: only a record changes, and not one that has ended.
LEMMA LastsRecords ==
    ASSUME ExecutionInv, NEW t \in Tasks, NEW s, status[t] \notin {"completed", "failed"},
           status' = [status EXCEPT ![t] = s], UNCHANGED <<pc, call>>
    PROVE  Execution!CancellationLasts
<1>1. \A u \in Tasks : u # t => status'[u] = status[u]
  BY DEF ExecutionInv, ExecutionType
<1> QED
  BY <1>1 DEF Execution!CancellationLasts

\* A new task keeps the invariant.
LEMMA CreateTaskStep ==
    ASSUME ExecutionInv, NEW t \in Tasks, NEW p \in Priorities, Execution!CreateTask(t, p)
    PROVE  ExecutionInv' /\ Execution!CancellationLasts
<1>1. /\ status[t] = None /\ status' = [status EXCEPT ![t] = "pending"]
      /\ priority' = [priority EXCEPT ![t] = p] /\ pending' = Append(pending, t)
      /\ UNCHANGED <<client, running, state, cancelled, findings, audited, memory, pc, call>>
  BY DEF Execution!CreateTask, Execution!executor, Execution!records
<1>2. QueueInv' /\ pending' \in Seq(Tasks)
  BY <1>1, Enqueued DEF ExecutionInv
<1>3. priority' \in [Tasks -> 0 .. 10]
  BY <1>1 DEF ExecutionInv, ExecutionType
<1>4. "pending" \in Execution!Statuses
  BY DEF Execution!Statuses
<1> QED
  BY <1>1, <1>2, <1>3, <1>4, StatusMoves, LastsRecords

\* So does a status that a client of the API sets.
LEMMA UpdateStatusStep ==
    ASSUME ExecutionInv, NEW t \in Tasks, NEW s \in Execution!Statuses,
           Execution!UpdateStatus(t, s)
    PROVE  ExecutionInv' /\ Execution!CancellationLasts
<1>1. /\ client = "api" /\ Execution!SetStatus(t, s)
      /\ UNCHANGED <<client, running, state, cancelled, findings, audited, memory, pc, call>>
  BY DEF Execution!UpdateStatus, Execution!executor, Execution!records
<1>2. /\ status[t] # None /\ s \in Execution!Legal[status[t]]
      /\ status' = [status EXCEPT ![t] = s] /\ pending' = Execution!Requeued(t, s)
      /\ priority' = priority
  BY <1>1, SetStatusIs
<1>3. status[t] \in Execution!Statuses /\ priority \in [Tasks -> 0 .. 10]
      /\ pending \in Seq(Tasks)
  BY <1>2 DEF ExecutionInv, ExecutionType
<1>4. status[t] \notin {"completed", "failed"} /\ (s = "pending" => status[t] = "blocked")
  BY <1>2, <1>3 DEF Execution!Legal, Execution!Statuses
<1>5. QueueInv' /\ pending' \in Seq(Tasks)
  <2>1. CASE s # "pending"
    BY <1>2, <2>1, Dequeued DEF ExecutionInv
  <2>2. CASE s = "pending"
    <3>1. \A i \in 1 .. Len(pending) : pending[i] # t
      BY <1>3, <1>4, <2>2, LenProperties DEF ExecutionInv, QueueInv
    <3>2. pending' = Append(pending, t)
      BY <1>2, <2>2, <3>1 DEF Execution!Requeued, Execution!RemoveFirst
    <3> QED
      BY <1>2, <1>4, <2>2, <3>2, Enqueued DEF ExecutionInv
  <2> QED
    BY <2>1, <2>2
<1> QED
  BY <1>1, <1>2, <1>3, <1>4, <1>5, StatusMoves, LastsRecords

\* Taking the foremost task off the queue keeps the invariant.
LEMMA TakeNextPendingStep ==
    ASSUME ExecutionInv, Execution!TakeNextPending
    PROVE  ExecutionInv' /\ Execution!CancellationLasts
<1>c. PICK i : i = Execution!Foremost(pending)
  OBVIOUS
<1>1. /\ client = "api" /\ pending # <<>>
      /\ status' = [status EXCEPT ![pending[i]] = "running"]
      /\ pending' = Execution!RemoveAt(pending, i)
      /\ UNCHANGED <<client, priority, running, state, cancelled, findings, audited, memory, pc,
                     call>>
  BY <1>c DEF Execution!TakeNextPending, Execution!executor, Execution!records
<1>2. i \in DOMAIN pending
  BY <1>1, <1>c, ForemostIsQueued DEF ExecutionInv
<1>3. pending \in Seq(Tasks) /\ priority \in [Tasks -> 0 .. 10]
  BY DEF ExecutionInv, ExecutionType
<1>4. i \in 1 .. Len(pending) /\ pending[i] \in Tasks /\ status[pending[i]] = "pending"
  BY <1>2, <1>3, LenProperties, ElementOfSeq DEF ExecutionInv, QueueInv
<1>5. \A j \in 1 .. Len(pending) : pending[j] = pending[i] => j = i
  BY <1>2, <1>3, LenProperties DEF ExecutionInv, QueueInv
<1>6. pending' = Execution!Requeued(pending[i], "running")
  BY <1>1, <1>3, <1>4, <1>5, RemoveFirstIs DEF Execution!Requeued
<1>7. QueueInv' /\ pending' \in Seq(Tasks)
  BY <1>1, <1>4, <1>6, Dequeued DEF ExecutionInv
<1>8. "running" \in Execution!Statuses
  BY DEF Execution!Statuses
<1> QED
  BY <1>1, <1>3, <1>4, <1>7, <1>8, StatusMoves, LastsRecords

\* An execution of a task that is not there keeps the invariant.
LEMMA ExecuteBlankStep ==
    ASSUME ExecutionInv, NEW t \in Tasks, Execution!ExecuteBlank(t)
    PROVE  ExecutionInv' /\ Execution!CancellationLasts
<1>1. /\ status[t] = "pending" /\ status' = [status EXCEPT ![t] = "failed"]
      /\ pending' = Execution!Requeued(t, "failed")
      /\ UNCHANGED <<client, priority, running, state, cancelled, findings, audited, memory, pc,
                     call>>
  BY DEF Execution!ExecuteBlank, Execution!executor, Execution!records
<1>2. QueueInv' /\ pending' \in Seq(Tasks)
  BY <1>1, Dequeued DEF ExecutionInv
<1>3. priority \in [Tasks -> 0 .. 10] /\ "failed" \in Execution!Statuses
  BY DEF ExecutionInv, ExecutionType, Execution!Statuses
<1> QED
  BY <1>1, <1>2, <1>3, StatusMoves, LastsRecords

\* The locals of an execution as it begins, on the tool path and on the classic one.
NewLocals(t, path, n) ==
    LET l == [Execution!NoCall EXCEPT !.task = t, !.path = path, !.plan = n]
    IN  IF path = "tool" THEN l ELSE [l EXCEPT !.at = 1]

\* What an execution begins with.
LEMMA NewCall ==
    ASSUME NEW t \in Tasks, NEW n \in Nat, NEW path \in {"classic", "tool"}
    PROVE  /\ NewLocals(t, path, n) \in CallRecord
           /\ NewLocals(t, path, n).task = t /\ NewLocals(t, path, n).path = path
           /\ NewLocals(t, path, n).plan = n /\ NewLocals(t, path, n).done = {}
           /\ path = "classic" => NewLocals(t, path, n).at = 1
<1> DEFINE l == [Execution!NoCall EXCEPT !.task = t, !.path = path, !.plan = n]
           z == [l EXCEPT !.at = 1]
<1>1. l \in CallRecord /\ l.task = t /\ l.path = path /\ l.plan = n /\ l.done = {}
  BY DEF Execution!NoCall, CallRecord
<1>2. /\ z \in CallRecord /\ z.task = t /\ z.path = path /\ z.plan = n /\ z.done = {}
      /\ z.at = 1
  BY DEF Execution!NoCall, CallRecord
<1>3. NewLocals(t, path, n) = IF path = "tool" THEN l ELSE z
  BY Zenon DEF NewLocals
<1> HIDE DEF l, z
<1> QED
  BY <1>1, <1>2, <1>3

\* A plan has a positive number of subtasks.
LEMMA PlansAreCounted == \A n \in 1 .. MaxSubtasks : n \in Nat \ {0} /\ 1 \in Nat \ {0}
  BY ExecutionAssumption, SMT

\* The task leaves the queue and has its execution.
LEMMA ExecuteTaskStep ==
    ASSUME ExecutionInv, NEW c \in Calls, NEW t \in Tasks, NEW n \in 1 .. MaxSubtasks,
           NEW path \in {"classic", "tool"}, Execution!ExecuteTask(c, t, n, path)
    PROVE  ExecutionInv' /\ Execution!CancellationLasts
<1> DEFINE m == IF path = "tool" THEN 1 ELSE n
           place == IF path = "tool" THEN "tool" ELSE "model"
           x == NewLocals(t, path, m)
<1>1. /\ client = "orchestrator" /\ pc[c] = "idle" /\ status[t] = "pending"
      /\ status' = [status EXCEPT ![t] = "running"]
      /\ pending' = Execution!Requeued(t, "running")
      /\ UNCHANGED <<client, priority, findings, audited, memory>>
  BY DEF Execution!ExecuteTask, Execution!records
<1>2. /\ Execution!Goto(c, place, x)
      /\ path = "tool" => UNCHANGED <<running, state, cancelled>>
      /\ path # "tool" => Execution!Books(t, "running", c)
  BY DEF Execution!ExecuteTask, Execution!executor, NewLocals
<1>3. pc' = [pc EXCEPT ![c] = place] /\ call' = [call EXCEPT ![c] = x] /\ cancelled' = cancelled
  BY <1>2, GotoIs DEF Execution!Books
<1>4. m \in Nat \ {0}
  BY PlansAreCounted
<1>5. /\ x \in CallRecord /\ x.task = t /\ x.path = path /\ x.plan = m /\ x.done = {}
      /\ place = "model" => x.at = 1
  <2> HIDE DEF m
  <2>1. m \in Nat
    BY <1>4
  <2> QED
    BY <2>1, NewCall
<1>6. place \in {"tool", "model"} /\ (place = "tool" <=> path = "tool") /\ place \in Awaits
  BY DEF Awaits
<1> HIDE DEF x, place, m
<1>7. pc \in [Calls -> Awaits] /\ call \in [Calls -> CallRecord]
      /\ status \in [Tasks -> Execution!Statuses \cup {None}]
      /\ running \in [Tasks -> Calls \cup {None}] /\ state \in [Tasks -> ExecutorStates]
  BY DEF ExecutionInv, ExecutionType, ExecutorStates
<1>8. \A d \in Calls : pc'[d] = IF d = c THEN place ELSE pc[d]
  BY <1>3, <1>7
<1>9. \A d \in Calls : call'[d] = IF d = c THEN x ELSE call[d]
  BY <1>3, <1>7
<1>u. \A u \in Tasks : status'[u] = IF u = t THEN "running" ELSE status[u]
  BY <1>1, <1>7
<1>10. QueueInv' /\ pending' \in Seq(Tasks)
  BY <1>1, Dequeued DEF ExecutionInv
<1>11. /\ running' \in [Tasks -> Calls \cup {None}] /\ state' \in [Tasks -> ExecutorStates]
       /\ \A u \in Tasks : u # t => running'[u] = running[u] /\ state'[u] = state[u]
       /\ running'[t] = running[t] \/ (running'[t] = c /\ place = "model")
  BY <1>2, <1>6, <1>7 DEF Execution!Books, ExecutorStates
<1>12. ExecutionType'
  <2>1. status' \in [Tasks -> Execution!Statuses \cup {None}]
    BY <1>1, <1>7 DEF Execution!Statuses
  <2>2. pc' \in [Calls -> Awaits] /\ call' \in [Calls -> CallRecord]
    BY <1>3, <1>5, <1>6, <1>7
  <2> QED
    BY <1>1, <1>3, <1>10, <1>11, <2>1, <2>2 DEF ExecutionInv, ExecutionType, ExecutorStates
<1>13. \A d \in Calls : pc[d] # "idle" => d # c /\ call[d].task \in Tasks \ {t}
  BY <1>1 DEF ExecutionInv, WorkInv
<1>14. running[t] = None /\ t \notin cancelled
  BY <1>1, <1>13 DEF ExecutionInv, WorkInv
<1>15. WorkInv'
  <2>1. \A d \in Calls : pc'[d] # "idle" =>
            client' = "orchestrator" /\ call'[d].task \in Tasks /\ status'[call'[d].task] = "running"
    BY <1>1, <1>5, <1>8, <1>9, <1>u DEF ExecutionInv, WorkInv
  <2>2. \A d, e \in Calls :
            pc'[d] # "idle" /\ pc'[e] # "idle" /\ call'[d].task = call'[e].task => d = e
    BY <1>5, <1>8, <1>9, <1>13 DEF ExecutionInv, WorkInv
  <2>3. ASSUME NEW u \in Tasks, status'[u] = "running"
        PROVE  \E d \in Calls : pc'[d] # "idle" /\ call'[d].task = u
    <3>1. CASE u = t
      BY <3>1, <1>5, <1>6, <1>8, <1>9
    <3>2. CASE u # t
      <4>1. PICK d \in Calls : pc[d] # "idle" /\ call[d].task = u
        BY <1>1, <1>u, <2>3, <3>2 DEF ExecutionInv, WorkInv
      <4> QED
        BY <4>1, <1>8, <1>9, <1>13
    <3> QED
      BY <3>1, <3>2
  <2>4. \A u \in Tasks : status'[u] = "completed" => u \in memory'
    BY <1>1, <1>u DEF ExecutionInv, WorkInv
  <2>5. ASSUME NEW u \in Tasks, running'[u] # None
        PROVE  running'[u] \in Calls /\ pc'[running'[u]] \in {"model", "backoff"}
               /\ call'[running'[u]].task = u
    <3>1. CASE u = t
      BY <3>1, <2>5, <1>5, <1>8, <1>9, <1>11, <1>14
    <3>2. CASE u # t
      <4>1. running'[u] = running[u] /\ running[u] \in Calls
            /\ pc[running[u]] \in {"model", "backoff"} /\ call[running[u]].task = u
        BY <3>2, <2>5, <1>11 DEF ExecutionInv, WorkInv
      <4> QED
        BY <4>1, <1>8, <1>9, <1>13
    <3> QED
      BY <3>1, <3>2
  <2>6. \A u \in Tasks : u \in cancelled' \/ state'[u] # None =>
            client' = "orchestrator" /\ status'[u] \notin {None, "pending"}
    BY <1>1, <1>3, <1>11, <1>u DEF ExecutionInv, WorkInv
  <2> QED
    BY <2>1, <2>2, <2>3, <2>4, <2>5, <2>6 DEF WorkInv
<1>16. ProgressInv'
  <2>1. findings'[t] = {} /\ audited'[t] = {} /\ findings' = findings /\ audited' = audited
    BY <1>1 DEF ExecutionInv, ProgressInv
  <2>2. \A u \in Tasks : status'[u] \in {None, "pending"} => findings'[u] = {} /\ audited'[u] = {}
    BY <1>1, <1>u DEF ExecutionInv, ProgressInv
  <2>3. ASSUME NEW d \in Calls PROVE Progress(pc[d], call[d])'
    <3>1. CASE d = c
      <4>1. pc'[d] = place /\ call'[d] = x /\ (place = "model" => x.at \in 1 .. x.plan)
        BY <3>1, <1>4, <1>5, <1>8, <1>9
      <4> QED
        BY <4>1, <2>1, <1>5, <1>6 DEF Progress
    <3>2. CASE d # c
      BY <3>2, <2>1, <1>8, <1>9 DEF ExecutionInv, ProgressInv, Progress
    <3> QED
      BY <3>1, <3>2
  <2> QED
    BY <2>2, <2>3 DEF ProgressInv
<1>17. Execution!CancellationLasts
  <2>1. \A u \in Tasks : status[u] \in {"completed", "failed"} => status'[u] = status[u]
    BY <1>1, <1>u
  <2>2. \A d \in Calls : pc'[d] = "model" /\ <<pc[d], call[d]>> # <<pc'[d], call'[d]>> =>
            call'[d].task \notin cancelled
    BY <1>5, <1>8, <1>9, <1>14
  <2> QED
    BY <2>1, <2>2 DEF Execution!CancellationLasts
<1> QED
  BY <1>10, <1>12, <1>15, <1>16, <1>17 DEF ExecutionInv

\* A step of another part keeps the invariant.
LEMMA ExecutionStays ==
    ASSUME ExecutionInv, UNCHANGED <<client, status, priority, pending, running, state, cancelled,
                                     findings, audited, memory, pc, call>>
    PROVE  ExecutionInv' /\ Execution!CancellationLasts
  BY DEF ExecutionInv, ExecutionType, QueueInv, WorkInv, ProgressInv, Progress,
         Execution!CancellationLasts

\* Every step of tasks and executions keeps it, and cancellations last.
LEMMA ExecutionNext ==
    ASSUME ExecutionInv, Execution!Next
    PROVE  ExecutionInv' /\ Execution!CancellationLasts
<1>1. CASE Execution!Start \/ Execution!Stop
  <2>1. UNCHANGED <<client, status, priority, pending, running, state, cancelled,
                    findings, audited, memory, pc, call>>
    BY <1>1 DEF Execution!Start, Execution!Stop, Execution!manager, Execution!executor,
       Execution!records
  <2> QED
    BY <2>1, ExecutionStays
<1>2. CASE \E c \in Calls : Execution!Step(c) \/ Execution!CallerCancelled(c)
  BY <1>2, AnswerStep, UnusableStep, AttemptFailsStep, RetryStep, MeteredBlocksStep,
     FindingStoredStep, AuditedStep, ToolLoopEndsStep, MemoryStoredStep, StepRaisesStep,
     CallerCancelledStep DEF Execution!Step
<1> QED
  BY <1>1, <1>2, CreateTaskStep, UpdateStatusStep, ExecuteTaskStep, ExecuteBlankStep,
     ExecutorCancelStep, TakeNextPendingStep DEF Execution!Next

\* The invariant holds initially.
LEMMA ExecutionInitial ==
    ASSUME Execution!Init PROVE ExecutionInv
<1>1. /\ client \in {"orchestrator", "api"} /\ status = [t \in Tasks |-> None]
      /\ priority = [t \in Tasks |-> 0] /\ pending = <<>> /\ running = [t \in Tasks |-> None]
      /\ state = [t \in Tasks |-> None] /\ cancelled = {} /\ memory = {}
      /\ findings = [t \in Tasks |-> {}] /\ audited = [t \in Tasks |-> {}]
      /\ pc = [c \in Calls |-> "idle"] /\ call = [c \in Calls |-> Execution!NoCall]
  BY DEF Execution!Init
<1>2. ExecutionType
  BY <1>1, NoCallIs DEF ExecutionType, Awaits
<1>3. QueueInv
  BY <1>1 DEF QueueInv
<1>4. WorkInv
  BY <1>1 DEF WorkInv
<1>5. ProgressInv
  BY <1>1 DEF ProgressInv, Progress
<1> QED
  BY <1>2, <1>3, <1>4, <1>5 DEF ExecutionInv

\* The inductive invariant of tasks and executions: the queue is the PENDING tasks, every
\* RUNNING one has the only execution that works on it, and what an execution counts as
\* done is in both stores.
THEOREM ExecutionInvariant == Spec => []ExecutionInv
<1>1. Init => ExecutionInv
  BY ExecutionInitial DEF Init
<1>2. ExecutionInv /\ [Next]_vars => ExecutionInv'
  <2> SUFFICES ASSUME ExecutionInv, [Next]_vars PROVE ExecutionInv'
    OBVIOUS
  <2>1. Execution!Next \/ UNCHANGED execution
    BY DEF Next, vars
  <2>2. CASE UNCHANGED execution
    BY <2>2, ExecutionStays DEF execution
  <2> QED
    BY <2>1, <2>2, ExecutionNext
<1> QED
  BY <1>1, <1>2, PTL DEF Spec

\* The component and this module count with one operator.
LEMMA CountsAlike == \A S : Execution!Cardinality(S) = Cardinality(S)
  BY Zenon DEF Execution!Cardinality, Cardinality

\* For every set of tasks, executions and workers and every number of subtasks, retries and
\* stops: the queue, the records and the executions of the orchestrator agree, a COMPLETED
\* task is in the memory store after all its findings and audit entries, an ended task stays
\* ended, and no model call begins for a task after its cancellation (kernel/tasks.py,
\* orchestrator.py, agents/executor.py).
THEOREM ExecutionSoundHolds == Spec => ExecutionSound
<1>1. ExecutionInv => Execution!TasksConsistent
  <2> SUFFICES ASSUME ExecutionInv PROVE Execution!TasksConsistent
    OBVIOUS
  <2>1. ASSUME NEW t \in Tasks
        PROVE  Cardinality({i \in DOMAIN pending : pending[i] = t}) =
                   IF status[t] = "pending" THEN 1 ELSE 0
    <3> DEFINE I == {i \in DOMAIN pending : pending[i] = t}
    <3>1. CASE status[t] = "pending"
      <4>1. PICK i \in DOMAIN pending : pending[i] = t
        BY <3>1 DEF ExecutionInv, QueueInv
      <4>2. \A j \in DOMAIN pending : pending[j] = t => j = i
        BY <4>1 DEF ExecutionInv, QueueInv
      <4>3. I = {i}
        BY <4>1, <4>2
      <4> HIDE DEF I
      <4>4. Cardinality(I) = 1
        BY <4>3, FS_Singleton
      <4> QED
        BY <3>1, <4>4 DEF I
    <3>2. CASE status[t] # "pending"
      <4>1. I = {}
        BY <3>2 DEF ExecutionInv, QueueInv
      <4> QED
        BY <3>2, <4>1, FS_EmptySet
    <3> QED
      BY <3>1, <3>2
  <2>2. ASSUME client = "orchestrator", NEW t \in Tasks
        PROVE  /\ Cardinality(Execution!On(t)) = IF status[t] = "running" THEN 1 ELSE 0
               /\ status[t] = "completed" => t \in memory
               /\ running[t] # None => running[t] \in Execution!On(t)
    <3>1. CASE status[t] = "running"
      <4>1. PICK c \in Calls : c \in Execution!On(t)
        BY <2>2, <3>1 DEF ExecutionInv, WorkInv, Execution!On
      <4>2. \A d \in Execution!On(t) : d = c
        BY <2>2, <3>1, <4>1 DEF ExecutionInv, WorkInv, Execution!On
      <4>3. Execution!On(t) = {c}
        BY <4>1, <4>2
      <4>4. Cardinality(Execution!On(t)) = 1
        BY <4>3, FS_Singleton
      <4>5. running[t] # None => running[t] \in Execution!On(t)
        BY DEF ExecutionInv, WorkInv, Execution!On
      <4> QED
        BY <3>1, <4>4, <4>5
    <3>2. CASE status[t] # "running"
      <4>1. Execution!On(t) = {}
        BY <3>2 DEF ExecutionInv, WorkInv, Execution!On
      <4>2. status[t] = "completed" => t \in memory
        BY <2>2 DEF ExecutionInv, WorkInv
      <4>3. running[t] # None => running[t] \in Execution!On(t)
        BY DEF ExecutionInv, WorkInv, Execution!On
      <4> QED
        BY <3>2, <4>1, <4>2, <4>3, FS_EmptySet
    <3> QED
      BY <3>1, <3>2
  <2>3. ASSUME NEW c \in Calls, pc[c] = "memory", call[c].path = "classic"
        PROVE  findings[call[c].task] \cap audited[call[c].task] = 1 .. call[c].plan
    <3>1. Progress(pc[c], call[c])
      BY DEF ExecutionInv, ProgressInv
    <3> QED
      BY <2>3, <3>1 DEF Progress
  <2>4. client = "orchestrator" => \A t \in Tasks :
            /\ Cardinality(Execution!On(t)) = IF status[t] = "running" THEN 1 ELSE 0
            /\ status[t] = "completed" => t \in memory
            /\ running[t] # None => running[t] \in Execution!On(t)
    BY <2>2, Zenon
  <2>5. \A c \in Calls : pc[c] = "memory" /\ call[c].path = "classic" =>
            findings[call[c].task] \cap audited[call[c].task] = 1 .. call[c].plan
    BY <2>3, Zenon
  <2>6. \A t \in Tasks : Cardinality({i \in DOMAIN pending : pending[i] = t}) =
            IF status[t] = "pending" THEN 1 ELSE 0
    BY <2>1, Zenon
  <2> QED
    BY <2>4, <2>5, <2>6, CountsAlike, Zenon DEF Execution!TasksConsistent
<1>2. ExecutionInv /\ [Next]_vars => [focus = "execution" => Execution!CancellationLasts]_execution
  <2> SUFFICES ASSUME ExecutionInv, [Next]_vars, ~UNCHANGED execution
               PROVE  Execution!CancellationLasts
    OBVIOUS
  <2>1. Execution!Next
    BY DEF Next, vars
  <2> QED
    BY <2>1, ExecutionNext
<1> QED
  BY <1>1, <1>2, ExecutionInvariant, PTL DEF Spec, ExecutionSound
==============================================================================
