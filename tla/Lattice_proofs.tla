--------------------------- MODULE Lattice_proofs ---------------------------
(***************************************************************************)
(* Theorems about the ownership of the Lattice, for any number of event     *)
(* loops, tasks, leases and generations, and about governance and event     *)
(* sourcing in its SQLite store, for any number of callers, proposals,      *)
(* voters and interruptions.                                                *)
(***************************************************************************)
EXTENDS LatticeLease, LatticeStore, FiniteSetTheorems, SequenceTheorems,
        WellFoundedInduction, TLAPS

-----------------------------------------------------------------------------
(* The inductive invariant, in parts.                                      *)

Past == {"init", "undo", "retire"}

\* A task is inside a manager of its loop exactly if that manager counts it.
Inside ==
    /\ \A t \in Tasks : pc[t] # "idle" =>
          /\ job[t].on \in Managers /\ t \in users[job[t].on]
          /\ loop[job[t].on] = LoopOf[t]
    /\ \A m \in Managers : \A t \in users[m] : job[t].on = m /\ pc[t] # "idle"
    /\ \A t \in Tasks : pc[t] = "idle" => job[t] = NoJob

\* A manager that was not created yet is neither installed nor used.
Unborn == \A m \in Managers : loop[m] = None => users[m] = {} /\ manager # m

\* Only new calls go to the installed manager; a release goes to its lease's.
CallsIn ==
    \A t \in Tasks : pc[t] # "idle" =>
        /\ job[t].op # "none"
        /\ job[t].op \in {"acquire", "get", "reset"} => job[t].on = manager
        /\ job[t].op \in {"acquire", "get"} => job[t].arg \in Configs \cup {None}
        /\ job[t].op = "release" =>
              /\ job[t].arg \in Leases /\ issued[job[t].arg] # None
              /\ issued[job[t].arg].manager = job[t].on
        /\ pc[t] = "init" => job[t].op \in {"acquire", "get"}

Holder == \A t \in Tasks : pc[t] \in Past => lock[job[t].on] = t

\* A task that awaits initialize or close works on its manager's generation,
\* which is out of service.
Awaiting ==
    \A t \in Tasks : pc[t] \in Past =>
        /\ gen[job[t].on] # None /\ ~ready[gen[job[t].on]]
        /\ pc[t] = "init" => conn[gen[job[t].on]] = "none"

\* Only the installed manager has a generation.
Home == \A m \in Managers : gen[m] # None => manager = m

InService ==
    \A g \in Generations :
        /\ tokens[g] # {} \/ pin[g] => ready[g]
        /\ ready[g] => conn[g] = "open"
        /\ conn[g] = "open" => manager # None /\ gen[manager] = g
        /\ conn[g] = "new" => \A m \in Managers : gen[m] # g

LeaseHome ==
    \A g \in Generations : \A l \in tokens[g] :
        /\ issued[l] # None /\ issued[l].generation = g
        /\ gen[issued[l].manager] = g

TaskInv == Inside /\ Unborn /\ CallsIn /\ Holder
GenInv == Awaiting /\ Home /\ InService /\ LeaseHome
Inv == TypeOK /\ TaskInv /\ GenInv

-----------------------------------------------------------------------------
\* Initially nobody is inside and nothing exists.
LEMMA InvInit == Init => Inv
<1> SUFFICES ASSUME Init PROVE Inv
  OBVIOUS
<1>1. TypeOK
  BY LeaseAssumption DEF Init, TypeOK, NoJob, Job, Ops
<1>2. TaskInv
  BY LeaseAssumption DEF Init, TaskInv, Inside, Unborn, CallsIn, Holder, Past
<1>3. GenInv
  BY LeaseAssumption DEF Init, GenInv, Awaiting, Home, InService, LeaseHome, Past
<1> QED
  BY <1>1, <1>2, <1>3 DEF Inv

\* One task at most is past the lock of a manager.
LEMMA OnePast ==
  ASSUME Inv, NEW t \in Tasks, pc[t] \in Past \/ Locked(t),
         NEW u \in Tasks, u # t, pc[u] \in Past
  PROVE  job[u].on # job[t].on
BY LeaseAssumption DEF Inv, TaskInv, Holder, Locked, Past

\* A call reserves its place.
LEMMA ReserveStep ==
  ASSUME Inv, NEW t \in Tasks, pc[t] = "idle", NEW m \in Managers,
         NEW op \in Ops \ {"none"}, NEW arg \in Configs \cup Leases \cup {None},
         Reserve(t, m, op, arg), loop'[m] = LoopOf[t],
         loop' \in [Managers -> Loops \cup {None}], manager' \in Managers \cup {None},
         \A n \in Managers : n # m => loop'[n] = loop[n] /\ (manager' = n => manager = n),
         loop[m] # None => loop' = loop /\ manager' = manager,
         loop[m] = None => manager = None /\ manager' = m,
         op \in {"acquire", "get", "reset"} => m = manager',
         op \in {"acquire", "get"} => arg \in Configs \cup {None},
         op = "release" => arg \in Leases /\ issued[arg] # None /\ issued[arg].manager = m
  PROVE  Inv'
<1>i. TypeOK /\ Inside /\ Unborn /\ CallsIn /\ Holder /\ Awaiting /\ Home /\ InService /\ LeaseHome
  BY DEF Inv, TaskInv, GenInv
<1>1. /\ users'[m] = users[m] \cup {t} /\ pc'[t] = "wait"
      /\ job'[t] = [op |-> op, arg |-> arg, on |-> m]
      /\ \A n \in Managers : n # m => users'[n] = users[n]
      /\ \A u \in Tasks : u # t => pc'[u] = pc[u] /\ job'[u] = job[u]
      /\ UNCHANGED <<lock, gen, ready, tokens, pin, config, conn, issued>>
  BY <1>i DEF Reserve, TypeOK, genVars
<1>2. TypeOK'
  BY <1>i DEF Reserve, TypeOK, genVars, Job
<1>3. Inside'
  <2>1. \A u \in Tasks : u # t /\ pc'[u] # "idle" =>
            /\ job'[u].on \in Managers /\ u \in users'[job'[u].on]
            /\ loop'[job'[u].on] = LoopOf[u]
    BY <1>i, <1>1 DEF Inside, Unborn
  <2>2. /\ job'[t].on \in Managers /\ t \in users'[job'[t].on]
        /\ loop'[job'[t].on] = LoopOf[t]
    BY <1>1
  <2>3. \A n \in Managers : \A u \in users'[n] : u \in Tasks /\ job'[u].on = n /\ pc'[u] # "idle"
    BY SMTT(30), <1>i, <1>1 DEF Inside, TypeOK
  <2>4. \A u \in Tasks : pc'[u] = "idle" => job'[u] = NoJob
    BY <1>i, <1>1 DEF Inside
  <2> QED
    BY <2>1, <2>2, <2>3, <2>4 DEF Inside
<1>4. Unborn'
  BY <1>i, <1>1, LeaseAssumption DEF Unborn
<1>5. CallsIn'
  <2>1. \A u \in Tasks : u # t /\ pc[u] # "idle" => loop[job[u].on] # None
    BY <1>i, LeaseAssumption DEF Inside
  <2>2. \A u \in Tasks : u # t /\ pc[u] # "idle" /\ job[u].on = manager => manager' = manager
    BY <1>i, <2>1, LeaseAssumption DEF Inside
  <2> QED
    BY <1>i, <1>1, <2>2 DEF CallsIn
<1>6. Holder' /\ Awaiting'
  BY <1>i, <1>1 DEF Holder, Awaiting, Past
<1>7. Home' /\ InService' /\ LeaseHome'
  BY <1>i, <1>1, LeaseAssumption DEF Home, InService, LeaseHome, TypeOK
<1> QED
  BY <1>2, <1>3, <1>4, <1>5, <1>6, <1>7 DEF Inv, TaskInv, GenInv

\* The four calls.
LEMMA CallStep ==
  ASSUME Inv, NEW t \in Tasks, Call(t)
  PROVE  Inv'
<1>i. TypeOK /\ Unborn
  BY DEF Inv, TaskInv
<1>1. ASSUME NEW op \in {"acquire", "get", "reset"}, NEW arg \in Configs \cup {None},
             Enter(t, op, arg)
      PROVE  Inv'
  <2>1. CASE /\ manager # None /\ loop[manager] = LoopOf[t]
             /\ Reserve(t, manager, op, arg) /\ UNCHANGED <<manager, loop>>
    <3>1. manager \in Managers /\ loop[manager] # None
      BY <1>i, <2>1, LeaseAssumption DEF TypeOK
    <3> QED
      BY <1>i, <1>1, <2>1, <3>1, ReserveStep DEF Enter, Ops, TypeOK
  <2>2. ASSUME NEW m \in Managers, manager = None, loop[m] = None, manager' = m,
               loop' = [loop EXCEPT ![m] = LoopOf[t]], Reserve(t, m, op, arg)
        PROVE  Inv'
    BY <1>i, <1>1, <2>2, ReserveStep, LeaseAssumption DEF Enter, Ops, TypeOK
  <2> QED
    BY <1>1, <2>1, <2>2 DEF Enter
<1>2. ASSUME NEW l \in Leases, Release(t, l) PROVE Inv'
  <2>1. issued[l].manager \in Managers /\ loop[issued[l].manager] # None
    BY <1>i, <1>2, LeaseAssumption DEF Release, TypeOK
  <2> QED
    BY <1>i, <1>2, <2>1, ReserveStep DEF Release, Ops, TypeOK
<1> QED
  BY <1>1, <1>2 DEF Call, AcquireLattice, GetLattice, ResetLattice

\* Leaving keeps the bookkeeping of the other tasks.
LEMMA LeaveStep ==
  ASSUME Inv, NEW t \in Tasks, pc[t] # "idle", NEW g \in Generations \cup {None},
         Leave(t, g), g # None => g = gen[job[t].on],
         \A l \in Leases : issued[l] # None => issued'[l] = issued[l]
  PROVE  /\ TaskInv' /\ Home'
         /\ manager' \in Managers \cup {None}
         /\ manager' # manager => manager' = None /\ manager = job[t].on /\ g = None
         /\ loop' \in [Managers -> Loops \cup {None}]
         /\ users' \in [Managers -> SUBSET Tasks]
         /\ lock' \in [Managers -> Tasks \cup {None}]
         /\ gen' \in [Managers -> Generations \cup {None}] /\ gen'[job[t].on] = g
         /\ \A n \in Managers : n # job[t].on => gen'[n] = gen[n]
         /\ pc' \in [Tasks -> {"idle", "wait", "init", "undo", "retire"}]
         /\ job' \in [Tasks -> Job] /\ pc'[t] = "idle"
         /\ \A u \in Tasks : u # t => pc'[u] = pc[u] /\ job'[u] = job[u]
<1>i. TypeOK /\ Inside /\ Unborn /\ CallsIn /\ Holder /\ Home
  BY DEF Inv, TaskInv, GenInv
<1> DEFINE m == job[t].on
<1>1. m \in Managers /\ t \in users[m] /\ loop[m] = LoopOf[t]
  BY <1>i DEF Inside
<1>2. /\ users'[m] = users[m] \ {t} /\ pc'[t] = "idle" /\ job'[t] = NoJob /\ loop' = loop
      /\ lock'[m] = (IF lock[m] = t THEN None ELSE lock[m]) /\ gen'[m] = g
      /\ manager' = IF Unneeded(m, t, g) THEN None ELSE manager
      /\ \A n \in Managers : n # m =>
            users'[n] = users[n] /\ lock'[n] = lock[n] /\ gen'[n] = gen[n]
      /\ \A u \in Tasks : u # t => pc'[u] = pc[u] /\ job'[u] = job[u]
  BY <1>i, <1>1 DEF Leave, TypeOK
<1>3. /\ manager' \in Managers \cup {None}
      /\ loop' \in [Managers -> Loops \cup {None}]
      /\ users' \in [Managers -> SUBSET Tasks]
      /\ lock' \in [Managers -> Tasks \cup {None}]
      /\ gen' \in [Managers -> Generations \cup {None}]
      /\ pc' \in [Tasks -> {"idle", "wait", "init", "undo", "retire"}]
      /\ job' \in [Tasks -> Job]
  BY <1>i, <1>1 DEF Leave, TypeOK, NoJob, Job, Ops
<1>4. manager' # manager => manager' = None /\ manager = m /\ g = None /\ users[m] = {t}
  BY <1>2 DEF Unneeded
<1> HIDE DEF m
<1>5. Inside' /\ Unborn'
  <2>1. \A u \in Tasks : u # t /\ pc'[u] # "idle" =>
            /\ job'[u].on \in Managers /\ u \in users'[job'[u].on]
            /\ loop'[job'[u].on] = LoopOf[u]
    BY <1>i, <1>1, <1>2 DEF Inside
  <2>2. \A n \in Managers : \A u \in users'[n] : u \in Tasks /\ u # t
    BY <1>i, <1>1, <1>2 DEF Inside, TypeOK, m
  <2>3. \A n \in Managers : \A u \in users'[n] : job'[u].on = n /\ pc'[u] # "idle"
    BY <1>i, <1>1, <1>2, <2>2 DEF Inside
  <2>4. \A u \in Tasks : pc'[u] = "idle" => job'[u] = NoJob
    BY <1>i, <1>2 DEF Inside
  <2>5. Inside'
    BY <1>2, <2>1, <2>3, <2>4 DEF Inside
  <2>6. Unborn'
    BY <1>i, <1>1, <1>2, <1>4, LeaseAssumption DEF Unborn
  <2> QED
    BY <2>5, <2>6
<1>6. CallsIn'
  <2>1. \A u \in Tasks : u # t /\ pc[u] # "idle" /\ job[u].on = manager => manager' = manager
    BY <1>i, <1>1, <1>4 DEF Inside
  <2> QED
    BY <1>i, <1>2, <2>1 DEF CallsIn
<1>7. Holder'
  BY <1>i, <1>1, <1>2, LeaseAssumption DEF Holder, Past, Inside
<1>8. Home'
  BY <1>i, <1>1, <1>2, <1>4, LeaseAssumption DEF Home, m
<1> QED
  BY <1>1, <1>2, <1>3, <1>4, <1>5, <1>6, <1>7, <1>8 DEF TaskInv, m

\* With a generation in its manager, a task at the lock or past it is alone.
LEMMA Alone ==
  ASSUME Inv, NEW t \in Tasks, pc[t] \in Past \/ Locked(t), Current(t) # None,
         NEW u \in Tasks, u # t
  PROVE  pc[u] \notin Past
<1> SUFFICES ASSUME pc[u] \in Past PROVE FALSE
  OBVIOUS
<1>1. job[u].on # job[t].on
  BY OnePast
<1>2. job[u].on \in Managers /\ job[t].on \in Managers
  BY DEF Inv, TaskInv, Inside, Past, Locked
<1>3. gen[job[u].on] # None
  BY DEF Inv, GenInv, Awaiting
<1> QED
  BY <1>1, <1>2, <1>3 DEF Inv, GenInv, Home, Current

\* The task's manager and generation have their types.
LEMMA CurrentType ==
  ASSUME Inv, NEW t \in Tasks, pc[t] # "idle"
  PROVE  /\ job[t].on \in Managers /\ Current(t) \in Generations \cup {None}
         /\ Current(t) # None => manager = job[t].on
         /\ pc[t] \in Past => Current(t) # None
BY DEF Inv, TypeOK, TaskInv, Inside, GenInv, Home, Awaiting, Current

\* A call that ends with nothing done.
LEMMA LeaveOnly ==
  ASSUME Inv, NEW t \in Tasks, pc[t] # "idle", Leave(t, Current(t)),
         UNCHANGED <<ready, tokens, pin, config, conn, issued>>
  PROVE  Inv'
<1>i. TypeOK /\ Awaiting /\ Home /\ InService /\ LeaseHome
  BY DEF Inv, GenInv
<1>c. job[t].on \in Managers /\ Current(t) \in Generations \cup {None}
  BY CurrentType
<1>1. /\ TaskInv' /\ Home'
      /\ manager' \in Managers \cup {None}
      /\ manager' # manager => manager' = None /\ manager = job[t].on /\ Current(t) = None
      /\ loop' \in [Managers -> Loops \cup {None}]
      /\ users' \in [Managers -> SUBSET Tasks]
      /\ lock' \in [Managers -> Tasks \cup {None}]
      /\ gen' \in [Managers -> Generations \cup {None}] /\ gen'[job[t].on] = Current(t)
      /\ \A n \in Managers : n # job[t].on => gen'[n] = gen[n]
      /\ pc' \in [Tasks -> {"idle", "wait", "init", "undo", "retire"}]
      /\ job' \in [Tasks -> Job] /\ pc'[t] = "idle"
      /\ \A u \in Tasks : u # t => pc'[u] = pc[u] /\ job'[u] = job[u]
  BY <1>c, LeaveStep DEF Current
<1>2. \A n \in Managers : gen'[n] = gen[n]
  BY <1>c, <1>1 DEF Current
<1>3. TypeOK'
  BY <1>i, <1>1 DEF TypeOK
<1>4. \A u \in Tasks : pc'[u] \in Past => job'[u] = job[u] /\ pc'[u] = pc[u] /\ job[u].on \in Managers
  BY <1>1 DEF Past, Inv, TaskInv, Inside
<1>5. Awaiting'
  BY <1>i, <1>2, <1>4 DEF Awaiting
<1>6. InService'
  BY <1>i, <1>1, <1>2, LeaseAssumption DEF InService, Current, TypeOK
<1>7. LeaseHome'
  <2>1. \A g \in Generations : \A l \in tokens[g] : l \in Leases /\ issued[l].manager \in Managers
    BY <1>i DEF LeaseHome, TypeOK
  <2> QED
    BY <1>i, <1>2, <2>1 DEF LeaseHome
<1> QED
  BY <1>1, <1>3, <1>5, <1>6, <1>7 DEF Inv, GenInv

\* A lease or a pin adds an owner to the generation g and to no other.
LEMMA PublishStep ==
  ASSUME Inv, NEW t \in Tasks, pc[t] # "idle", NEW g \in Generations, Publish(t, g),
         gen[job[t].on] = g
  PROVE  /\ tokens' \in [Generations -> SUBSET Leases]
         /\ pin' \in [Generations -> BOOLEAN]
         /\ issued' \in [Leases -> [manager : Managers, generation : Generations] \cup {None}]
         /\ \A l \in Leases : issued[l] # None => issued'[l] = issued[l]
         /\ \A h \in Generations : tokens'[h] # {} \/ pin'[h] => h = g \/ tokens[h] # {} \/ pin[h]
         /\ \A h \in Generations : \A l \in tokens'[h] :
               /\ l \in Leases /\ issued'[l] # None /\ issued'[l].generation = h
               /\ issued'[l].manager \in Managers /\ gen[issued'[l].manager] = h
<1>i. TypeOK /\ LeaseHome
  BY DEF Inv, GenInv
<1>m. job[t].on \in Managers
  BY CurrentType
<1>1. CASE job[t].op = "get" /\ pin' = [pin EXCEPT ![g] = TRUE] /\ UNCHANGED <<issued, tokens>>
  BY <1>i, <1>1 DEF TypeOK, LeaseHome
<1>2. ASSUME NEW k \in Leases, issued[k] = None,
             issued' = [issued EXCEPT ![k] = [manager |-> job[t].on, generation |-> g]],
             tokens' = [tokens EXCEPT ![g] = @ \cup {k}], pin' = pin
      PROVE  /\ tokens' \in [Generations -> SUBSET Leases]
             /\ pin' \in [Generations -> BOOLEAN]
             /\ issued' \in [Leases -> [manager : Managers, generation : Generations] \cup {None}]
             /\ \A l \in Leases : issued[l] # None => issued'[l] = issued[l]
             /\ \A h \in Generations :
                   tokens'[h] # {} \/ pin'[h] => h = g \/ tokens[h] # {} \/ pin[h]
             /\ \A h \in Generations : \A l \in tokens'[h] :
                   /\ l \in Leases /\ issued'[l] # None /\ issued'[l].generation = h
                   /\ issued'[l].manager \in Managers /\ gen[issued'[l].manager] = h
  <2> DEFINE new == [manager |-> job[t].on, generation |-> g]
  <2>1. new \in [manager : Managers, generation : Generations]
        /\ new.manager = job[t].on /\ new.generation = g
    BY <1>m
  <2>2. new # None
    BY <1>i, <1>2, <2>1, LeaseAssumption
  <2>3. issued' = [issued EXCEPT ![k] = new]
    BY <1>2
  <2> HIDE DEF new
  <2>4. \A h \in Generations : tokens'[h] = IF h = g THEN tokens[h] \cup {k} ELSE tokens[h]
    BY <1>i, <1>2 DEF TypeOK
  <2>5. \A l \in Leases : issued'[l] = IF l = k THEN new ELSE issued[l]
    BY <1>i, <2>3 DEF TypeOK
  <2>6. \A h \in Generations : \A l \in tokens[h] :
            /\ l \in Leases /\ l # k /\ issued'[l] = issued[l] /\ issued[l] # None
            /\ issued[l].generation = h
            /\ issued[l].manager \in Managers /\ gen[issued[l].manager] = h
    BY <1>i, <1>2, <2>5 DEF TypeOK, LeaseHome
  <2>7. /\ tokens' \in [Generations -> SUBSET Leases]
        /\ issued' \in [Leases -> [manager : Managers, generation : Generations] \cup {None}]
    BY <1>i, <1>2, <2>1, <2>3 DEF TypeOK
  <2> QED
    BY <1>i, <1>m, <1>2, <2>1, <2>2, <2>4, <2>5, <2>6, <2>7 DEF TypeOK
<1> QED
  BY <1>1, <1>2 DEF Publish

\* A call that ends with the generation in service and one owner more.
LEMMA ServeStep ==
  ASSUME Inv, NEW t \in Tasks, pc[t] \in Past \/ Locked(t), Current(t) # None,
         Publish(t, Current(t)), Leave(t, Current(t)), config' = config,
         ready' \in [Generations -> BOOLEAN], ready'[Current(t)],
         conn' \in [Generations -> {"new", "none", "open", "closed"}],
         conn'[Current(t)] = "open",
         \A h \in Generations : h # Current(t) => ready'[h] = ready[h] /\ conn'[h] = conn[h]
  PROVE  Inv'
<1>i. TypeOK /\ Awaiting /\ Home /\ InService /\ LeaseHome
  BY DEF Inv, GenInv
<1> DEFINE g == Current(t)
<1>c. /\ pc[t] # "idle" /\ job[t].on \in Managers /\ g \in Generations
      /\ manager = job[t].on /\ gen[job[t].on] = g
  BY CurrentType DEF Past, Locked, Current
<1>0. /\ tokens' \in [Generations -> SUBSET Leases]
      /\ pin' \in [Generations -> BOOLEAN]
      /\ issued' \in [Leases -> [manager : Managers, generation : Generations] \cup {None}]
      /\ \A l \in Leases : issued[l] # None => issued'[l] = issued[l]
      /\ \A h \in Generations : tokens'[h] # {} \/ pin'[h] => h = g \/ tokens[h] # {} \/ pin[h]
      /\ \A h \in Generations : \A l \in tokens'[h] :
            /\ l \in Leases /\ issued'[l] # None /\ issued'[l].generation = h
            /\ issued'[l].manager \in Managers /\ gen[issued'[l].manager] = h
  BY <1>c, PublishStep
<1>1. /\ TaskInv' /\ Home'
      /\ manager' # manager => manager' = None /\ manager = job[t].on /\ g = None
      /\ manager' \in Managers \cup {None}
      /\ loop' \in [Managers -> Loops \cup {None}]
      /\ users' \in [Managers -> SUBSET Tasks]
      /\ lock' \in [Managers -> Tasks \cup {None}]
      /\ gen' \in [Managers -> Generations \cup {None}] /\ gen'[job[t].on] = g
      /\ \A n \in Managers : n # job[t].on => gen'[n] = gen[n]
      /\ pc' \in [Tasks -> {"idle", "wait", "init", "undo", "retire"}]
      /\ job' \in [Tasks -> Job] /\ pc'[t] = "idle"
      /\ \A u \in Tasks : u # t => pc'[u] = pc[u] /\ job'[u] = job[u]
  BY <1>c, <1>0, LeaveStep
<1> HIDE DEF g
<1>2. manager' = manager /\ \A n \in Managers : gen'[n] = gen[n]
  BY <1>c, <1>1, LeaseAssumption
<1>3. TypeOK'
  BY <1>i, <1>0, <1>1 DEF TypeOK
<1>4. \A u \in Tasks : pc'[u] \notin Past
  <2>1. \A u \in Tasks : u # t => pc[u] \notin Past
    BY Alone
  <2> QED
    BY <1>1, <2>1 DEF Past
<1>5. Awaiting'
  BY <1>4 DEF Awaiting
<1>6. InService'
  BY <1>i, <1>c, <1>0, <1>2, LeaseAssumption DEF InService, g
<1>7. LeaseHome'
  BY <1>0, <1>2 DEF LeaseHome
<1> QED
  BY <1>1, <1>3, <1>5, <1>6, <1>7 DEF Inv, GenInv

\* A call that ends with the connection of its generation closed.
LEMMA CloseStep ==
  ASSUME Inv, NEW t \in Tasks, pc[t] \in Past, NEW g \in {None, Current(t)}, Leave(t, g),
         conn' = [conn EXCEPT ![Current(t)] = "closed"],
         UNCHANGED <<ready, tokens, pin, config, issued>>
  PROVE  Inv'
<1>i. TypeOK /\ Awaiting /\ Home /\ InService /\ LeaseHome
  BY DEF Inv, GenInv
<1> DEFINE c == Current(t)
<1>c. /\ pc[t] # "idle" /\ job[t].on \in Managers /\ c \in Generations /\ ~ready[c]
      /\ manager = job[t].on /\ gen[job[t].on] = c /\ g \in Generations \cup {None}
      /\ g # None => g = gen[job[t].on]
  BY <1>i, CurrentType DEF Past, Current, Awaiting
<1>1. /\ TaskInv' /\ Home'
      /\ manager' # manager => manager' = None /\ manager = job[t].on /\ g = None
      /\ manager' \in Managers \cup {None}
      /\ loop' \in [Managers -> Loops \cup {None}]
      /\ users' \in [Managers -> SUBSET Tasks]
      /\ lock' \in [Managers -> Tasks \cup {None}]
      /\ gen' \in [Managers -> Generations \cup {None}] /\ gen'[job[t].on] = g
      /\ \A n \in Managers : n # job[t].on => gen'[n] = gen[n]
      /\ pc' \in [Tasks -> {"idle", "wait", "init", "undo", "retire"}]
      /\ job' \in [Tasks -> Job] /\ pc'[t] = "idle"
      /\ \A u \in Tasks : u # t => pc'[u] = pc[u] /\ job'[u] = job[u]
  BY <1>c, LeaveStep
<1>2. /\ conn' \in [Generations -> {"new", "none", "open", "closed"}] /\ conn'[c] = "closed"
      /\ \A h \in Generations : h # c => conn'[h] = conn[h]
  BY <1>i, <1>c DEF TypeOK
<1>3. TypeOK'
  BY <1>i, <1>1, <1>2 DEF TypeOK
<1>4. \A u \in Tasks : pc'[u] \notin Past
  <2>1. \A u \in Tasks : u # t => pc[u] \notin Past
    BY <1>c, Alone, LeaseAssumption
  <2> QED
    BY <1>1, <2>1 DEF Past
<1> HIDE DEF c
<1>5. Awaiting'
  BY <1>4 DEF Awaiting
<1>6. /\ tokens[c] = {} /\ ~pin[c]
      /\ \A h \in Generations : h # c => tokens[h] = {} /\ ~pin[h] /\ ~ready[h] /\ conn[h] # "open"
  BY <1>i, <1>c DEF InService
<1>7. InService'
  BY <1>i, <1>c, <1>1, <1>2, <1>6, LeaseAssumption DEF InService
<1>8. LeaseHome'
  BY <1>6 DEF LeaseHome
<1> QED
  BY <1>1, <1>3, <1>5, <1>7, <1>8 DEF Inv, GenInv

\* A task goes on past the lock, or from one await to the next.
LEMMA PastStep ==
  ASSUME Inv, NEW t \in Tasks, pc[t] \in Past \/ Locked(t), NEW p \in Past,
         p = "init" => job[t].op \in {"acquire", "get"},
         pc' = [pc EXCEPT ![t] = p], TakesLock(t) \/ (pc[t] \in Past /\ lock' = lock),
         UNCHANGED <<manager, loop, users, issued, job>>
  PROVE  /\ TaskInv' /\ pc'[t] = p /\ \A u \in Tasks : u # t => pc'[u] = pc[u]
         /\ lock' \in [Managers -> Tasks \cup {None}]
         /\ pc' \in [Tasks -> {"idle", "wait", "init", "undo", "retire"}]
<1>i. TypeOK /\ Inside /\ Unborn /\ CallsIn /\ Holder
  BY DEF Inv, TaskInv
<1>m. pc[t] # "idle" /\ job[t].on \in Managers
  BY CurrentType DEF Past, Locked
<1>1. /\ pc'[t] = p /\ \A u \in Tasks : u # t => pc'[u] = pc[u]
      /\ pc' \in [Tasks -> {"idle", "wait", "init", "undo", "retire"}] /\ p # "idle"
  BY <1>i DEF TypeOK, Past
<1>2. /\ lock' \in [Managers -> Tasks \cup {None}] /\ lock'[job[t].on] = t
      /\ \A n \in Managers : n # job[t].on => lock'[n] = lock[n]
  BY <1>i, <1>m DEF TypeOK, TakesLock, Holder
<1>3. Inside' /\ Unborn'
  <2>1. \A u \in Tasks : pc'[u] = "idle" <=> pc[u] = "idle"
    BY <1>m, <1>1
  <2>2. \A n \in Managers : \A u \in users[n] : u \in Tasks
    BY <1>i DEF TypeOK
  <2> QED
    BY <1>i, <2>1, <2>2 DEF Inside, Unborn
<1>4. CallsIn'
  BY <1>i, <1>m, <1>1 DEF CallsIn
<1>5. Holder'
  <2>1. \A u \in Tasks : u # t /\ pc[u] \in Past => job[u].on # job[t].on
    BY OnePast
  <2>2. \A u \in Tasks : u # t /\ pc[u] \in Past => job[u].on \in Managers
    BY <1>i DEF Inside, Past
  <2> QED
    BY <1>i, <1>1, <1>2, <2>1, <2>2 DEF Holder
<1> QED
  BY <1>1, <1>2, <1>3, <1>4, <1>5 DEF TaskInv

\* The first owner to come creates the generation.
LEMMA CreateStep ==
  ASSUME Inv, NEW t \in Tasks, Create(t)
  PROVE  Inv'
<1>i. TypeOK /\ Inside /\ CallsIn /\ Awaiting /\ Home /\ InService /\ LeaseHome
  BY DEF Inv, TaskInv, GenInv
<1>c. /\ Locked(t) /\ pc[t] # "idle" /\ job[t].on \in Managers /\ manager = job[t].on
      /\ gen[job[t].on] = None /\ job[t].op \in {"acquire", "get"}
      /\ job[t].arg \in Configs \cup {None}
  BY <1>i, CurrentType DEF Create, Locked, CallsIn, Current
<1>1. PICK g \in Generations :
          /\ conn[g] = "new"
          /\ gen' = [gen EXCEPT ![job[t].on] = g]
          /\ config' = [config EXCEPT ![g] = IF job[t].arg = None THEN Default ELSE job[t].arg]
          /\ conn' = [conn EXCEPT ![g] = "none"]
  BY DEF Create
<1>2. /\ TaskInv' /\ pc'[t] = "init" /\ \A u \in Tasks : u # t => pc'[u] = pc[u]
      /\ lock' \in [Managers -> Tasks \cup {None}]
      /\ pc' \in [Tasks -> {"idle", "wait", "init", "undo", "retire"}]
  BY <1>c, PastStep DEF Create, Past
<1>3. /\ gen'[job[t].on] = g /\ \A n \in Managers : n # job[t].on => gen'[n] = gen[n]
      /\ conn'[g] = "none" /\ \A h \in Generations : h # g => conn'[h] = conn[h]
      /\ UNCHANGED <<manager, loop, users, ready, tokens, pin, issued, job>>
  BY <1>i, <1>c, <1>1 DEF TypeOK, Create
<1>4. TypeOK'
  BY <1>i, <1>c, <1>1, <1>2, <1>3, LeaseAssumption DEF TypeOK
<1>5. \A h \in Generations :
          ~ready[h] /\ tokens[h] = {} /\ ~pin[h] /\ conn[h] # "open"
  BY <1>i, <1>c, LeaseAssumption DEF InService
<1>6. Home'
  BY <1>i, <1>c, <1>3 DEF Home
<1>7. Awaiting'
  <2>1. \A u \in Tasks : u # t /\ pc[u] \in Past => job[u].on # job[t].on /\ job[u].on \in Managers
    BY <1>i, <1>c, OnePast DEF Inside, Past
  <2>2. \A u \in Tasks : u # t /\ pc[u] \in Past => FALSE
    BY <1>i, <1>c, <2>1 DEF Awaiting, Home
  <2> QED
    BY <1>1, <1>2, <1>3, <1>5, <2>2, LeaseAssumption DEF Awaiting
<1>8. InService' /\ LeaseHome'
  BY <1>i, <1>c, <1>1, <1>3, <1>5 DEF InService, LeaseHome, TypeOK
<1> QED
  BY <1>2, <1>4, <1>6, <1>7, <1>8 DEF Inv, GenInv

\* initialize fails and its cleanup begins.
LEMMA FailStep ==
  ASSUME Inv, NEW t \in Tasks, InitializeFails(t)
  PROVE  Inv'
<1>i. TypeOK /\ Inside /\ CallsIn /\ Awaiting /\ Home /\ InService /\ LeaseHome
  BY DEF Inv, TaskInv, GenInv
<1> DEFINE g == Current(t)
<1>c. /\ pc[t] = "init" /\ pc[t] \in Past /\ job[t].on \in Managers /\ manager = job[t].on
      /\ gen[job[t].on] = g /\ g \in Generations /\ ~ready[g] /\ conn[g] = "none"
  BY <1>i, CurrentType DEF InitializeFails, Past, Awaiting, Current
<1>1. PICK left \in {"none", "open"} : conn' = [conn EXCEPT ![g] = left]
  BY DEF InitializeFails
<1>2. /\ TaskInv' /\ pc'[t] = "undo" /\ \A u \in Tasks : u # t => pc'[u] = pc[u]
      /\ lock' \in [Managers -> Tasks \cup {None}]
      /\ pc' \in [Tasks -> {"idle", "wait", "init", "undo", "retire"}]
  BY <1>c, PastStep DEF InitializeFails, manVars, Past
<1>a. \A u \in Tasks : u # t => pc[u] \notin Past
  BY <1>c, Alone, LeaseAssumption
<1> HIDE DEF g
<1>3. /\ conn'[g] = left /\ \A h \in Generations : h # g => conn'[h] = conn[h]
      /\ conn' \in [Generations -> {"new", "none", "open", "closed"}]
      /\ UNCHANGED <<manager, loop, users, gen, ready, tokens, pin, config, issued, job>>
  BY <1>i, <1>c, <1>1 DEF TypeOK, InitializeFails, manVars
<1>4. TypeOK'
  BY <1>i, <1>2, <1>3 DEF TypeOK
<1>5. Home' /\ LeaseHome'
  BY <1>i, <1>3 DEF Home, LeaseHome
<1>6. Awaiting'
  BY <1>i, <1>a, <1>c, <1>2, <1>3, LeaseAssumption DEF Awaiting
<1>7. InService'
  BY <1>i, <1>c, <1>1, <1>3, LeaseAssumption DEF InService
<1> QED
  BY <1>2, <1>4, <1>5, <1>6, <1>7 DEF Inv, GenInv

\* _retire begins on a generation that has just lost its last owner.
LEMMA RetireStarts ==
  ASSUME Inv, NEW t \in Tasks, Locked(t), NEW g \in Generations, Current(t) = g,
         StopServing(t, g), TakesLock(t), pc' = [pc EXCEPT ![t] = "retire"],
         tokens' \in [Generations -> SUBSET Leases], pin' \in [Generations -> BOOLEAN],
         tokens'[g] = {}, ~pin'[g],
         \A h \in Generations : h # g => tokens'[h] = tokens[h] /\ pin'[h] = pin[h],
         UNCHANGED <<manager, loop, users, gen, config, conn, issued, job>>
  PROVE  Inv'
<1>i. TypeOK /\ Inside /\ Awaiting /\ Home /\ InService /\ LeaseHome
  BY DEF Inv, TaskInv, GenInv
<1>c. /\ pc[t] # "idle" /\ job[t].on \in Managers /\ manager = job[t].on
      /\ gen[job[t].on] = g /\ g # None
  BY CurrentType, LeaseAssumption DEF Locked, Current
<1>2. /\ TaskInv' /\ pc'[t] = "retire" /\ \A u \in Tasks : u # t => pc'[u] = pc[u]
      /\ lock' \in [Managers -> Tasks \cup {None}]
      /\ pc' \in [Tasks -> {"idle", "wait", "init", "undo", "retire"}]
  BY PastStep DEF Past
<1>a. \A u \in Tasks : u # t => pc[u] \notin Past
  BY <1>c, Alone
<1>3. ready' \in [Generations -> BOOLEAN] /\ ~ready'[g]
      /\ \A h \in Generations : h # g => ready'[h] = ready[h]
  BY <1>i DEF TypeOK, StopServing
<1>4. TypeOK'
  BY <1>i, <1>2, <1>3 DEF TypeOK
<1>5. Home' /\ LeaseHome'
  BY <1>i DEF Home, LeaseHome
<1>6. Awaiting'
  BY <1>a, <1>c, <1>2, <1>3 DEF Awaiting
<1>7. InService'
  BY <1>i, <1>c, <1>3 DEF InService
<1> QED
  BY <1>2, <1>4, <1>5, <1>6, <1>7 DEF Inv, GenInv

\* A release takes its token back, and retires the generation if it was the last.
LEMMA TokenStep ==
  ASSUME Inv, NEW t \in Tasks, ReleaseToken(t)
  PROVE  Inv'
<1>i. TypeOK /\ CallsIn /\ Awaiting /\ Home /\ InService /\ LeaseHome
  BY DEF Inv, TaskInv, GenInv
<1> DEFINE l == job[t].arg
           g == issued[l].generation
<1>1. /\ Locked(t) /\ pc[t] # "idle" /\ l \in Leases /\ issued[l] # None
      /\ issued[l].manager = job[t].on /\ g \in Generations /\ l \in tokens[g]
  BY <1>i DEF ReleaseToken, Locked, CallsIn, TypeOK
<1>2. Current(t) = g /\ job[t].on \in Managers /\ manager = job[t].on /\ g # None
  BY <1>i, <1>1, CurrentType, LeaseAssumption DEF LeaseHome, Current
<1>3. /\ tokens' = [tokens EXCEPT ![g] = @ \ {l}]
      /\ UNCHANGED <<pin, config, conn, issued>>
      /\ \/ /\ LastOwner(g) /\ StopServing(t, g) /\ TakesLock(t)
            /\ pc' = [pc EXCEPT ![t] = "retire"]
            /\ UNCHANGED <<manager, loop, users, gen, job>>
         \/ ~LastOwner(g) /\ Leave(t, Current(t)) /\ UNCHANGED ready
  BY DEF ReleaseToken
<1> HIDE DEF g, l
<1>4. /\ tokens' \in [Generations -> SUBSET Leases] /\ tokens'[g] = tokens[g] \ {l}
      /\ \A h \in Generations : h # g => tokens'[h] = tokens[h]
  BY <1>i, <1>1, <1>3 DEF TypeOK
<1>5. CASE LastOwner(g) /\ StopServing(t, g) /\ TakesLock(t)
           /\ pc' = [pc EXCEPT ![t] = "retire"] /\ UNCHANGED <<manager, loop, users, gen, job>>
  <2>1. tokens'[g] = {} /\ ~pin'[g] /\ pin' \in [Generations -> BOOLEAN]
        /\ \A h \in Generations : h # g => pin'[h] = pin[h]
    BY <1>i, <1>3, <1>5 DEF LastOwner, TypeOK
  <2> QED
    BY <1>1, <1>2, <1>3, <1>4, <1>5, <2>1, RetireStarts
<1>6. CASE ~LastOwner(g) /\ Leave(t, Current(t)) /\ UNCHANGED ready
  <2>1. /\ TaskInv' /\ Home'
        /\ manager' # manager => manager' = None /\ manager = job[t].on /\ g = None
        /\ manager' \in Managers \cup {None}
        /\ loop' \in [Managers -> Loops \cup {None}]
        /\ users' \in [Managers -> SUBSET Tasks]
        /\ lock' \in [Managers -> Tasks \cup {None}]
        /\ gen' \in [Managers -> Generations \cup {None}] /\ gen'[job[t].on] = g
        /\ \A n \in Managers : n # job[t].on => gen'[n] = gen[n]
        /\ pc' \in [Tasks -> {"idle", "wait", "init", "undo", "retire"}]
        /\ job' \in [Tasks -> Job] /\ pc'[t] = "idle"
        /\ \A u \in Tasks : u # t => pc'[u] = pc[u] /\ job'[u] = job[u]
    <3>1. gen[job[t].on] = g
      BY <1>2 DEF Current
    <3>2. Leave(t, g)
      BY <1>2, <1>6
    <3>3. \A k \in Leases : issued[k] # None => issued'[k] = issued[k]
      BY <1>3
    <3> QED
      BY <1>1, <1>2, <3>1, <3>2, <3>3, LeaveStep
  <2>2. manager' = manager /\ \A n \in Managers : gen'[n] = gen[n]
    BY <1>2, <2>1 DEF Current
  <2>3. TypeOK'
    BY <1>i, <1>3, <1>4, <1>6, <2>1 DEF TypeOK
  <2>4. \A u \in Tasks : pc'[u] \notin Past
    <3>1. \A u \in Tasks : u # t => pc[u] \notin Past
      BY <1>1, <1>2, Alone
    <3> QED
      BY <2>1, <3>1 DEF Past
  <2>5. Awaiting'
    BY <2>4 DEF Awaiting
  <2>6. InService'
    BY <1>i, <1>3, <1>4, <1>6, <2>2 DEF InService, TypeOK
  <2>7. LeaseHome'
    <3>1. \A h \in Generations : \A k \in tokens'[h] :
              k \in tokens[h] /\ issued[k].manager \in Managers
      BY <1>i, <1>1, <1>4 DEF LeaseHome, TypeOK
    <3> QED
      BY <1>i, <1>3, <2>2, <3>1 DEF LeaseHome
  <2> QED
    BY <2>1, <2>3, <2>5, <2>6, <2>7 DEF Inv, GenInv
<1> QED
  BY <1>3, <1>5, <1>6

\* Every step keeps the invariant.
LEMMA InvStep == Inv /\ [Next]_vars => Inv'
<1> SUFFICES ASSUME Inv, [Next]_vars PROVE Inv'
  OBVIOUS
<1>i. TypeOK /\ Awaiting /\ InService
  BY DEF Inv, GenInv
<1>1. CASE UNCHANGED vars
  BY <1>1 DEF vars, manVars, genVars, taskVars, Inv, TypeOK, TaskInv, Inside, Unborn, CallsIn,
              Holder, GenInv, Awaiting, Home, InService, LeaseHome
<1>2. ASSUME NEW t \in Tasks, Call(t) PROVE Inv'
  BY <1>2, CallStep
<1>3. ASSUME NEW t \in Tasks, \/ CancelWait(t) \/ Refuse(t) \/ ReleaseAgain(t) \/ ResetNothing(t)
      PROVE  Inv'
  BY <1>3, LeaveOnly DEF CancelWait, Refuse, ReleaseAgain, ResetNothing, Locked
<1>4. ASSUME NEW t \in Tasks, Share(t) PROVE Inv'
  <2>1. Locked(t) /\ pc[t] # "idle" /\ Current(t) # None /\ ready[Current(t)]
    BY <1>4 DEF Share, Locked, Serves
  <2>2. Current(t) \in Generations
    BY <2>1, CurrentType
  <2>3. ready' = ready /\ conn' = conn /\ config' = config /\ conn[Current(t)] = "open"
    BY <1>i, <1>4, <2>1, <2>2 DEF Share, InService
  <2> QED
    BY <1>i, <1>4, <2>1, <2>2, <2>3, ServeStep DEF Share, TypeOK
<1>5. ASSUME NEW t \in Tasks, Initialized(t) PROVE Inv'
  <2>1. pc[t] \in Past /\ pc[t] # "idle" /\ Current(t) # None
    BY <1>i, <1>5 DEF Initialized, Past, Awaiting, Current
  <2>2. Current(t) \in Generations
    BY <2>1, CurrentType
  <2>3. /\ ready' \in [Generations -> BOOLEAN] /\ ready'[Current(t)]
        /\ conn' \in [Generations -> {"new", "none", "open", "closed"}]
        /\ conn'[Current(t)] = "open"
        /\ \A h \in Generations : h # Current(t) => ready'[h] = ready[h] /\ conn'[h] = conn[h]
    BY <1>i, <1>5, <2>2 DEF Initialized, TypeOK
  <2> QED
    BY <1>5, <2>1, <2>3, ServeStep DEF Initialized
<1>6. ASSUME NEW t \in Tasks, UndoStart(t) \/ Retire(t) PROVE Inv'
  <2>1. pc[t] \in Past /\ pc[t] # "idle"
    BY <1>6 DEF UndoStart, Retire, Past
  <2>2. CASE Leave(t, Current(t)) /\ UNCHANGED conn
    BY <1>6, <2>1, <2>2, LeaveOnly DEF UndoStart, Retire
  <2>3. ASSUME NEW g \in {None, Current(t)}, Leave(t, g),
               conn' = [conn EXCEPT ![Current(t)] = "closed"]
        PROVE  Inv'
    BY <1>6, <2>1, <2>3, CloseStep DEF UndoStart, Retire
  <2> QED
    BY <1>6, <2>2, <2>3 DEF UndoStart, Retire
<1>7. ASSUME NEW t \in Tasks, ResetStarts(t) PROVE Inv'
  <2>1. Locked(t) /\ pc[t] # "idle" /\ Current(t) # None /\ tokens[Current(t)] = {}
    BY <1>7 DEF ResetStarts, Quiescent, Locked
  <2>2. Current(t) \in Generations
    BY <2>1, CurrentType
  <2>3. /\ pin' \in [Generations -> BOOLEAN] /\ ~pin'[Current(t)] /\ tokens' = tokens
        /\ \A h \in Generations : h # Current(t) => pin'[h] = pin[h]
    BY <1>i, <1>7, <2>2 DEF ResetStarts, TypeOK
  <2> QED
    BY ZenonT(60), <1>i, <1>7, <2>1, <2>2, <2>3, RetireStarts DEF ResetStarts, TypeOK
<1> QED
  BY <1>1, <1>2, <1>3, <1>4, <1>5, <1>6, <1>7, CreateStep, FailStep, TokenStep
     DEF Next, LockStep, AwaitStep

-----------------------------------------------------------------------------
\* The inductive invariant holds in every reachable state.
THEOREM InvInvariant == Safety => []Inv
BY InvInit, InvStep, PTL DEF Safety

\* The managers, generations, leases and tasks of factory.py keep their types.
THEOREM TypeOKHolds == Safety => []TypeOK
<1>1. Inv => TypeOK
  BY DEF Inv
<1> QED
  BY <1>1, InvInvariant, PTL

\* acquire_lattice and get_lattice: whoever has not released a lease or has
\* pinned the Lattice finds it ready, open and installed, for any number of loops,
\* tasks and leases and whatever fails.
THEOREM OwnersServedHolds == Safety => []OwnersServed
<1>1. Inv => OwnersServed
  BY DEF Inv, GenInv, InService, OwnersServed
<1> QED
  BY <1>1, InvInvariant, PTL

\* The process has one open connection at most, and the installed manager knows
\* it even after a failed initialize, close or cancellation.
THEOREM OneConnectionHolds == Safety => []OneConnection
<1>1. Inv => OneConnection
  BY DEF Inv, GenInv, InService, OneConnection
<1> QED
  BY <1>1, InvInvariant, PTL

\* _check_loop and the manager's lock: tasks of one loop only, one past the lock.
THEOREM LoopOwnershipHolds == Safety => []LoopOwnership
<1>1. ASSUME Inv PROVE LoopOwnership
  <2>1. TypeOK /\ Inside /\ Holder
    BY <1>1 DEF Inv, TaskInv
  <2>2. \A m \in Managers : \A t \in users[m] :
            t \in Tasks /\ job[t].on = m /\ pc[t] # "idle" /\ LoopOf[t] = loop[m]
    BY <2>1 DEF TypeOK, Inside
  <2>3. \A m \in Managers : \A t \in users[m] : pc[t] \notin {"idle", "wait"} => lock[m] = t
    BY <2>1, <2>2 DEF TypeOK, Holder, Past
  <2> QED
    BY <2>2, <2>3 DEF LoopOwnership
<1> QED
  BY <1>1, InvInvariant, PTL

\* _retire: a connection is closed only after its last owner has gone, and a
\* generation out of service stays out of service.
THEOREM ClosedWhenUnusedHolds == Safety => ClosedWhenUnused
<1> DEFINE A == \A g \in Generations :
       /\ conn[g] = "open" /\ conn'[g] = "closed" => tokens[g] = {} /\ ~pin[g] /\ ~ready[g]
       /\ ready'[g] /\ ~ready[g] => conn[g] = "none"
<1>1. Inv /\ [Next]_vars => [A]_vars
  <2> SUFFICES ASSUME Inv, Next PROVE A
    BY DEF vars
  <2>i. TypeOK /\ Awaiting /\ InService
    BY DEF Inv, GenInv
  <2>1. ASSUME NEW t \in Tasks, pc[t] \in Past, conn' = [conn EXCEPT ![Current(t)] = "closed"],
               ready' = ready
        PROVE  A
    <3>1. Current(t) \in Generations /\ ~ready[Current(t)]
      BY <2>i, <2>1, CurrentType DEF Awaiting, Current, Past
    <3> QED
      BY <2>i, <2>1, <3>1 DEF TypeOK, InService
  <2>2. ASSUME NEW t \in Tasks, Initialized(t) PROVE A
    <3>1. Current(t) \in Generations /\ conn[Current(t)] = "none"
      BY <2>i, <2>2, CurrentType DEF Awaiting, Current, Past, Initialized
    <3> QED
      BY <2>i, <2>2, <3>1 DEF TypeOK, Initialized
  <2>3. ASSUME NEW t \in Tasks, InitializeFails(t) PROVE A
    BY <2>i, <2>3 DEF TypeOK, InitializeFails
  <2>4. ASSUME NEW t \in Tasks, Create(t) PROVE A
    BY <2>i, <2>4 DEF TypeOK, Create
  <2>5. ASSUME UNCHANGED conn, \A g \in Generations : ready'[g] => ready[g] PROVE A
    BY <2>5
  <2>6. ASSUME NEW t \in Tasks, ReleaseToken(t) PROVE A
    <3>1. UNCHANGED conn /\ \A g \in Generations : ready'[g] => ready[g]
      BY <2>i, <2>6 DEF TypeOK, ReleaseToken, StopServing
    <3> QED
      BY <2>5, <3>1
  <2>7. ASSUME NEW t \in Tasks, ResetStarts(t) PROVE A
    <3>1. UNCHANGED conn /\ \A g \in Generations : ready'[g] => ready[g]
      BY <2>i, <2>7 DEF TypeOK, ResetStarts, StopServing
    <3> QED
      BY <2>5, <3>1
  <2>8. ASSUME NEW t \in Tasks,
               \/ Call(t) \/ CancelWait(t) \/ Share(t) \/ Refuse(t) \/ ReleaseAgain(t)
               \/ ResetNothing(t)
        PROVE  A
    <3>1. UNCHANGED conn /\ UNCHANGED ready
      BY <2>8 DEF Call, AcquireLattice, GetLattice, Release, ResetLattice, Enter, Reserve, genVars,
                  CancelWait, Share, Refuse, ReleaseAgain, ResetNothing
    <3> QED
      BY <2>5, <3>1
  <2>9. ASSUME NEW t \in Tasks, UndoStart(t) \/ Retire(t) PROVE A
    <3>1. pc[t] \in Past /\ ready' = ready
          /\ (conn' = conn \/ conn' = [conn EXCEPT ![Current(t)] = "closed"])
      BY <2>9 DEF UndoStart, Retire, Past
    <3> QED
      BY <2>1, <2>5, <3>1
  <2> HIDE DEF A
  <2> QED
    BY <2>2, <2>3, <2>4, <2>6, <2>7, <2>8, <2>9 DEF Next, LockStep, AwaitStep
<1> QED
  BY <1>1, InvInvariant, PTL DEF Safety, ClosedWhenUnused

-----------------------------------------------------------------------------
(* The store.                                                              *)

Statuses == {"none", "open", "passed", "denied", "expired"}

Tables == {"nodes", "edges", "incident", "proposals", "unvote", "votes", "reputations",
           "events", "commit"}

BaseOk(d) ==
    /\ d = [nodes |-> d.nodes, edges |-> d.edges, status |-> d.status,
            ballots |-> d.ballots, reps |-> d.reps, events |-> d.events]
    /\ d.nodes \in [Nodes -> Values \cup Proposals \cup {Null}]
    /\ d.status \in [Proposals -> Statuses]
    /\ IsFiniteSet(d.ballots)

BallotsOn(d, p) == {b \in d.ballots : b.prop = p}

OneEach(d) == \A b, c \in d.ballots : b.prop = c.prop /\ b.voter = c.voter => b = c

\* The ballots of a database support a status.
Backed(d, p, to) ==
    LET yes == Tally(d, p, "approve")
        no  == Tally(d, p, "deny")
    IN  /\ to = "passed" => yes > 0 /\ 100 * yes >= Quorum * (yes + no)
        /\ to = "denied" => no > 0 /\ 100 * no >= Quorum * (yes + no)

Sound(d) == OneEach(d) /\ \A p \in Proposals : Backed(d, p, d.status[p])

\* What one database says of decided proposals, the other one says too.
Frozen(c, d) ==
    \A p \in Proposals : c.status[p] \notin {"none", "open"} =>
        d.status[p] = c.status[p] /\ BallotsOn(d, p) = BallotsOn(c, p)

\* A statement that database d expects: a proposal goes from none to open or from open to
\* a verdict that the ballots support, ballots change while it is open, and a voter has
\* none when its new one is inserted.
StatusFits(d, s) ==
    /\ s.id \in Proposals
    /\ \/ s.to = "open" /\ d.status[s.id] = "none"
       \/ /\ s.to \in {"passed", "denied", "expired"} /\ d.status[s.id] = "open"
          /\ Backed(d, s.id, s.to)

ScriptOk(s, d) ==
    /\ \E S : s \in Seq(S)
    /\ \A i \in 1 .. Len(s) :
          /\ s[i].table \in Tables
          /\ s[i].table = "commit" <=> i = Len(s)
          /\ s[i].table = "nodes" =>
                s[i].id \in Nodes /\ s[i].to \in Values \cup Proposals \cup {Null}
          /\ s[i].table = "proposals" => i = 1 /\ StatusFits(d, s[i])
          /\ s[i].table = "unvote" => i = 1 /\ s[i].id \in Proposals /\ d.status[s[i].id] = "open"
          /\ s[i].table = "votes" =>
                /\ s[i].id \in Proposals /\ d.status[s[i].id] = "open" /\ s[i].to.prop = s[i].id
                /\ \/ i = 1 /\ \A b \in d.ballots : b.prop = s[i].id => b.voter # s[i].to.voter
                   \/ i = 2 /\ s[1].table = "unvote" /\ s[1].id = s[2].id
                            /\ s[1].to = s[2].to.voter

-----------------------------------------------------------------------------
(* Tallies.                                                                *)

\* A tally is a number, and depends on the ballots of its proposal only.
LEMMA TallyNumber ==
    ASSUME NEW d, IsFiniteSet(d.ballots), NEW p, NEW dec
    PROVE  Tally(d, p, dec) \in Nat
<1> DEFINE cast == {b \in d.ballots : b.prop = p /\ b.decision = dec}
           U == {u \in cast \X (1 .. Full) : u[2] <= u[1].weight}
<1>1. IsFiniteSet(cast)
  BY FS_Subset
<1>2. IsFiniteSet(1 .. Full)
  BY FS_Interval, StoreAssumption
<1>3. IsFiniteSet(cast \X (1 .. Full))
  <2> HIDE DEF cast
  <2> QED
    BY <1>1, <1>2, FS_Product
<1>4. U \subseteq cast \X (1 .. Full)
  OBVIOUS
<1>5. Tally(d, p, dec) = Cardinality(U)
  BY DEF Tally
<1> HIDE DEF U, cast
<1>6. IsFiniteSet(U)
  BY <1>3, <1>4, FS_Subset
<1> QED
  BY <1>5, <1>6, FS_CardinalityType

\* A tally depends on the ballots of its proposal only.
LEMMA TallySame ==
    ASSUME NEW d, NEW e, NEW p, BallotsOn(d, p) = BallotsOn(e, p), NEW dec
    PROVE  Tally(d, p, dec) = Tally(e, p, dec)
<1>1. {b \in d.ballots : b.prop = p /\ b.decision = dec}
          = {b \in e.ballots : b.prop = p /\ b.decision = dec}
  BY DEF BallotsOn
<1> QED
  BY <1>1 DEF Tally

\* And so does what they support.
LEMMA BackedSame ==
    ASSUME NEW d, NEW e, NEW p, BallotsOn(d, p) = BallotsOn(e, p), NEW to, Backed(d, p, to)
    PROVE  Backed(e, p, to)
BY TallySame DEF Backed

\* What check_quorum decides is supported.
LEMMA VerdictBacked ==
    ASSUME NEW d, IsFiniteSet(d.ballots), NEW p
    PROVE  LET to == Verdict(Tally(d, p, "approve"), Tally(d, p, "deny"))
           IN  to \in {"open", "passed", "denied"} /\ Backed(d, p, to)
<1> DEFINE yes == Tally(d, p, "approve")
           no == Tally(d, p, "deny")
<1>1. yes \in Nat /\ no \in Nat
  BY TallyNumber
<1>2. Quorum \in 1 .. 100
  BY StoreAssumption
<1> HIDE DEF yes, no
<1>3. yes + no > 0 => Quorum * (yes + no) > 0
  BY <1>1, <1>2
<1>4. Verdict(yes, no) \in {"open", "passed", "denied"}
  BY <1>1 DEF Verdict
<1>5. Verdict(yes, no) = "passed" => yes + no > 0 /\ 100 * yes >= Quorum * (yes + no)
  BY <1>1 DEF Verdict
<1>6. Verdict(yes, no) = "denied" => yes + no > 0 /\ 100 * no >= Quorum * (yes + no)
  BY <1>1 DEF Verdict
<1>7. Quorum * (yes + no) \in Nat
  BY <1>1, <1>2
<1>8. Verdict(yes, no) = "passed" => yes > 0
  BY <1>1, <1>3, <1>5, <1>7
<1>9. Verdict(yes, no) = "denied" => no > 0
  BY <1>1, <1>3, <1>6, <1>7
<1> QED
  BY <1>4, <1>5, <1>6, <1>8, <1>9 DEF Backed, yes, no

-----------------------------------------------------------------------------
(* Statements.                                                             *)

\* What one statement does to a database, table by table.
LEMMA ApplyFacts ==
    ASSUME NEW d, BaseOk(d), NEW s, s.table \in Tables,
           s.table = "nodes" => s.id \in Nodes /\ s.to \in Values \cup Proposals \cup {Null},
           s.table = "proposals" => s.id \in Proposals /\ s.to \in Statuses
    PROVE  /\ BaseOk(Apply(d, s))
           /\ Apply(d, s).nodes = IF s.table = "nodes" THEN [d.nodes EXCEPT ![s.id] = s.to]
                                  ELSE d.nodes
           /\ Apply(d, s).status = IF s.table = "proposals" THEN [d.status EXCEPT ![s.id] = s.to]
                                   ELSE d.status
           /\ Apply(d, s).ballots =
                  IF s.table = "unvote" THEN {b \in d.ballots : b.prop # s.id \/ b.voter # s.to}
                  ELSE IF s.table = "votes" THEN d.ballots \cup {s.to} ELSE d.ballots
           /\ s.table = "commit" => Apply(d, s) = d
<1>1. CASE s.table = "nodes"
  BY <1>1 DEF Apply, BaseOk
<1>2. CASE s.table = "edges"
  BY <1>2 DEF Apply, BaseOk
<1>3. CASE s.table = "incident"
  BY <1>3 DEF Apply, BaseOk
<1>4. CASE s.table = "proposals"
  BY <1>4 DEF Apply, BaseOk
<1>5. CASE s.table = "unvote"
  <2> DEFINE B == {b \in d.ballots : b.prop # s.id \/ b.voter # s.to}
  <2>1. IsFiniteSet(B)
    BY FS_Subset DEF BaseOk
  <2>2. Apply(d, s) = [d EXCEPT !.ballots = B]
    BY <1>5 DEF Apply, BaseOk
  <2> HIDE DEF B
  <2>3. BaseOk(Apply(d, s)) /\ Apply(d, s).ballots = B
        /\ Apply(d, s).nodes = d.nodes /\ Apply(d, s).status = d.status
    BY <2>1, <2>2 DEF BaseOk
  <2> QED
    BY <1>5, <2>3 DEF B
<1>6. CASE s.table = "votes"
  <2> DEFINE B == d.ballots \cup {s.to}
  <2>1. IsFiniteSet(B)
    BY FS_AddElement DEF BaseOk
  <2>2. Apply(d, s) = [d EXCEPT !.ballots = B]
    BY <1>6 DEF Apply, BaseOk
  <2> HIDE DEF B
  <2>3. BaseOk(Apply(d, s)) /\ Apply(d, s).ballots = B
        /\ Apply(d, s).nodes = d.nodes /\ Apply(d, s).status = d.status
    BY <2>1, <2>2 DEF BaseOk
  <2> QED
    BY <1>6, <2>3 DEF B
<1>7. CASE s.table = "reputations"
  BY <1>7 DEF Apply, BaseOk
<1>8. CASE s.table = "events"
  BY <1>8 DEF Apply, BaseOk
<1>9. CASE s.table = "commit"
  BY <1>9 DEF Apply, BaseOk
<1> QED
  BY <1>1, <1>2, <1>3, <1>4, <1>5, <1>6, <1>7, <1>8, <1>9 DEF Tables

\* The statements of a script behind its first.
LEMMA TailFacts ==
    ASSUME NEW s, \E S : s \in Seq(S), s # <<>>
    PROVE  /\ \E S : Tail(s) \in Seq(S)
           /\ Len(s) \in Nat /\ Len(s) >= 1 /\ Head(s) = s[1] /\ Len(Tail(s)) = Len(s) - 1
           /\ \A i \in 1 .. Len(s) - 1 : i + 1 \in 1 .. Len(s) /\ Tail(s)[i] = s[i + 1]
<1>1. PICK S : s \in Seq(S)
  OBVIOUS
<1>2. Tail(s) \in Seq(S)
  BY <1>1
<1> QED
  BY <1>1, <1>2

\* The first statement of a script, and what it may do.
LEMMA HeadFacts ==
    ASSUME NEW s, NEW d, ScriptOk(s, d), s # <<>>, BaseOk(d)
    PROVE  LET x == Head(s)
           IN  /\ x = s[1] /\ x.table \in Tables
               /\ x.table = "nodes" => x.id \in Nodes /\ x.to \in Values \cup Proposals \cup {Null}
               /\ x.table = "proposals" => StatusFits(d, x) /\ x.to \in Statuses
               /\ x.table = "unvote" => x.id \in Proposals /\ d.status[x.id] = "open"
               /\ x.table = "votes" =>
                     /\ x.id \in Proposals /\ d.status[x.id] = "open" /\ x.to.prop = x.id
                     /\ \A b \in d.ballots : b.prop = x.id => b.voter # x.to.voter
               /\ x.table = "commit" <=> Tail(s) = <<>>
<1>1. Len(s) \in Nat /\ Len(s) >= 1 /\ Head(s) = s[1] /\ Len(Tail(s)) = Len(s) - 1
  BY TailFacts DEF ScriptOk
<1>2. 1 \in 1 .. Len(s)
  BY <1>1
<1>3. Tail(s) = <<>> <=> Len(s) = 1
  <2>1. \E S : Tail(s) \in Seq(S)
    BY TailFacts DEF ScriptOk
  <2> QED
    BY <1>1, <2>1
<1>4. s[1].table = "commit" <=> 1 = Len(s)
  BY <1>2 DEF ScriptOk
<1>5. /\ s[1].table \in Tables
      /\ s[1].table = "nodes" =>
             s[1].id \in Nodes /\ s[1].to \in Values \cup Proposals \cup {Null}
      /\ s[1].table = "proposals" => StatusFits(d, s[1])
      /\ s[1].table = "unvote" => s[1].id \in Proposals /\ d.status[s[1].id] = "open"
  BY <1>2 DEF ScriptOk
<1>6. s[1].table = "votes" =>
                /\ s[1].id \in Proposals /\ d.status[s[1].id] = "open" /\ s[1].to.prop = s[1].id
                /\ \A b \in d.ballots : b.prop = s[1].id => b.voter # s[1].to.voter
  BY <1>2 DEF ScriptOk
<1>7. s[1].table = "proposals" => s[1].to \in Statuses
  BY <1>5 DEF StatusFits, Statuses
<1> QED
  BY <1>1, <1>3, <1>4, <1>5, <1>6, <1>7

\* A statement of a script changes no decided proposal, and decides with a majority.
LEMMA StatementFits ==
    ASSUME NEW s, NEW d, ScriptOk(s, d), s # <<>>, BaseOk(d), Sound(d)
    PROVE  LET e == Apply(d, Head(s))
           IN  /\ BaseOk(e) /\ Sound(e)
               /\ \A c : Frozen(c, d) => Frozen(c, e)
               /\ \A p \in Proposals : d.status[p] = "passed" => e.status[p] = "passed"
               /\ \A p \in Proposals : e.status[p] # d.status[p] /\ d.status[p] = "none" =>
                      Head(s).table = "proposals" /\ Head(s).id = p /\ Head(s).to = "open"
               /\ \A n \in Nodes : e.nodes[n] # d.nodes[n] =>
                      Head(s).table = "nodes" /\ Head(s).id = n /\ Head(s).to = e.nodes[n]
<1> DEFINE x == Head(s)
           e == Apply(d, x)
<1>1. /\ x.table \in Tables
      /\ x.table = "nodes" => x.id \in Nodes /\ x.to \in Values \cup Proposals \cup {Null}
      /\ x.table = "proposals" => StatusFits(d, x) /\ x.to \in Statuses
      /\ x.table = "unvote" => x.id \in Proposals /\ d.status[x.id] = "open"
      /\ x.table = "votes" =>
            /\ x.id \in Proposals /\ d.status[x.id] = "open" /\ x.to.prop = x.id
            /\ \A b \in d.ballots : b.prop = x.id => b.voter # x.to.voter
  BY HeadFacts
<1> HIDE DEF x
<1>2. /\ BaseOk(e)
      /\ e.nodes = IF x.table = "nodes" THEN [d.nodes EXCEPT ![x.id] = x.to] ELSE d.nodes
      /\ e.status = IF x.table = "proposals" THEN [d.status EXCEPT ![x.id] = x.to] ELSE d.status
      /\ e.ballots = IF x.table = "unvote" THEN {b \in d.ballots : b.prop # x.id \/ b.voter # x.to}
                     ELSE IF x.table = "votes" THEN d.ballots \cup {x.to} ELSE d.ballots
  BY <1>1, ApplyFacts DEF StatusFits
<1> HIDE DEF e
<1>3. d.status \in [Proposals -> Statuses]
  BY DEF BaseOk
<1>4. OneEach(e)
  BY <1>1, <1>2 DEF Sound, OneEach
<1>5. ASSUME NEW p \in Proposals, d.status[p] # "open"
      PROVE  BallotsOn(e, p) = BallotsOn(d, p)
  <2>1. x.table \in {"unvote", "votes"} => x.id # p
    BY <1>1, <1>5
  <2>2. CASE x.table = "unvote"
    BY <1>2, <2>1, <2>2 DEF BallotsOn
  <2>3. CASE x.table = "votes"
    BY <1>1, <1>2, <2>1, <2>3 DEF BallotsOn
  <2>4. CASE x.table \notin {"unvote", "votes"}
    BY <1>2, <2>4 DEF BallotsOn
  <2> QED
    BY <2>2, <2>3, <2>4
<1>6. ASSUME NEW p \in Proposals, d.status[p] \notin {"none", "open"}
      PROVE  e.status[p] = d.status[p]
  <2>1. CASE x.table = "proposals"
    <3>1. x.id # p
      BY <1>1, <1>6, <2>1 DEF StatusFits
    <3> QED
      BY <1>2, <1>3, <2>1, <3>1
  <2> QED
    BY <1>2, <2>1
<1>7. ASSUME NEW p \in Proposals PROVE Backed(e, p, e.status[p])
  <2>1. Backed(d, p, d.status[p])
    BY DEF Sound
  <2>2. CASE d.status[p] \notin {"none", "open"}
    BY <1>5, <1>6, <2>1, <2>2, BackedSame
  <2>3. CASE d.status[p] \in {"none", "open"} /\ e.status[p] = d.status[p]
    BY <2>3 DEF Backed
  <2>4. CASE e.status[p] # d.status[p]
    <3>1. x.table = "proposals" /\ x.id = p /\ e.status[p] = x.to
      BY <1>1, <1>2, <1>3, <2>4
    <3>2. e.ballots = d.ballots
      BY <1>2, <3>1
    <3>3. BallotsOn(d, p) = BallotsOn(e, p)
      BY <3>2 DEF BallotsOn
    <3>4. CASE x.to = "open"
      BY <3>1, <3>4 DEF Backed
    <3>5. CASE x.to # "open"
      <4>1. Backed(d, p, x.to)
        BY <1>1, <3>1, <3>5 DEF StatusFits
      <4> QED
        BY <3>1, <3>3, <4>1, BackedSame
    <3> QED
      BY <3>4, <3>5
  <2> QED
    BY <2>2, <2>3, <2>4
<1>8. \A c : Frozen(c, d) => Frozen(c, e)
  BY <1>5, <1>6 DEF Frozen
<1>9. \A p \in Proposals : d.status[p] = "passed" => e.status[p] = "passed"
  BY <1>6
<1>10. \A p \in Proposals : e.status[p] # d.status[p] => x.table = "proposals" /\ x.id = p
  BY <1>1, <1>2, <1>3
<1>11. \A p \in Proposals : e.status[p] # d.status[p] /\ d.status[p] = "none" => x.to = "open"
  BY <1>1, <1>10 DEF StatusFits
<1>12. d.nodes \in [Nodes -> Values \cup Proposals \cup {Null}]
  BY DEF BaseOk
<1>13. \A n \in Nodes : e.nodes[n] # d.nodes[n] =>
           x.table = "nodes" /\ x.id = n /\ x.to = e.nodes[n]
  BY <1>1, <1>2, <1>12
<1> QED
  BY <1>2, <1>4, <1>7, <1>8, <1>9, <1>10, <1>11, <1>13 DEF Sound, e, x

\* The rest of a script fits the database after its first statement.
LEMMA ScriptRest ==
    ASSUME NEW s, NEW d, ScriptOk(s, d), s # <<>>, BaseOk(d)
    PROVE  ScriptOk(Tail(s), Apply(d, Head(s)))
<1> DEFINE x == Head(s)
           e == Apply(d, x)
<1>0. x = s[1]
  BY HeadFacts
<1>1. /\ x.table \in Tables
      /\ x.table = "nodes" => x.id \in Nodes /\ x.to \in Values \cup Proposals \cup {Null}
      /\ x.table = "proposals" => StatusFits(d, x) /\ x.to \in Statuses
  BY HeadFacts
<1>2. /\ \E S : Tail(s) \in Seq(S)
      /\ Len(s) \in Nat /\ Len(Tail(s)) = Len(s) - 1
      /\ \A i \in 1 .. Len(s) - 1 : i + 1 \in 1 .. Len(s) /\ Tail(s)[i] = s[i + 1]
  BY TailFacts DEF ScriptOk
<1> HIDE DEF x
<1>3. /\ BaseOk(e)
      /\ e.status = IF x.table = "proposals" THEN [d.status EXCEPT ![x.id] = x.to] ELSE d.status
      /\ e.ballots = IF x.table = "unvote" THEN {b \in d.ballots : b.prop # x.id \/ b.voter # x.to}
                     ELSE IF x.table = "votes" THEN d.ballots \cup {x.to} ELSE d.ballots
  BY <1>1, ApplyFacts DEF StatusFits
<1> HIDE DEF e
<1>4. ASSUME NEW i \in 1 .. Len(s) - 1
      PROVE  /\ Tail(s)[i].table \in Tables
             /\ (Tail(s)[i].table = "commit" <=> i = Len(s) - 1)
             /\ Tail(s)[i].table = "nodes" =>
                   /\ Tail(s)[i].id \in Nodes
                   /\ Tail(s)[i].to \in Values \cup Proposals \cup {Null}
             /\ Tail(s)[i].table \notin {"proposals", "unvote"}
             /\ Tail(s)[i].table = "votes" =>
                   /\ Tail(s)[i].id \in Proposals /\ e.status[Tail(s)[i].id] = "open"
                   /\ Tail(s)[i].to.prop = Tail(s)[i].id /\ i = 1
                   /\ \A b \in e.ballots : b.prop = Tail(s)[i].id => b.voter # Tail(s)[i].to.voter
  <2> DEFINE y == s[i + 1]
  <2>1. i + 1 \in 1 .. Len(s) /\ i + 1 # 1 /\ i \in Nat /\ Tail(s)[i] = y
    BY <1>2
  <2>2. /\ y.table \in Tables /\ (y.table = "commit" <=> i + 1 = Len(s))
        /\ y.table = "nodes" => y.id \in Nodes /\ y.to \in Values \cup Proposals \cup {Null}
        /\ y.table \notin {"proposals", "unvote"}
    BY <2>1 DEF ScriptOk
  <2>3. ASSUME y.table = "votes"
        PROVE  /\ y.id \in Proposals /\ e.status[y.id] = "open" /\ y.to.prop = y.id /\ i = 1
               /\ \A b \in e.ballots : b.prop = y.id => b.voter # y.to.voter
    <3>1. /\ y.id \in Proposals /\ d.status[y.id] = "open" /\ y.to.prop = y.id
          /\ i + 1 = 2 /\ s[1].table = "unvote" /\ s[1].id = s[2].id /\ s[1].to = s[2].to.voter
      BY <2>1, <2>3 DEF ScriptOk
    <3>2. x.table = "unvote" /\ x.id = y.id /\ x.to = y.to.voter /\ i = 1
      BY <1>0, <2>1, <3>1
    <3>3. /\ e.status = d.status
          /\ e.ballots = {b \in d.ballots : b.prop # y.id \/ b.voter # y.to.voter}
      BY <1>3, <3>2
    <3> QED
      BY <3>1, <3>2, <3>3
  <2>4. i + 1 = Len(s) <=> i = Len(s) - 1
    BY SMTT(30), <1>2, <2>1
  <2> HIDE DEF y
  <2> QED
    BY <2>1, <2>2, <2>3, <2>4
<1>5. ScriptOk(Tail(s), e)
  BY <1>2, <1>4 DEF ScriptOk
<1> QED
  BY <1>5 DEF e, x

-----------------------------------------------------------------------------
(* Operations.                                                             *)

OpOk(o) ==
    /\ o.op \in {"create_node", "update_node", "delete_node", "add_edge", "remove_edge",
                 "submit", "vote", "quorum", "check", "reputation", "status"}
    /\ o.op \in {"create_node", "update_node", "delete_node"} => o.id \in Nodes
    /\ o.op = "create_node" => o.arg \in Values \cup Proposals
    /\ o.op = "update_node" => o.arg \in Values
    /\ o.op \in {"submit", "vote", "quorum", "check", "status"} => o.id \in Proposals

\* Only the creation of a node writes a proposal into one, and only a submission opens one.
Creates(s, o) ==
    \A i \in 1 .. Len(s) :
        /\ s[i].table = "nodes" /\ s[i].to \in Proposals =>
              o.op = "create_node" /\ s[i].id = o.id /\ s[i].to = o.arg
        /\ s[i].table = "proposals" /\ s[i].to = "open" => o.op = "submit" /\ s[i].id = o.id

\* An empty script does no harm and creates nothing.
LEMMA NoScript ==
    ASSUME NEW d, NEW o
    PROVE  ScriptOk(<<>>, d) /\ Creates(<<>>, o)
<1>1. <<>> \in Seq({}) /\ Len(<<>>) = 0
  OBVIOUS
<1> QED
  BY <1>1 DEF ScriptOk, Creates

\* A script of two or three statements and the commit.
LEMMA AppendTwo ==
    ASSUME NEW a, NEW b, NEW c, NEW r, r = <<a, b>>
    PROVE  /\ \E S : Append(r, c) \in Seq(S)
           /\ Len(Append(r, c)) = 3
           /\ Append(r, c)[1] = a /\ Append(r, c)[2] = b /\ Append(r, c)[3] = c
<1> DEFINE S == {a, b, c}
<1>1. a \in S /\ b \in S /\ c \in S
  OBVIOUS
<1> HIDE DEF S
<1>2. r \in Seq(S) /\ Len(r) = 2 /\ r[1] = a /\ r[2] = b
  BY <1>1
<1> DEFINE s == Append(r, c)
<1>3. /\ s \in Seq(S) /\ Len(s) = Len(r) + 1 /\ s[Len(r) + 1] = c
      /\ \A i \in 1 .. Len(r) : s[i] = r[i]
  BY <1>1, <1>2, AppendProperties
<1> HIDE DEF s
<1>4. Len(s) = 3 /\ s[3] = c /\ \A i \in 1 .. 2 : s[i] = r[i]
  BY <1>2, <1>3
<1> QED
  BY <1>2, <1>3, <1>4 DEF s

\* A script of three statements with its commit.
LEMMA AppendThree ==
    ASSUME NEW a, NEW b, NEW c, NEW e, NEW r, r = <<a, b, e>>
    PROVE  /\ \E S : Append(r, c) \in Seq(S)
           /\ Len(Append(r, c)) = 4
           /\ Append(r, c)[1] = a /\ Append(r, c)[2] = b /\ Append(r, c)[3] = e
           /\ Append(r, c)[4] = c
<1> DEFINE S == {a, b, c, e}
<1>1. a \in S /\ b \in S /\ c \in S /\ e \in S
  OBVIOUS
<1> HIDE DEF S
<1>2. r \in Seq(S) /\ Len(r) = 3 /\ r[1] = a /\ r[2] = b /\ r[3] = e
  BY <1>1
<1> DEFINE s == Append(r, c)
<1>3. /\ s \in Seq(S) /\ Len(s) = Len(r) + 1 /\ s[Len(r) + 1] = c
      /\ \A i \in 1 .. Len(r) : s[i] = r[i]
  BY <1>1, <1>2, AppendProperties
<1> HIDE DEF s
<1>4. Len(s) = 4 /\ s[4] = c /\ \A i \in 1 .. 3 : s[i] = r[i]
  BY <1>2, <1>3
<1> QED
  BY <1>2, <1>3, <1>4 DEF s

\* One row and its event.
LEMMA RowScript ==
    ASSUME NEW d, NEW o, NEW a, a.table \in {"nodes", "edges", "proposals", "reputations"},
           a.table = "nodes" => a.id \in Nodes /\ a.to \in Values \cup Proposals \cup {Null},
           a.table = "proposals" => StatusFits(d, a),
           a.table = "nodes" /\ a.to \in Proposals =>
               o.op = "create_node" /\ a.id = o.id /\ a.to = o.arg,
           a.table = "proposals" /\ a.to = "open" => o.op = "submit" /\ a.id = o.id,
           NEW type, NEW id, NEW payload
    PROVE  LET s == Append(<<a, Event(type, id, payload)>>, Stmt("commit", Null, Null))
           IN  ScriptOk(s, d) /\ Creates(s, o)
<1> DEFINE e == Event(type, id, payload)
           c == Stmt("commit", Null, Null)
           r == <<a, e>>
           s == Append(r, c)
<1>0. r = <<a, e>>
  OBVIOUS
<1>1. e.table = "events" /\ c.table = "commit"
  BY DEF Event, Stmt
<1> HIDE DEF e, c, r
<1>2. (\E S : s \in Seq(S)) /\ Len(s) = 3 /\ s[1] = a /\ s[2] = e /\ s[3] = c
  BY <1>0, AppendTwo
<1>3. 1 .. Len(s) = {1, 2, 3}
  BY <1>2
<1> HIDE DEF s
<1>4. ScriptOk(s, d)
  BY <1>1, <1>2, <1>3 DEF ScriptOk, Tables
<1>5. Creates(s, o)
  BY <1>1, <1>2, <1>3 DEF Creates
<1> QED
  BY <1>4, <1>5 DEF s, r, e, c

\* The script that resolves a proposal fits a database in which its ballots support it.
LEMMA ResolveScript ==
    ASSUME NEW d, NEW o, NEW p \in Proposals, NEW to \in {"passed", "denied", "expired"},
           d.status[p] = "open", Backed(d, p, to)
    PROVE  LET s == Append(Resolve(p, to), Stmt("commit", Null, Null))
           IN  ScriptOk(s, d) /\ Creates(s, o)
<1> DEFINE a == Stmt("proposals", p, to)
<1>1. a.table = "proposals" /\ a.id = p /\ a.to = to
  BY DEF Stmt
<1>2. StatusFits(d, a)
  BY <1>1 DEF StatusFits
<1> HIDE DEF a
<1>3. Resolve(p, to) = <<a, Event("proposal_resolved", p, to)>>
  BY DEF Resolve, a
<1> QED
  BY <1>1, <1>2, <1>3, RowScript

\* The script of delete_node fits any database.
LEMMA DeleteScript ==
    ASSUME NEW o, o.id \in Nodes
    PROVE  LET s == Append(<<Stmt("incident", o.id, Null), Stmt("nodes", o.id, Null),
                             Event("node_deleted", o.id, Null)>>, Stmt("commit", Null, Null))
           IN  ScriptOk(s, work) /\ Creates(s, o)
<1> DEFINE a == Stmt("incident", o.id, Null)
           b == Stmt("nodes", o.id, Null)
           e == Event("node_deleted", o.id, Null)
           c == Stmt("commit", Null, Null)
           r == <<a, b, e>>
           s == Append(r, c)
<1>0. r = <<a, b, e>>
  OBVIOUS
<1>1. /\ a.table = "incident" /\ b.table = "nodes" /\ b.id = o.id /\ b.to = Null
      /\ e.table = "events" /\ c.table = "commit"
  BY DEF Event, Stmt
<1> HIDE DEF a, b, e, c, r
<1>2. (\E S : s \in Seq(S)) /\ Len(s) = 4 /\ s[1] = a /\ s[2] = b /\ s[3] = e /\ s[4] = c
  BY <1>0, AppendThree
<1>3. 1 .. Len(s) = {1, 2, 3, 4}
  BY <1>2
<1> HIDE DEF s
<1>4. ScriptOk(s, work)
  BY <1>1, <1>2, <1>3 DEF ScriptOk, Tables
<1>5. Creates(s, o)
  BY <1>1, <1>2, <1>3, StoreAssumption DEF Creates
<1> QED
  BY <1>4, <1>5 DEF s, r, a, b, e, c

\* The script of a ballot fits a database in which its proposal is open.
LEMMA BallotScript ==
    ASSUME NEW d, NEW o, NEW p \in Proposals, d.status[p] = "open",
           NEW b, b.prop = p, NEW voter, b.voter = voter
    PROVE  LET s == Append(<<Stmt("unvote", p, voter), Stmt("votes", p, b),
                             Event("vote_cast", p, b)>>, Stmt("commit", Null, Null))
           IN  ScriptOk(s, d) /\ Creates(s, o)
<1> DEFINE u == Stmt("unvote", p, voter)
           v == Stmt("votes", p, b)
           e == Event("vote_cast", p, b)
           c == Stmt("commit", Null, Null)
           r == <<u, v, e>>
           s == Append(r, c)
<1>0. r = <<u, v, e>>
  OBVIOUS
<1>1. /\ u.table = "unvote" /\ u.id = p /\ u.to = voter
      /\ v.table = "votes" /\ v.id = p /\ v.to = b
      /\ e.table = "events" /\ c.table = "commit"
  BY DEF Event, Stmt
<1> HIDE DEF u, v, e, c, r
<1>2. (\E S : s \in Seq(S)) /\ Len(s) = 4 /\ s[1] = u /\ s[2] = v /\ s[3] = e /\ s[4] = c
  BY <1>0, AppendThree
<1>3. 1 .. Len(s) = {1, 2, 3, 4}
  BY <1>2
<1> HIDE DEF s
<1>4. ScriptOk(s, d)
  BY <1>1, <1>2, <1>3 DEF ScriptOk, Tables
<1>5. Creates(s, o)
  BY <1>1, <1>2, <1>3 DEF Creates
<1> QED
  BY <1>4, <1>5 DEF s, r, u, v, e, c

\* What an operation writes fits the database that it read.
LEMMA ScriptFits ==
    ASSUME NEW o, OpOk(o), o.op # "status", BaseOk(work),
           o.op = "submit" => work.status[o.id] = "none"
    PROVE  ScriptOk(Script(o), work) /\ Creates(Script(o), o)
<1> DEFINE c == Stmt("commit", Null, Null)
<1>0. CASE Writes(o) = <<>>
  BY <1>0, NoScript DEF Script
<1>1. CASE o.op = "create_node"
  <2> DEFINE a == Stmt("nodes", o.id, o.arg)
  <2>1. a.table = "nodes" /\ a.id = o.id /\ a.to = o.arg
    BY DEF Stmt
  <2>2. Writes(o) = <<a, Event("node_created", o.id, o.arg)>>
    BY <1>1 DEF Writes, CreateNode
  <2>3. Writes(o) # <<>>
    BY <2>2
  <2> HIDE DEF a
  <2>4. ScriptOk(Append(<<a, Event("node_created", o.id, o.arg)>>, c), work)
        /\ Creates(Append(<<a, Event("node_created", o.id, o.arg)>>, c), o)
    BY <1>1, <2>1, RowScript DEF OpOk
  <2> QED
    BY <2>2, <2>3, <2>4 DEF Script
<1>2. CASE o.op = "update_node" /\ Writes(o) # <<>>
  <2> DEFINE a == Stmt("nodes", o.id, o.arg)
  <2>1. a.table = "nodes" /\ a.id = o.id /\ a.to = o.arg
    BY DEF Stmt
  <2>2. Writes(o) = <<a, Event("node_updated", o.id, o.arg)>>
    BY <1>2 DEF Writes, UpdateNode
  <2> HIDE DEF a
  <2>3. o.arg \in Values /\ o.arg \notin Proposals /\ o.id \in Nodes
    BY <1>2, StoreAssumption DEF OpOk
  <2>4. ScriptOk(Append(<<a, Event("node_updated", o.id, o.arg)>>, c), work)
        /\ Creates(Append(<<a, Event("node_updated", o.id, o.arg)>>, c), o)
    BY <2>1, <2>3, RowScript
  <2> QED
    BY <1>2, <2>2, <2>4 DEF Script
<1>3. CASE o.op = "delete_node" /\ Writes(o) # <<>>
  <2>1. Writes(o) = <<Stmt("incident", o.id, Null), Stmt("nodes", o.id, Null),
                      Event("node_deleted", o.id, Null)>>
    BY <1>3 DEF Writes, DeleteNode
  <2>2. o.id \in Nodes
    BY <1>3 DEF OpOk
  <2>3. Script(o) = Append(Writes(o), c)
    BY <1>3 DEF Script
  <2> QED
    BY <2>1, <2>2, <2>3, DeleteScript
<1>4. CASE o.op = "add_edge" /\ Writes(o) # <<>>
  <2> DEFINE a == Stmt("edges", o.id, o.arg)
  <2>1. a.table = "edges"
    BY DEF Stmt
  <2>2. Writes(o) = <<a, Event("edge_added", o.id, o.arg)>>
    BY <1>4 DEF Writes, AddEdge
  <2> HIDE DEF a
  <2>3. ScriptOk(Append(<<a, Event("edge_added", o.id, o.arg)>>, c), work)
        /\ Creates(Append(<<a, Event("edge_added", o.id, o.arg)>>, c), o)
    BY <2>1, RowScript
  <2> QED
    BY <1>4, <2>2, <2>3 DEF Script
<1>5. CASE o.op = "remove_edge" /\ Writes(o) # <<>>
  <2> DEFINE a == Stmt("edges", o.id, Null)
  <2>1. a.table = "edges"
    BY DEF Stmt
  <2>2. Writes(o) = <<a, Event("edge_removed", o.id, Null)>>
    BY <1>5 DEF Writes, RemoveEdge
  <2> HIDE DEF a
  <2>3. ScriptOk(Append(<<a, Event("edge_removed", o.id, Null)>>, c), work)
        /\ Creates(Append(<<a, Event("edge_removed", o.id, Null)>>, c), o)
    BY <2>1, RowScript
  <2> QED
    BY <1>5, <2>2, <2>3 DEF Script
<1>6. CASE o.op = "submit"
  <2> DEFINE a == Stmt("proposals", o.id, "open")
  <2>1. a.table = "proposals" /\ a.id = o.id /\ a.to = "open"
    BY DEF Stmt
  <2>2. Writes(o) = <<a, Event("proposal_submitted", o.id, Null)>>
    BY <1>6 DEF Writes, Submit
  <2>3. Writes(o) # <<>>
    BY <2>2
  <2> HIDE DEF a
  <2>4. StatusFits(work, a)
    BY <1>6, <2>1 DEF StatusFits, OpOk
  <2>5. ScriptOk(Append(<<a, Event("proposal_submitted", o.id, Null)>>, c), work)
        /\ Creates(Append(<<a, Event("proposal_submitted", o.id, Null)>>, c), o)
    BY <1>6, <2>1, <2>4, RowScript
  <2> QED
    BY <2>2, <2>3, <2>5 DEF Script
<1>7. CASE o.op = "vote" /\ Writes(o) # <<>>
  <2>1. o.id \in Proposals
    BY <1>7 DEF OpOk
  <2>2. work.status[o.id] = "open"
    BY <1>7 DEF Writes, Vote
  <2>3. Script(o) = Append(Writes(o), c)
    BY <1>7 DEF Script
  <2>4. CASE o.id \in late
    <3>1. Writes(o) = Resolve(o.id, "expired")
      BY <1>7, <2>2, <2>4 DEF Writes, Vote
    <3>2. Backed(work, o.id, "expired")
      BY DEF Backed
    <3> QED
      BY <2>1, <2>2, <2>3, <3>1, <3>2, ResolveScript
  <2>5. CASE o.id \notin late
    <3> DEFINE b == [prop |-> o.id, voter |-> o.arg.voter, decision |-> o.arg.decision,
                     weight |-> WeightOf(o.arg.voter)]
    <3>1. Writes(o) = <<Stmt("unvote", o.id, o.arg.voter), Stmt("votes", o.id, b),
                        Event("vote_cast", o.id, b)>>
      BY <1>7, <2>2, <2>5 DEF Writes, Vote
    <3>2. b.prop = o.id /\ b.voter = o.arg.voter
      OBVIOUS
    <3> HIDE DEF b
    <3> QED
      BY <2>1, <2>2, <2>3, <3>1, <3>2, BallotScript
  <2> QED
    BY <2>4, <2>5
<1>8. CASE o.op \in {"quorum", "check"} /\ Writes(o) # <<>>
  <2> DEFINE to == IF o.id \in late THEN "expired"
                   ELSE Verdict(Tally(work, o.id, "approve"), Tally(work, o.id, "deny"))
  <2>1. o.id \in Proposals
    BY <1>8 DEF OpOk
  <2>2. Writes(o) = Check(o)
    BY <1>8 DEF Writes
  <2>3. Check(o) = IF work.status[o.id] # "open" \/ to = "open" THEN <<>> ELSE Resolve(o.id, to)
    BY DEF Check
  <2>4. Script(o) = Append(Writes(o), c)
    BY <1>8 DEF Script
  <2>5. to \in {"open", "passed", "denied", "expired"} /\ Backed(work, o.id, to)
    <3>1. CASE o.id \in late
      BY <3>1 DEF Backed
    <3>2. CASE o.id \notin late
      BY <3>2, VerdictBacked DEF BaseOk
    <3> QED
      BY <3>1, <3>2
  <2> HIDE DEF to
  <2>6. work.status[o.id] = "open" /\ to # "open" /\ Writes(o) = Resolve(o.id, to)
    BY <1>8, <2>2, <2>3
  <2> QED
    BY <2>1, <2>4, <2>5, <2>6, ResolveScript
<1>9. CASE o.op = "reputation" /\ Writes(o) # <<>>
  <2>1. PICK a, e :
            a.table = "reputations" /\ Writes(o) = <<a, Event("reputation_updated", o.id, e)>>
    BY <1>9 DEF Writes, UpdateReputation, Stmt
  <2>2. ScriptOk(Append(<<a, Event("reputation_updated", o.id, e)>>, c), work)
        /\ Creates(Append(<<a, Event("reputation_updated", o.id, e)>>, c), o)
    BY <2>1, RowScript
  <2> QED
    BY <1>9, <2>1, <2>2 DEF Script
<1> QED
  BY <1>0, <1>1, <1>2, <1>3, <1>4, <1>5, <1>6, <1>7, <1>8, <1>9 DEF OpOk

-----------------------------------------------------------------------------
(* The operations of a call.                                               *)

\* Whatever comes after the first operation writes verdicts only.
TodoOk(s) ==
    /\ \E S : s \in Seq(S)
    /\ \A i \in 1 .. Len(s) : OpOk(s[i]) /\ (i > 1 => s[i].op \in {"quorum", "check", "status"})

\* A call that has nothing to do is in order.
LEMMA NothingTodo == TodoOk(<<>>)
<1>1. <<>> \in Seq({}) /\ Len(<<>>) = 0
  OBVIOUS
<1> QED
  BY <1>1 DEF TodoOk

\* So is a call of one operation that is,
LEMMA OneOp ==
    ASSUME NEW a, OpOk(a)
    PROVE  TodoOk(<<a>>) /\ <<a>> # <<>> /\ Head(<<a>>) = a
<1> DEFINE s == <<a>>
<1>1. s \in Seq({a}) /\ Len(s) = 1 /\ s[1] = a /\ s # <<>> /\ Head(s) = a
  OBVIOUS
<1> HIDE DEF s
<1>2. TodoOk(s)
  BY <1>1 DEF TodoOk
<1> QED
  BY <1>1, <1>2 DEF s

\* and resolve_agent_proposal, whose later operations spawn nothing.
LEMMA FourOps ==
    ASSUME NEW a, NEW b, NEW c, NEW e, OpOk(a), OpOk(b), OpOk(c), OpOk(e),
           {b.op, c.op, e.op} \subseteq {"quorum", "check", "status"}
    PROVE  TodoOk(<<a, b, c, e>>) /\ <<a, b, c, e>> # <<>> /\ Head(<<a, b, c, e>>) = a
<1> DEFINE s == <<a, b, c, e>>
           S == {a, b, c, e}
<1>1. a \in S /\ b \in S /\ c \in S /\ e \in S
  OBVIOUS
<1> HIDE DEF S
<1>2. s \in Seq(S) /\ Len(s) = 4 /\ s[1] = a /\ s[2] = b /\ s[3] = c /\ s[4] = e
  BY <1>1
<1>3. s # <<>> /\ Head(s) = a
  OBVIOUS
<1>4. 1 .. 4 = {1, 2, 3, 4}
  OBVIOUS
<1> HIDE DEF s
<1>5. TodoOk(s)
  BY <1>2, <1>4 DEF TodoOk
<1> QED
  BY <1>3, <1>5 DEF s

\* What is left of a call after its first operation is in order.
LEMMA RestTodo ==
    ASSUME NEW s, TodoOk(s), s # <<>>
    PROVE  /\ OpOk(Head(s)) /\ TodoOk(Tail(s))
           /\ Tail(s) # <<>> => Head(Tail(s)).op \in {"quorum", "check", "status"}
<1>1. /\ \E S : Tail(s) \in Seq(S)
      /\ Len(s) \in Nat /\ Len(s) >= 1 /\ Head(s) = s[1] /\ Len(Tail(s)) = Len(s) - 1
      /\ \A i \in 1 .. Len(s) - 1 : i + 1 \in 1 .. Len(s) /\ Tail(s)[i] = s[i + 1]
  BY TailFacts DEF TodoOk
<1>2. OpOk(Head(s))
  BY <1>1 DEF TodoOk
<1>3. \A i \in 1 .. Len(s) - 1 : OpOk(Tail(s)[i]) /\ Tail(s)[i].op \in {"quorum", "check", "status"}
  <2> TAKE i \in 1 .. Len(s) - 1
  <2>1. i + 1 \in 1 .. Len(s) /\ i + 1 > 1 /\ Tail(s)[i] = s[i + 1]
    BY <1>1
  <2> QED
    BY <2>1 DEF TodoOk
<1>4. TodoOk(Tail(s))
  BY <1>1, <1>3 DEF TodoOk
<1>5. ASSUME Tail(s) # <<>> PROVE Head(Tail(s)).op \in {"quorum", "check", "status"}
  <2>1. Len(Tail(s)) >= 1 /\ Head(Tail(s)) = Tail(s)[1]
    BY <1>1, <1>5, TailFacts
  <2> QED
    BY <1>1, <1>3, <2>1
<1> QED
  BY <1>2, <1>4, <1>5

\* The operations of a vote that is not counted.
LEMMA DropSecond ==
    ASSUME NEW s, TodoOk(s), s # <<>>
    PROVE  TodoOk(RemoveAt(s, 2)) /\ RemoveAt(s, 2) # <<>> /\ Head(RemoveAt(s, 2)) = Head(s)
<1> DEFINE a == SubSeq(s, 1, 1)
           b == SubSeq(s, 3, Len(s))
<1>1. PICK S : s \in Seq(S)
  BY DEF TodoOk
<1>2. Len(s) \in Nat /\ Len(s) >= 1 /\ Head(s) = s[1]
  BY TailFacts DEF TodoOk
<1>3. a \in Seq(S) /\ Len(a) = 1 /\ a[1] = s[1]
  BY <1>1, <1>2
<1>4. b \in Seq(S) /\ Len(b) \in Nat
      /\ \A i \in 1 .. Len(b) : i + 2 \in 1 .. Len(s) /\ b[i] = s[i + 2]
  <2>1. \A i \in 3 .. Len(s) : s[i] \in S
    BY <1>1, <1>2
  <2>2. /\ b \in Seq(S) /\ Len(b) = IF 3 <= Len(s) THEN Len(s) - 3 + 1 ELSE 0
        /\ \A i \in 1 .. Len(s) - 3 + 1 : b[i] = s[3 + i - 1]
    BY <1>2, <2>1, SubSeqProperties
  <2> HIDE DEF b
  <2>3. \A i \in Int : 3 + i - 1 = i + 2
    OBVIOUS
  <2> QED
    BY <1>2, <2>2, <2>3
<1>5. RemoveAt(s, 2) = a \o b
  BY DEF RemoveAt
<1> HIDE DEF a, b
<1> DEFINE r == a \o b
<1>9. /\ r \in Seq(S) /\ Len(r) = Len(a) + Len(b)
      /\ \A i \in 1 .. Len(a) + Len(b) : r[i] = IF i <= Len(a) THEN a[i] ELSE b[i - Len(a)]
  BY <1>3, <1>4, ConcatProperties
<1> HIDE DEF r
<1>6. /\ r \in Seq(S) /\ Len(r) = 1 + Len(b)
      /\ \A i \in 1 .. 1 + Len(b) : r[i] = IF i <= 1 THEN a[i] ELSE b[i - 1]
  BY <1>3, <1>9
<1>7. r[1] = s[1] /\ r # <<>> /\ Head(r) = r[1]
  BY <1>3, <1>4, <1>6
<1>8. ASSUME NEW i \in 1 .. Len(r)
      PROVE  OpOk(r[i]) /\ (i > 1 => r[i].op \in {"quorum", "check", "status"})
  <2>1. CASE i = 1
    BY <1>2, <1>7, <2>1 DEF TodoOk
  <2>2. CASE i # 1
    <3>1. i - 1 \in 1 .. Len(b) /\ r[i] = b[i - 1] /\ (i - 1) + 2 = i + 1
      BY <1>4, <1>6, <2>2
    <3>2. i + 1 \in 1 .. Len(s) /\ r[i] = s[i + 1] /\ i + 1 > 1
      BY <1>4, <3>1
    <3> QED
      BY <3>2 DEF TodoOk
  <2> QED
    BY <2>1, <2>2
<1> QED
  BY <1>2, <1>5, <1>6, <1>7, <1>8 DEF TodoOk, r

-----------------------------------------------------------------------------
(* The invariant.                                                          *)

Submits(t, p) ==
    todo[t] # <<>> /\ Head(todo[t]).op = "submit" /\ Head(todo[t]).id = p

Pending(t, n, p) ==
    /\ todo[t] # <<>>
    /\ Head(todo[t]).op = "create_node" /\ Head(todo[t]).id = n /\ Head(todo[t]).arg = p

\* Node n is the agent of proposal p, or is about to become it.
Made(n, p) ==
    disk.nodes[n] = p \/ work.nodes[n] = p \/ \E t \in Callers : Pending(t, n, p)

StoreShape ==
    /\ BaseOk(disk) /\ BaseOk(work)
    /\ holder \in Callers \cup {Null}
    /\ todo = [t \in Callers |-> todo[t]] /\ script = [t \in Callers |-> script[t]]
    /\ spent \in [calls : Nat, interrupts : Nat, kills : Nat, closes : Nat]

WriterInv ==
    \A t \in Callers :
        /\ TodoOk(todo[t]) /\ ScriptOk(script[t], work)
        /\ holder # t => script[t] = <<>>
        /\ holder = t => /\ todo[t] # <<>> /\ Head(todo[t]).op # "status"
                         /\ Creates(script[t], Head(todo[t]))

DecidedInv == Sound(disk) /\ Sound(work) /\ Frozen(disk, work)

\* A proposal is submitted once, by one caller, and until then nothing is known of it.
FreshInv ==
    \A p \in Proposals :
        /\ disk.status[p] # "none" \/ work.status[p] # "none" => p \in used
        /\ \A t \in Callers : Submits(t, p) =>
              /\ p \in used
              /\ \A u \in Callers : Submits(u, p) => u = t
              /\ holder # t => disk.status[p] = "none" /\ work.status[p] = "none"

\* Without interruptions the connection sees what is committed between two scripts.
GovernedInv ==
    spent.interrupts = 0 =>
        /\ holder = Null \/ script[holder] = <<>> => work = disk
        /\ \A n \in Nodes, p \in Proposals :
              /\ disk.nodes[n] = p => disk.status[p] = "passed"
              /\ Made(n, p) => work.status[p] = "passed"

OnceInv ==
    spent.kills = 0 =>
        \A n \in Nodes, p \in Proposals : Made(n, p) =>
            p \in spawned /\ \A m \in Nodes : Made(m, p) => m = n

StoreInv == StoreShape /\ WriterInv /\ DecidedInv /\ FreshInv /\ GovernedInv /\ OnceInv

\* The invariant holds of an empty store.
LEMMA StoreInitially == StoreInit => StoreInv
<1> SUFFICES ASSUME StoreInit PROVE StoreInv
  OBVIOUS
<1>1. /\ disk = Empty /\ work = Empty /\ used = {} /\ holder = Null
      /\ todo = [t \in Callers |-> <<>>] /\ script = [t \in Callers |-> <<>>]
      /\ spent = [calls |-> 0, interrupts |-> 0, kills |-> 0, closes |-> 0]
  BY DEF StoreInit
<1>2. /\ Empty.nodes = [n \in Nodes |-> Null] /\ Empty.status = [p \in Proposals |-> "none"]
      /\ Empty.ballots = {}
  BY DEF Empty
<1>3. BaseOk(Empty)
  <2>1. Empty = [nodes |-> Empty.nodes, edges |-> Empty.edges, status |-> Empty.status,
                 ballots |-> Empty.ballots, reps |-> Empty.reps, events |-> Empty.events]
    BY DEF Empty
  <2>2. IsFiniteSet({})
    BY FS_EmptySet
  <2> QED
    BY <1>2, <2>1, <2>2 DEF BaseOk, Statuses
<1>4. StoreShape
  BY <1>1, <1>3 DEF StoreShape
<1>5. WriterInv
  BY <1>1, StoreAssumption, NothingTodo, NoScript DEF WriterInv
<1>6. DecidedInv
  <2>1. Sound(Empty)
    BY <1>2 DEF Sound, OneEach, Backed
  <2>2. Frozen(Empty, Empty)
    BY DEF Frozen
  <2> QED
    BY <1>1, <2>1, <2>2 DEF DecidedInv
<1>7. FreshInv
  BY <1>1, <1>2 DEF FreshInv, Submits
<1>8. \A n \in Nodes, p \in Proposals : ~Made(n, p)
  BY <1>1, <1>2, StoreAssumption DEF Made, Pending
<1>9. GovernedInv /\ OnceInv
  BY <1>1, <1>8 DEF GovernedInv, OnceInv, Made
<1> QED
  BY <1>4, <1>5, <1>6, <1>7, <1>9 DEF StoreInv

-----------------------------------------------------------------------------
(* Steps that write nothing.                                               *)

\* A caller gets another list of operations, and lets go of the lock at most.
LEMMA TodoStep ==
    ASSUME StoreInv, NEW t \in Callers, NEW ops, TodoOk(ops),
           todo' = [todo EXCEPT ![t] = ops],
           disk' = disk, work' = work, script' = script,
           \/ holder # t /\ holder' = holder
           \/ holder = t /\ holder' = Null /\ script[t] = <<>>,
           used \subseteq used', spawned \subseteq spawned',
           spent' \in [calls : Nat, interrupts : Nat, kills : Nat, closes : Nat],
           spent'.interrupts = spent.interrupts, spent'.kills = spent.kills,
           \A p \in Proposals :
               ops # <<>> /\ Head(ops).op = "submit" /\ Head(ops).id = p => p \in used' \ used,
           \A n \in Nodes, p \in Proposals :
               ops # <<>> /\ Head(ops).op = "create_node" /\ Head(ops).id = n
                   /\ Head(ops).arg = p =>
                   work.status[p] = "passed" /\ p \in spawned' \ spawned
    PROVE  StoreInv'
<1>1. todo'[t] = ops /\ \A u \in Callers : u # t => todo'[u] = todo[u]
  BY DEF StoreInv, StoreShape
<1>2. todo' = [u \in Callers |-> todo'[u]]
  BY DEF StoreInv, StoreShape
<1>3. StoreShape'
  BY <1>2, StoreAssumption DEF StoreInv, StoreShape
<1>4. \A u \in Callers : holder' = u => holder = u /\ u # t
  BY StoreAssumption
<1>5. WriterInv'
  <2> SUFFICES ASSUME NEW u \in Callers
               PROVE  /\ TodoOk(todo'[u]) /\ ScriptOk(script[u], work)
                      /\ holder' # u => script[u] = <<>>
                      /\ holder' = u => /\ todo'[u] # <<>> /\ Head(todo'[u]).op # "status"
                                        /\ Creates(script[u], Head(todo'[u]))
    BY DEF WriterInv
  <2>1. TodoOk(todo'[u]) /\ ScriptOk(script[u], work)
    BY <1>1 DEF StoreInv, WriterInv
  <2>2. holder' # u => script[u] = <<>>
    BY DEF StoreInv, WriterInv
  <2>3. ASSUME holder' = u
        PROVE  /\ todo'[u] # <<>> /\ Head(todo'[u]).op # "status"
               /\ Creates(script[u], Head(todo'[u]))
    BY <1>1, <1>4, <2>3 DEF StoreInv, WriterInv
  <2> QED
    BY <2>1, <2>2, <2>3
<1>6. DecidedInv'
  BY DEF StoreInv, DecidedInv
<1>7. \A u \in Callers, p \in Proposals :
          Submits(u, p)' => (u # t /\ Submits(u, p)) \/ (u = t /\ p \in used' \ used)
  <2> TAKE u \in Callers, p \in Proposals
  <2>1. CASE u = t
    BY <1>1, <2>1 DEF Submits
  <2>2. CASE u # t
    <3>1. todo'[u] = todo[u]
      BY <1>1, <2>2
    <3> QED
      BY <2>2, <3>1 DEF Submits
  <2> QED
    BY <2>1, <2>2
<1>8. FreshInv'
  <2> SUFFICES ASSUME NEW p \in Proposals
               PROVE  /\ disk.status[p] # "none" \/ work.status[p] # "none" => p \in used'
                      /\ \A u \in Callers : Submits(u, p)' =>
                            /\ p \in used'
                            /\ \A v \in Callers : Submits(v, p)' => v = u
                            /\ holder' # u => disk.status[p] = "none" /\ work.status[p] = "none"
    BY DEF FreshInv
  <2>1. /\ disk.status[p] # "none" \/ work.status[p] # "none" => p \in used
        /\ \A u \in Callers : Submits(u, p) =>
              /\ p \in used
              /\ \A v \in Callers : Submits(v, p) => v = u
              /\ holder # u => disk.status[p] = "none" /\ work.status[p] = "none"
    BY DEF StoreInv, FreshInv
  <2>2. \A u \in Callers : u # t => (holder' # u <=> holder # u)
    BY StoreAssumption
  <2> QED
    BY <1>7, <2>1, <2>2
<1>9. \A n \in Nodes, p \in Proposals :
          Made(n, p)' => Made(n, p) \/ /\ ops # <<>> /\ Head(ops).op = "create_node"
                                       /\ Head(ops).id = n /\ Head(ops).arg = p
  <2> TAKE n \in Nodes, p \in Proposals
  <2>1. \A u \in Callers : Pending(u, n, p)' => Pending(u, n, p)
                              \/ /\ ops # <<>> /\ Head(ops).op = "create_node"
                                 /\ Head(ops).id = n /\ Head(ops).arg = p
    BY <1>1 DEF Pending
  <2> QED
    BY <2>1 DEF Made
<1>10. GovernedInv'
  <2>1. ASSUME holder' = Null \/ script[holder'] = <<>>
        PROVE  holder = Null \/ script[holder] = <<>>
    BY <2>1
  <2> QED
    BY <1>9, <2>1 DEF StoreInv, GovernedInv
<1>11. OnceInv'
  <2> SUFFICES ASSUME spent.kills = 0, NEW n \in Nodes, NEW p \in Proposals, Made(n, p)'
               PROVE  p \in spawned' /\ \A m \in Nodes : Made(m, p)' => m = n
    BY DEF OnceInv
  <2>1. \A m \in Nodes : Made(m, p) => p \in spawned /\ \A k \in Nodes : Made(k, p) => k = m
    BY DEF StoreInv, OnceInv
  <2>2. CASE Made(n, p)
    BY <1>9, <2>1, <2>2
  <2>3. CASE ~Made(n, p)
    BY <1>9, <2>1, <2>3
  <2> QED
    BY <2>2, <2>3
<1> QED
  BY <1>3, <1>5, <1>6, <1>8, <1>10, <1>11 DEF StoreInv

\* What a call asks for.
Asks(t, call, ops, new) ==
    /\ Start(t, call, ops, new) /\ TodoOk(ops) /\ ops # <<>>
    /\ \A p \in Proposals : Head(ops).op = "submit" /\ Head(ops).id = p => p \in new
    /\ Head(ops).op = "create_node" => Head(ops).arg \notin Proposals

\* Every call asks for operations in order, about proposals it is the first to submit and
\* nodes that belong to none.
LEMMA CallFacts ==
    ASSUME NEW t, AnyCall(t)
    PROVE  \E call, ops, new : Asks(t, call, ops, new)
<1>0. \A v \in Values : v \notin Proposals
  BY StoreAssumption
<1>1. ASSUME NEW call, NEW a, NEW new, OpOk(a), Start(t, call, <<a>>, new),
             \A p \in Proposals : a.op = "submit" /\ a.id = p => p \in new,
             a.op = "create_node" => a.arg \notin Proposals
      PROVE  \E ca, ops, ne : Asks(t, ca, ops, ne)
  <2> DEFINE s == <<a>>
  <2>1. TodoOk(s) /\ s # <<>> /\ Head(s) = a
    BY <1>1, OneOp
  <2> HIDE DEF s
  <2>2. Start(t, call, s, new)
    BY <1>1 DEF s
  <2>3. Asks(t, call, s, new)
    BY <1>1, <2>1, <2>2 DEF Asks
  <2> QED
    BY <2>3
<1>2. ASSUME NEW op, NEW id, NEW arg
      PROVE  Op(op, id, arg).op = op /\ Op(op, id, arg).id = id /\ Op(op, id, arg).arg = arg
  BY DEF Op
<1>3. CASE CallCreateNode(t)
  <2>1. PICK n \in Nodes, v \in Values : Start(t, "graph", <<Op("create_node", n, v)>>, {n})
    BY <1>3 DEF CallCreateNode
  <2>2. OpOk(Op("create_node", n, v))
    BY <1>2 DEF OpOk
  <2> QED
    BY <1>0, <1>1, <1>2, <2>1, <2>2
<1>4. CASE CallUpdateNode(t)
  <2>1. PICK n \in Nodes, v \in Values : Start(t, "graph", <<Op("update_node", n, v)>>, {})
    BY <1>4 DEF CallUpdateNode
  <2>2. OpOk(Op("update_node", n, v))
    BY <1>2 DEF OpOk
  <2> QED
    BY <1>1, <1>2, <2>1, <2>2
<1>5. CASE CallDeleteNode(t)
  <2>1. PICK n \in Nodes : Start(t, "graph", <<Op("delete_node", n, Null)>>, {})
    BY <1>5 DEF CallDeleteNode
  <2>2. OpOk(Op("delete_node", n, Null))
    BY <1>2 DEF OpOk
  <2> QED
    BY <1>1, <1>2, <2>1, <2>2
<1>6. CASE CallAddEdge(t)
  <2>1. PICK e, arg : Start(t, "graph", <<Op("add_edge", e, arg)>>, {e})
    BY <1>6 DEF CallAddEdge
  <2>2. OpOk(Op("add_edge", e, arg))
    BY <1>2 DEF OpOk
  <2> QED
    BY <1>1, <1>2, <2>1, <2>2
<1>7. CASE CallRemoveEdge(t)
  <2>1. PICK e \in Edges : Start(t, "graph", <<Op("remove_edge", e, Null)>>, {})
    BY <1>7 DEF CallRemoveEdge
  <2>2. OpOk(Op("remove_edge", e, Null))
    BY <1>2 DEF OpOk
  <2> QED
    BY <1>1, <1>2, <2>1, <2>2
<1>8. CASE CallSubmit(t)
  <2>1. PICK p \in Proposals : Start(t, "votes", <<Op("submit", p, Null)>>, {p})
    BY <1>8 DEF CallSubmit
  <2>2. OpOk(Op("submit", p, Null))
    BY <1>2 DEF OpOk
  <2> QED
    BY <1>1, <1>2, <2>1, <2>2
<1>9. CASE CallReputation(t)
  <2>1. PICK a, arg : Start(t, "votes", <<Op("reputation", a, arg)>>, {})
    BY <1>9 DEF CallReputation
  <2>2. OpOk(Op("reputation", a, arg))
    BY <1>2 DEF OpOk
  <2> QED
    BY <1>1, <1>2, <2>1, <2>2
<1>10. CASE CallVote(t)
  <2>1. PICK p, arg :
            /\ p \in Proposals
            /\ Start(t, "votes", <<Op("vote", p, arg), Op("quorum", p, Null),
                                   Op("check", p, Null), Op("status", p, Null)>>, {})
    BY <1>10 DEF CallVote
  <2> DEFINE ops == <<Op("vote", p, arg), Op("quorum", p, Null),
                      Op("check", p, Null), Op("status", p, Null)>>
  <2>2. /\ OpOk(Op("vote", p, arg)) /\ OpOk(Op("quorum", p, Null))
        /\ OpOk(Op("check", p, Null)) /\ OpOk(Op("status", p, Null))
    BY <1>2, <2>1 DEF OpOk
  <2>3. TodoOk(ops) /\ ops # <<>> /\ Head(ops) = Op("vote", p, arg)
    BY <1>2, <2>2, FourOps
  <2> HIDE DEF ops
  <2>4. Asks(t, "votes", ops, {})
    BY <1>2, <2>1, <2>3 DEF Asks, ops
  <2> QED
    BY <2>4
<1> QED
  BY <1>3, <1>4, <1>5, <1>6, <1>7, <1>8, <1>9, <1>10 DEF AnyCall

\* A call that is asked for keeps the invariant.
LEMMA CallKeeps ==
    ASSUME StoreInv, NEW t \in Callers, AnyCall(t)
    PROVE  StoreInv'
<1>0. PICK call, ops, new : Asks(t, call, ops, new)
  BY CallFacts
<1>1. /\ Start(t, call, ops, new) /\ TodoOk(ops) /\ ops # <<>>
      /\ \A p \in Proposals : Head(ops).op = "submit" /\ Head(ops).id = p => p \in new
      /\ Head(ops).op = "create_node" => Head(ops).arg \notin Proposals
  BY <1>0 DEF Asks
<1>2. /\ todo[t] = <<>> /\ new \cap used = {}
      /\ todo' = [todo EXCEPT ![t] = ops]
      /\ used' = used \cup new
      /\ spent' = [spent EXCEPT !.calls = @ + 1]
      /\ disk' = disk /\ work' = work /\ holder' = holder /\ script' = script
      /\ spawned' = spawned
  BY <1>1 DEF Start, base
<1>3. holder # t
  BY <1>2 DEF StoreInv, WriterInv
<1>4. /\ spent' \in [calls : Nat, interrupts : Nat, kills : Nat, closes : Nat]
      /\ spent'.interrupts = spent.interrupts /\ spent'.kills = spent.kills
  BY <1>2 DEF StoreInv, StoreShape
<1> QED
  BY <1>1, <1>2, <1>3, <1>4, TodoStep

\* The look at a status, which may spawn an agent, keeps it.
LEMMA LookKeeps ==
    ASSUME StoreInv, NEW t \in Callers, LookAtStatus(t)
    PROVE  StoreInv'
<1> DEFINE p == Now(t).id
<1>1. /\ todo[t] # <<>> /\ Head(todo[t]).op = "status" /\ p = Head(todo[t]).id
      /\ disk' = disk /\ work' = work /\ holder' = holder /\ script' = script
      /\ spent' = spent
  BY DEF LookAtStatus, Now, base
<1>2. p \in Proposals
  <2>1. OpOk(Head(todo[t]))
    BY <1>1, RestTodo DEF StoreInv, WriterInv
  <2> QED
    BY <1>1, <2>1 DEF OpOk
<1>3. holder # t
  BY <1>1 DEF StoreInv, WriterInv
<1>4. spent \in [calls : Nat, interrupts : Nat, kills : Nat, closes : Nat]
  BY DEF StoreInv, StoreShape
<1>5. CASE Spawns(p, work.status[p])
  <2>1. work.status[p] = "passed" /\ spawned' = spawned \cup {p} /\ p \notin spawned
    BY <1>5 DEF LookAtStatus, Spawns
  <2>2. PICK n \in Nodes \ used : /\ used' = used \cup {n}
                                  /\ todo' = [todo EXCEPT ![t] = <<Op("create_node", n, p)>>]
    BY <1>5 DEF LookAtStatus
  <2> DEFINE a == Op("create_node", n, p)
             ops == <<a>>
  <2>3. a.op = "create_node" /\ a.id = n /\ a.arg = p /\ OpOk(a)
    BY <1>2, <2>2 DEF Op, OpOk
  <2> HIDE DEF a
  <2>4. TodoOk(ops) /\ ops # <<>> /\ Head(ops) = a
    BY <2>3, OneOp
  <2>5. todo' = [todo EXCEPT ![t] = ops]
    BY <2>2 DEF a
  <2>6. used \subseteq used'
    BY <2>2
  <2> HIDE DEF ops, p
  <2>7. ~(Head(ops).op = "submit") /\ Head(ops).arg = p
    BY <2>3, <2>4
  <2>8. \A q \in Proposals : Head(ops).arg = q =>
            work.status[q] = "passed" /\ q \in spawned' \ spawned
    BY <2>1, <2>7
  <2>9. spawned \subseteq spawned'
    BY <2>1
  <2> QED
    BY <1>1, <1>3, <1>4, <2>4, <2>5, <2>6, <2>7, <2>8, <2>9, TodoStep
<1>6. CASE ~Spawns(p, work.status[p])
  <2>1. todo' = [todo EXCEPT ![t] = <<>>] /\ used' = used /\ spawned' = spawned
    BY <1>6 DEF LookAtStatus
  <2> HIDE DEF p
  <2> QED
    BY <1>1, <1>3, <1>4, <2>1, NothingTodo, TodoStep
<1> QED
  BY <1>5, <1>6

\* A call that gives up between its operations keeps it.
LEMMA AbandonKeeps ==
    ASSUME StoreInv, NEW t \in Callers, Abandon(t)
    PROVE  StoreInv'
<1>1. /\ holder # t /\ todo' = [todo EXCEPT ![t] = <<>>]
      /\ disk' = disk /\ work' = work /\ holder' = holder /\ script' = script
      /\ spent' = spent /\ used' = used /\ spawned' = spawned
  BY DEF Abandon, End, base
<1>2. spent \in [calls : Nat, interrupts : Nat, kills : Nat, closes : Nat]
  BY DEF StoreInv, StoreShape
<1> QED
  BY <1>1, <1>2, NothingTodo, TodoStep

\* A call that releases the lock and goes on to its next operation keeps it.
LEMMA UnlockKeeps ==
    ASSUME StoreInv, NEW t \in Callers, Unlock(t)
    PROVE  StoreInv'
<1> DEFINE ops == Tail(todo[t])
<1>1. /\ holder = t /\ script[t] = <<>> /\ holder' = Null
      /\ todo' = [todo EXCEPT ![t] = ops]
      /\ disk' = disk /\ work' = work /\ script' = script
      /\ spent' = spent /\ used' = used /\ spawned' = spawned
  BY DEF Unlock, base
<1>2. spent \in [calls : Nat, interrupts : Nat, kills : Nat, closes : Nat]
  BY DEF StoreInv, StoreShape
<1>3. TodoOk(ops) /\ (ops # <<>> => Head(ops).op \in {"quorum", "check", "status"})
  BY <1>1, RestTodo DEF StoreInv, WriterInv
<1> HIDE DEF ops
<1> QED
  BY <1>1, <1>2, <1>3, TodoStep

\* An operation takes the lock: its script fits what it read.
LEMMA TakeKeeps ==
    ASSUME StoreInv, NEW t \in Callers, Take(t)
    PROVE  StoreInv'
<1> DEFINE o == Now(t)
<1>1. /\ holder = Null /\ todo[t] # <<>> /\ o = Head(todo[t]) /\ o.op # "status"
      /\ holder' = t
      /\ script' = [script EXCEPT ![t] = Script(o)]
      /\ todo' = [todo EXCEPT ![t] = AfterVote(o, todo[t])]
      /\ disk' = disk /\ work' = work /\ spent' = spent /\ used' = used /\ spawned' = spawned
  BY DEF Take, Now, base
<1> HIDE DEF o
<1>2. TodoOk(todo[t]) /\ OpOk(o)
  BY <1>1, RestTodo DEF StoreInv, WriterInv
<1>3. BaseOk(work)
  BY DEF StoreInv, StoreShape
<1>4. ASSUME o.op = "submit" PROVE work.status[o.id] = "none"
  <2>1. o.id \in Proposals
    BY <1>2, <1>4 DEF OpOk
  <2>2. Submits(t, o.id)
    BY <1>1, <1>4 DEF Submits
  <2>3. holder # t
    BY <1>1, StoreAssumption
  <2> QED
    BY <2>1, <2>2, <2>3 DEF StoreInv, FreshInv
<1>5. ScriptOk(Script(o), work) /\ Creates(Script(o), o)
  BY <1>1, <1>2, <1>3, <1>4, ScriptFits
<1> DEFINE ops == AfterVote(o, todo[t])
<1>6. TodoOk(ops) /\ ops # <<>> /\ Head(ops) = o
  BY <1>1, <1>2, DropSecond DEF AfterVote
<1> HIDE DEF ops
<1>7. /\ todo'[t] = ops /\ \A u \in Callers : u # t => todo'[u] = todo[u]
      /\ todo' = [u \in Callers |-> todo'[u]]
  BY <1>1 DEF StoreInv, StoreShape, ops
<1>8. /\ script'[t] = Script(o) /\ \A u \in Callers : u # t => script'[u] = script[u]
      /\ script' = [u \in Callers |-> script'[u]]
  BY <1>1 DEF StoreInv, StoreShape
<1>9. StoreShape'
  BY <1>1, <1>7, <1>8 DEF StoreInv, StoreShape
<1>10. WriterInv'
  <2> SUFFICES ASSUME NEW u \in Callers
               PROVE  /\ TodoOk(todo'[u]) /\ ScriptOk(script'[u], work)
                      /\ t # u => script'[u] = <<>>
                      /\ t = u => /\ todo'[u] # <<>> /\ Head(todo'[u]).op # "status"
                                  /\ Creates(script'[u], Head(todo'[u]))
    BY <1>1 DEF WriterInv
  <2>1. CASE u = t
    BY <1>1, <1>5, <1>6, <1>7, <1>8, <2>1
  <2>2. CASE u # t
    <3>1. TodoOk(todo[u]) /\ ScriptOk(script[u], work) /\ (holder # u => script[u] = <<>>)
      BY DEF StoreInv, WriterInv
    <3>2. holder # u
      BY <1>1, StoreAssumption
    <3> QED
      BY <1>7, <1>8, <2>2, <3>1, <3>2
  <2> QED
    BY <2>1, <2>2
<1>11. DecidedInv'
  BY <1>1 DEF StoreInv, DecidedInv
<1>12. \A u \in Callers : (todo'[u] # <<>> <=> todo[u] # <<>>) /\ Head(todo'[u]) = Head(todo[u])
  BY <1>1, <1>6, <1>7
<1>13. \A u \in Callers, p \in Proposals : Submits(u, p)' <=> Submits(u, p)
  BY <1>12 DEF Submits
<1>14. \A n \in Nodes, p \in Proposals : Made(n, p)' <=> Made(n, p)
  <2>1. \A u \in Callers, n \in Nodes, p \in Proposals : Pending(u, n, p)' <=> Pending(u, n, p)
    BY <1>12 DEF Pending
  <2> QED
    BY <1>1, <2>1 DEF Made
<1>15. FreshInv'
  <2>1. \A u \in Callers : holder # u
    BY <1>1, StoreAssumption
  <2> QED
    BY <1>1, <1>13, <2>1 DEF StoreInv, FreshInv
<1>16. GovernedInv'
  BY <1>1, <1>14 DEF StoreInv, GovernedInv
<1>17. OnceInv'
  BY <1>1, <1>14 DEF StoreInv, OnceInv
<1> QED
  BY <1>9, <1>10, <1>11, <1>15, <1>16, <1>17 DEF StoreInv

-----------------------------------------------------------------------------
(* Steps that write.                                                       *)

\* What a statement leaves, or the databases as they were.
LEMMA ExecuteFacts ==
    ASSUME StoreInv, NEW t \in Callers, holder = t, script[t] # <<>>, Execute(t)
    PROVE  /\ BaseOk(disk') /\ BaseOk(work') /\ DecidedInv' /\ Frozen(disk, disk')
           /\ ScriptOk(Tail(script[t]), work')
           /\ Tail(script[t]) = <<>> => work' = disk'
           /\ \A p \in Proposals :
                 /\ disk'.status[p] # "none" \/ work'.status[p] # "none" => p \in used
                 /\ \A u \in Callers : u # t /\ Submits(u, p) =>
                       disk'.status[p] = "none" /\ work'.status[p] = "none"
                 /\ work.status[p] = "passed" => work'.status[p] = "passed"
           /\ \A n \in Nodes, p \in Proposals :
                 disk'.nodes[n] = p \/ work'.nodes[n] = p => Made(n, p)
           /\ disk' = disk \/ disk' = work
<1> DEFINE s == script[t]
           x == Head(s)
           o == Head(todo[t])
<1>1. work' = Apply(work, x) /\ disk' = IF x.table = "commit" THEN work ELSE disk
  BY DEF Execute
<1>2. /\ BaseOk(disk) /\ BaseOk(work) /\ Sound(disk) /\ Sound(work) /\ Frozen(disk, work)
      /\ ScriptOk(s, work) /\ Creates(s, o) /\ todo[t] # <<>>
  BY DEF StoreInv, StoreShape, WriterInv, DecidedInv
<1>3. x = s[1] /\ x.table \in Tables /\ (x.table = "commit" <=> Tail(s) = <<>>) /\ Len(s) \in Nat
      /\ Len(s) >= 1
  BY <1>2, HeadFacts, TailFacts DEF ScriptOk
<1>4. /\ x.table = "nodes" /\ x.to \in Proposals =>
            o.op = "create_node" /\ x.id = o.id /\ x.to = o.arg
      /\ x.table = "proposals" /\ x.to = "open" => o.op = "submit" /\ x.id = o.id
  <2>1. 1 \in 1 .. Len(s)
    BY <1>3
  <2> QED
    BY <1>2, <1>3, <2>1 DEF Creates
<1>5. /\ BaseOk(work') /\ Sound(work')
      /\ \A c : Frozen(c, work) => Frozen(c, work')
      /\ \A p \in Proposals : work.status[p] = "passed" => work'.status[p] = "passed"
      /\ \A p \in Proposals : work'.status[p] # work.status[p] /\ work.status[p] = "none" =>
             x.table = "proposals" /\ x.id = p /\ x.to = "open"
      /\ \A n \in Nodes : work'.nodes[n] # work.nodes[n] =>
             x.table = "nodes" /\ x.id = n /\ x.to = work'.nodes[n]
  BY <1>1, <1>2, StatementFits
<1>6. ScriptOk(Tail(s), work')
  BY <1>1, <1>2, ScriptRest
<1>7. x.table = "commit" => work' = work
  BY <1>1 DEF Apply
<1> HIDE DEF s, x
<1>8. Frozen(work, work) /\ Frozen(disk, disk)
  BY DEF Frozen
<1>9. BaseOk(disk') /\ Sound(disk') /\ Frozen(disk, disk') /\ (disk' = disk \/ disk' = work)
  BY <1>1, <1>2, <1>8
<1>10. Frozen(disk', work')
  BY <1>1, <1>2, <1>5, <1>8
<1>11. DecidedInv'
  BY <1>5, <1>9, <1>10 DEF DecidedInv
<1>12. Tail(s) = <<>> => work' = disk'
  BY <1>1, <1>3, <1>7
<1>13. ASSUME NEW p \in Proposals, work'.status[p] # work.status[p], work.status[p] = "none"
       PROVE  Submits(t, p)
  BY <1>2, <1>4, <1>5, <1>13 DEF Submits
<1>14. ASSUME NEW p \in Proposals
       PROVE  /\ disk'.status[p] # "none" \/ work'.status[p] # "none" => p \in used
              /\ \A u \in Callers : u # t /\ Submits(u, p) =>
                    disk'.status[p] = "none" /\ work'.status[p] = "none"
  <2>1. /\ disk.status[p] # "none" \/ work.status[p] # "none" => p \in used
        /\ \A u \in Callers : Submits(u, p) =>
              /\ p \in used
              /\ \A v \in Callers : Submits(v, p) => v = u
              /\ holder # u => disk.status[p] = "none" /\ work.status[p] = "none"
    BY DEF StoreInv, FreshInv
  <2> QED
    BY <1>9, <1>13, <2>1
<1>15. ASSUME NEW n \in Nodes, NEW p \in Proposals, work'.nodes[n] = p PROVE Made(n, p)
  <2>1. CASE work.nodes[n] = p
    BY <2>1 DEF Made
  <2>2. CASE work.nodes[n] # p
    <3>1. o.op = "create_node" /\ o.id = n /\ o.arg = p
      BY <1>4, <1>5, <1>15, <2>2
    <3>2. Pending(t, n, p)
      BY <1>2, <3>1 DEF Pending
    <3> QED
      BY <3>2 DEF Made
  <2> QED
    BY <2>1, <2>2
<1>16. \A n \in Nodes, p \in Proposals : disk'.nodes[n] = p => Made(n, p)
  BY <1>9 DEF Made
<1> QED
  BY <1>5, <1>6, <1>9, <1>11, <1>12, <1>14, <1>15, <1>16 DEF s

\* A statement keeps it, and a commit changes no decided proposal on disk.
LEMMA StatementKeeps ==
    ASSUME StoreInv, NEW t \in Callers, Statement(t)
    PROVE  StoreInv' /\ Frozen(disk, disk')
<1>1. /\ holder = t /\ script[t] # <<>> /\ Execute(t)
      /\ script' = [script EXCEPT ![t] = Tail(script[t])]
      /\ used' = used /\ holder' = holder /\ todo' = todo /\ spawned' = spawned
      /\ spent' = spent
  BY DEF Statement
<1>2. /\ BaseOk(disk') /\ BaseOk(work') /\ DecidedInv' /\ Frozen(disk, disk')
      /\ ScriptOk(Tail(script[t]), work')
      /\ Tail(script[t]) = <<>> => work' = disk'
      /\ \A p \in Proposals :
            /\ disk'.status[p] # "none" \/ work'.status[p] # "none" => p \in used
            /\ \A u \in Callers : u # t /\ Submits(u, p) =>
                  disk'.status[p] = "none" /\ work'.status[p] = "none"
            /\ work.status[p] = "passed" => work'.status[p] = "passed"
      /\ \A n \in Nodes, p \in Proposals :
            disk'.nodes[n] = p \/ work'.nodes[n] = p => Made(n, p)
      /\ disk' = disk \/ disk' = work
  BY <1>1, ExecuteFacts
<1>3. /\ script'[t] = Tail(script[t]) /\ \A u \in Callers : u # t => script'[u] = script[u]
      /\ script' = [u \in Callers |-> script'[u]]
  BY <1>1 DEF StoreInv, StoreShape
<1>4. StoreShape'
  BY <1>1, <1>2, <1>3 DEF StoreInv, StoreShape
<1>5. Creates(script'[t], Head(todo[t]))
  <2>1. /\ Len(script[t]) \in Nat /\ Len(Tail(script[t])) = Len(script[t]) - 1
        /\ \A i \in 1 .. Len(script[t]) - 1 :
              i + 1 \in 1 .. Len(script[t]) /\ Tail(script[t])[i] = script[t][i + 1]
    BY <1>1, TailFacts DEF StoreInv, WriterInv, ScriptOk
  <2>2. Creates(script[t], Head(todo[t]))
    BY <1>1 DEF StoreInv, WriterInv
  <2> QED
    BY <1>3, <2>1, <2>2 DEF Creates
<1>6. WriterInv'
  <2> SUFFICES ASSUME NEW u \in Callers
               PROVE  /\ TodoOk(todo[u]) /\ ScriptOk(script'[u], work')
                      /\ holder # u => script'[u] = <<>>
                      /\ holder = u => /\ todo[u] # <<>> /\ Head(todo[u]).op # "status"
                                       /\ Creates(script'[u], Head(todo[u]))
    BY <1>1 DEF WriterInv
  <2>1. /\ TodoOk(todo[u]) /\ (holder # u => script[u] = <<>>)
        /\ holder = u => todo[u] # <<>> /\ Head(todo[u]).op # "status"
    BY DEF StoreInv, WriterInv
  <2>2. CASE u = t
    BY <1>1, <1>2, <1>3, <1>5, <2>1, <2>2
  <2>3. CASE u # t
    BY <1>1, <1>3, <2>1, <2>3, NoScript
  <2> QED
    BY <2>2, <2>3
<1>7. \A u \in Callers, p \in Proposals : Submits(u, p)' <=> Submits(u, p)
  BY <1>1 DEF Submits
<1>8. \A n \in Nodes, p \in Proposals : Made(n, p)' => Made(n, p)
  BY <1>1, <1>2 DEF Made, Pending
<1>9. FreshInv'
  <2> SUFFICES ASSUME NEW p \in Proposals
               PROVE  /\ disk'.status[p] # "none" \/ work'.status[p] # "none" => p \in used
                      /\ \A u \in Callers : Submits(u, p) =>
                            /\ p \in used
                            /\ \A v \in Callers : Submits(v, p) => v = u
                            /\ holder # u => disk'.status[p] = "none" /\ work'.status[p] = "none"
    BY <1>1, <1>7 DEF FreshInv
  <2>1. \A u \in Callers : Submits(u, p) =>
            p \in used /\ \A v \in Callers : Submits(v, p) => v = u
    BY DEF StoreInv, FreshInv
  <2> QED
    BY <1>1, <1>2, <2>1
<1>10. GovernedInv'
  <2> SUFFICES ASSUME spent.interrupts = 0
               PROVE  /\ holder = Null \/ script'[holder] = <<>> => work' = disk'
                      /\ \A n \in Nodes, p \in Proposals :
                            /\ disk'.nodes[n] = p => disk'.status[p] = "passed"
                            /\ Made(n, p)' => work'.status[p] = "passed"
    BY <1>1 DEF GovernedInv
  <2>1. holder = Null \/ script'[holder] = <<>> => work' = disk'
    BY <1>1, <1>2, <1>3, StoreAssumption
  <2>2. \A n \in Nodes, p \in Proposals :
            /\ disk.nodes[n] = p => disk.status[p] = "passed"
            /\ Made(n, p) => work.status[p] = "passed"
    BY DEF StoreInv, GovernedInv
  <2>3. \A n \in Nodes, p \in Proposals : work.nodes[n] = p => Made(n, p)
    BY DEF Made
  <2> QED
    BY <1>2, <1>8, <2>1, <2>2, <2>3
<1>11. OnceInv'
  BY <1>1, <1>8 DEF StoreInv, OnceInv
<1> QED
  BY <1>2, <1>4, <1>6, <1>9, <1>10, <1>11 DEF StoreInv

\* The statement is executed or not; its script is given up, and the call with it.
LEMMA InterruptKeeps ==
    ASSUME StoreInv, NEW t \in Callers, Interrupt(t)
    PROVE  StoreInv' /\ Frozen(disk, disk')
<1>1. /\ holder = t /\ script[t] # <<>>
      /\ Execute(t) \/ (disk' = disk /\ work' = work)
      /\ script' = [script EXCEPT ![t] = <<>>] /\ todo' = [todo EXCEPT ![t] = <<>>]
      /\ used' = used /\ holder' = Null /\ spawned' = spawned
      /\ spent' = [spent EXCEPT !.interrupts = @ + 1]
  BY DEF Interrupt, End, base
<1>2. /\ BaseOk(disk') /\ BaseOk(work') /\ DecidedInv' /\ Frozen(disk, disk')
      /\ \A p \in Proposals :
            /\ disk'.status[p] # "none" \/ work'.status[p] # "none" => p \in used
            /\ \A u \in Callers : u # t /\ Submits(u, p) =>
                  disk'.status[p] = "none" /\ work'.status[p] = "none"
      /\ \A n \in Nodes, p \in Proposals :
            disk'.nodes[n] = p \/ work'.nodes[n] = p => Made(n, p)
  <2>1. CASE Execute(t)
    BY <1>1, <2>1, ExecuteFacts
  <2>2. CASE disk' = disk /\ work' = work
    <3>1. BaseOk(disk') /\ BaseOk(work') /\ DecidedInv'
      BY <2>2 DEF StoreInv, StoreShape, DecidedInv
    <3>2. Frozen(disk, disk')
      BY <2>2 DEF Frozen
    <3>3. \A p \in Proposals :
            /\ disk'.status[p] # "none" \/ work'.status[p] # "none" => p \in used
            /\ \A u \in Callers : u # t /\ Submits(u, p) =>
                  disk'.status[p] = "none" /\ work'.status[p] = "none"
      BY <1>1, <2>2 DEF StoreInv, FreshInv
    <3>4. \A n \in Nodes, p \in Proposals :
            disk'.nodes[n] = p \/ work'.nodes[n] = p => Made(n, p)
      BY <2>2 DEF Made
    <3> QED
      BY <3>1, <3>2, <3>3, <3>4
  <2> QED
    BY <1>1, <2>1, <2>2
<1>3. /\ script'[t] = <<>> /\ \A u \in Callers : u # t => script'[u] = script[u]
      /\ script' = [u \in Callers |-> script'[u]]
      /\ todo'[t] = <<>> /\ \A u \in Callers : u # t => todo'[u] = todo[u]
      /\ todo' = [u \in Callers |-> todo'[u]]
  BY <1>1 DEF StoreInv, StoreShape
<1>4. /\ spent' \in [calls : Nat, interrupts : Nat, kills : Nat, closes : Nat]
      /\ spent'.interrupts # 0 /\ spent'.kills = spent.kills
  BY <1>1 DEF StoreInv, StoreShape
<1>5. StoreShape'
  BY <1>1, <1>2, <1>3, <1>4 DEF StoreInv, StoreShape
<1>6. WriterInv'
  <2> SUFFICES ASSUME NEW u \in Callers
               PROVE  TodoOk(todo'[u]) /\ ScriptOk(script'[u], work') /\ script'[u] = <<>>
    BY <1>1, StoreAssumption DEF WriterInv
  <2>1. TodoOk(todo[u]) /\ (holder # u => script[u] = <<>>)
    BY DEF StoreInv, WriterInv
  <2> QED
    BY <1>1, <1>3, <2>1, NothingTodo, NoScript
<1>7. \A u \in Callers, p \in Proposals : Submits(u, p)' => u # t /\ Submits(u, p)
  BY <1>3 DEF Submits
<1>8. \A n \in Nodes, p \in Proposals : Made(n, p)' => Made(n, p)
  <2>1. \A u \in Callers, n \in Nodes, p \in Proposals : Pending(u, n, p)' => Pending(u, n, p)
    BY <1>3 DEF Pending
  <2> QED
    BY <1>2, <2>1 DEF Made
<1>9. FreshInv'
  <2> SUFFICES ASSUME NEW p \in Proposals
               PROVE  /\ disk'.status[p] # "none" \/ work'.status[p] # "none" => p \in used
                      /\ \A u \in Callers : Submits(u, p)' =>
                            /\ p \in used
                            /\ \A v \in Callers : Submits(v, p)' => v = u
                            /\ disk'.status[p] = "none" /\ work'.status[p] = "none"
    BY <1>1 DEF FreshInv
  <2>1. \A u \in Callers : Submits(u, p) =>
            p \in used /\ \A v \in Callers : Submits(v, p) => v = u
    BY DEF StoreInv, FreshInv
  <2> QED
    BY <1>2, <1>7, <2>1
<1>10. GovernedInv'
  BY <1>4 DEF GovernedInv
<1>11. OnceInv'
  BY <1>1, <1>4, <1>8 DEF StoreInv, OnceInv
<1> QED
  BY <1>2, <1>5, <1>6, <1>9, <1>10, <1>11 DEF StoreInv

-----------------------------------------------------------------------------
(* The connection and the process.                                         *)

\* Closing the store keeps it.
LEMMA CloseKeeps == ASSUME StoreInv, Close PROVE StoreInv'
<1>1. /\ holder = Null /\ work' = disk /\ disk' = disk /\ used' = used /\ holder' = Null
      /\ todo' = todo /\ script' = script /\ spawned' = spawned
      /\ spent' = [spent EXCEPT !.closes = @ + 1]
  BY DEF Close
<1>2. /\ spent' \in [calls : Nat, interrupts : Nat, kills : Nat, closes : Nat]
      /\ spent'.interrupts = spent.interrupts /\ spent'.kills = spent.kills
  BY <1>1 DEF StoreInv, StoreShape
<1>3. StoreShape'
  BY <1>1, <1>2 DEF StoreInv, StoreShape
<1>4. WriterInv'
  <2> SUFFICES ASSUME NEW u \in Callers
               PROVE  TodoOk(todo[u]) /\ ScriptOk(script[u], disk) /\ script[u] = <<>>
    BY <1>1, StoreAssumption DEF WriterInv
  <2>1. TodoOk(todo[u]) /\ (holder # u => script[u] = <<>>)
    BY DEF StoreInv, WriterInv
  <2> QED
    BY <1>1, <2>1, NoScript, StoreAssumption
<1>5. DecidedInv'
  BY <1>1 DEF StoreInv, DecidedInv, Frozen
<1>6. \A u \in Callers, p \in Proposals : Submits(u, p)' <=> Submits(u, p)
  BY <1>1 DEF Submits
<1>7. \A n \in Nodes, p \in Proposals : Made(n, p)' => Made(n, p)
  BY <1>1 DEF Made, Pending
<1>8. FreshInv'
  BY <1>1, <1>6 DEF StoreInv, FreshInv
<1>9. GovernedInv'
  BY <1>1, <1>2, <1>7 DEF StoreInv, GovernedInv
<1>10. OnceInv'
  BY <1>1, <1>2, <1>7 DEF StoreInv, OnceInv
<1> QED
  BY <1>3, <1>4, <1>5, <1>8, <1>9, <1>10 DEF StoreInv

\* A kill keeps it, which leaves the committed database.
LEMMA KillKeeps == ASSUME StoreInv, Kill PROVE StoreInv'
<1>1. /\ work' = disk /\ disk' = disk /\ used' = used /\ holder' = Null
      /\ todo' = [t \in Callers |-> <<>>] /\ script' = [t \in Callers |-> <<>>]
      /\ spent' = [spent EXCEPT !.kills = @ + 1]
  BY DEF Kill
<1>2. /\ spent' \in [calls : Nat, interrupts : Nat, kills : Nat, closes : Nat]
      /\ spent'.interrupts = spent.interrupts /\ spent'.kills # 0
  BY <1>1 DEF StoreInv, StoreShape
<1>3. StoreShape'
  BY <1>1, <1>2 DEF StoreInv, StoreShape
<1>4. WriterInv'
  BY <1>1, StoreAssumption, NothingTodo, NoScript DEF WriterInv
<1>5. DecidedInv'
  BY <1>1 DEF StoreInv, DecidedInv, Frozen
<1>6. FreshInv'
  BY <1>1 DEF StoreInv, FreshInv, Submits
<1>7. \A n \in Nodes, p \in Proposals : Made(n, p)' => disk.nodes[n] = p
  BY <1>1 DEF Made, Pending
<1>8. GovernedInv'
  BY <1>1, <1>2, <1>7 DEF StoreInv, GovernedInv
<1>9. OnceInv'
  BY <1>2 DEF OnceInv
<1> QED
  BY <1>3, <1>4, <1>5, <1>6, <1>8, <1>9 DEF StoreInv

\* Nothing that the invariant speaks of changes.
LEMMA QuietKeeps ==
    ASSUME StoreInv,
           UNCHANGED <<base, used, holder, todo, script, spawned, spent>>
    PROVE  StoreInv'
BY DEF base, StoreInv, StoreShape, WriterInv, DecidedInv, FreshInv, GovernedInv, OnceInv,
       Submits, Made, Pending

-----------------------------------------------------------------------------
(* The theorem.                                                            *)

\* Every step of the store keeps it, and what is decided on disk stays decided.
LEMMA StoreStep == StoreInv /\ [StoreNext]_storeVars => StoreInv' /\ Frozen(disk, disk')
<1> SUFFICES ASSUME StoreInv, [StoreNext]_storeVars PROVE StoreInv' /\ Frozen(disk, disk')
  OBVIOUS
<1>0. disk' = disk => Frozen(disk, disk')
  BY DEF Frozen
<1>1. CASE UNCHANGED storeVars
  BY <1>0, <1>1, QuietKeeps DEF storeVars, base
<1>2. ASSUME NEW t \in Callers, AnyCall(t) PROVE StoreInv' /\ disk' = disk
  <2>1. \E call, ops, new : Asks(t, call, ops, new)
    BY <1>2, CallFacts
  <2>2. disk' = disk
    BY <2>1 DEF Asks, Start, base
  <2> QED
    BY <1>2, <2>2, CallKeeps
<1>3. ASSUME NEW t \in Callers, Step(t) PROVE StoreInv' /\ Frozen(disk, disk')
  <2>1. CASE Take(t)
    BY <1>0, <2>1, TakeKeeps DEF Take, base
  <2>2. CASE Statement(t)
    BY <2>2, StatementKeeps
  <2>3. CASE Unlock(t)
    BY <1>0, <2>3, UnlockKeeps DEF Unlock, base
  <2>4. CASE LookAtStatus(t)
    BY <1>0, <2>4, LookKeeps DEF LookAtStatus, base
  <2> QED
    BY <1>3, <2>1, <2>2, <2>3, <2>4 DEF Step
<1>4. ASSUME NEW t \in Callers, Abandon(t) PROVE StoreInv' /\ disk' = disk
  BY <1>4, AbandonKeeps DEF Abandon, base
<1>5. ASSUME NEW t \in Callers, Interrupt(t) PROVE StoreInv' /\ Frozen(disk, disk')
  BY <1>5, InterruptKeeps
<1>6. ASSUME NEW p \in Proposals, Expire(p) PROVE StoreInv' /\ disk' = disk
  <2>1. UNCHANGED <<base, used, holder, todo, script, spawned, spent>>
    BY <1>6 DEF Expire
  <2> QED
    BY <2>1, QuietKeeps DEF base
<1>7. CASE Close
  BY <1>0, <1>7, CloseKeeps DEF Close
<1>8. CASE Initialize
  <2>1. UNCHANGED <<base, used, holder, todo, script, spawned, spent>>
    BY <1>8 DEF Initialize
  <2> QED
    BY <1>0, <2>1, QuietKeeps DEF base
<1>9. CASE Kill
  BY <1>0, <1>9, KillKeeps DEF Kill
<1> QED
  BY <1>0, <1>1, <1>2, <1>3, <1>4, <1>5, <1>6, <1>7, <1>8, <1>9 DEF StoreNext

\* Governance on SQLite (LatticeStore!GovernedBySqlite), whatever calls interleave and whatever
\* is cancelled, killed or closed: the verdict of a proposal on disk follows from the ballots on
\* disk and is final, and governance spawns one agent for a proposal that passed.
THEOREM GovernedBySqliteHolds == StoreSpec => GovernedBySqlite
<1>1. StoreInv => VerdictSound
  <2> SUFFICES ASSUME StoreInv PROVE VerdictSound
    OBVIOUS
  <2>1. Sound(disk)
    BY DEF StoreInv, DecidedInv
  <2> QED
    BY <2>1 DEF VerdictSound, Sound, OneEach, Backed
<1>2. StoreInv => SpawnGoverned
  <2> SUFFICES ASSUME StoreInv, NEW p \in Proposals
               PROVE  /\ spent.interrupts = 0 /\ Spawn(p) # {} => disk.status[p] = "passed"
                      /\ spent.kills = 0 => Cardinality(Spawn(p)) <= 1
    BY DEF SpawnGoverned
  <2>1. spent.interrupts = 0 /\ Spawn(p) # {} => disk.status[p] = "passed"
    BY DEF StoreInv, GovernedInv, Spawn
  <2>2. ASSUME spent.kills = 0 PROVE Cardinality(Spawn(p)) <= 1
    <3>1. \A m, n \in Spawn(p) : m = n
      BY <2>2 DEF StoreInv, OnceInv, Made, Spawn
    <3>2. CASE Spawn(p) = {}
      BY <3>2, FS_EmptySet
    <3>3. CASE Spawn(p) # {}
      <4>1. PICK n : n \in Spawn(p)
        BY <3>3
      <4>2. Spawn(p) = {n}
        BY <3>1, <4>1
      <4>3. Cardinality({n}) = 1
        BY FS_Singleton
      <4> QED
        BY <4>2, <4>3
    <3> QED
      BY <3>2, <3>3
  <2> QED
    BY <2>1, <2>2
<1>3. Frozen(disk, disk') =>
          \A p \in Proposals : disk.status[p] \notin {"none", "open"} =>
              /\ disk'.status[p] = disk.status[p]
              /\ {b \in disk'.ballots : b.prop = p} = {b \in disk.ballots : b.prop = p}
  BY DEF Frozen, BallotsOn
<1>4. StoreInv /\ [StoreNext]_storeVars =>
          [\A p \in Proposals : disk.status[p] \notin {"none", "open"} =>
              /\ disk'.status[p] = disk.status[p]
              /\ {b \in disk'.ballots : b.prop = p} = {b \in disk.ballots : b.prop = p}]_storeVars
  BY <1>3, StoreStep
<1>5. StoreInv /\ [StoreNext]_storeVars => StoreInv'
  BY StoreStep
<1> QED
  BY <1>1, <1>2, <1>4, <1>5, StoreInitially, PTL DEF StoreSpec, GovernedBySqlite, VerdictFinal

-----------------------------------------------------------------------------
(* What a replay of events computes. Replay is a recursive function on the
   numbers of events; there is one, and only one, by a least counterexample. *)

\* f is what Replay computes for the first n events.
Tale(f, n, events) ==
    f = [i \in 0 .. n |-> IF i = 0 THEN Empty ELSE Redo(f[i - 1], events[i])]

\* A set of numbers has a least one.
LEMMA LeastNumber ==
    ASSUME NEW S, S \subseteq Nat, S # {}
    PROVE  \E m \in S : \A k \in S : m <= k
<1> DEFINE R == OpToRel(<, Nat)
<1>1. IsWellFoundedOn(R, Nat)
  BY NatLessThanWellFounded
<1>2. \A x, y \in Nat : x < y => <<x, y>> \in R
  BY DEF OpToRel
<1> HIDE DEF R
<1>3. PICK x \in S : \A y \in S : ~(<<y, x>> \in R)
  BY <1>1, WFMin
<1>4. ASSUME NEW k \in S PROVE x <= k
  <2>1. k \in Nat /\ x \in Nat /\ ~(k < x)
    BY <1>2, <1>3
  <2> QED
    BY <2>1
<1> QED
  BY <1>4

\* A tale begins with nothing and goes on with one event at a time.
LEMMA TaleValues ==
    ASSUME NEW f, NEW n \in Nat, NEW events, Tale(f, n, events)
    PROVE  f[0] = Empty /\ \A i \in 1 .. n : f[i] = Redo(f[i - 1], events[i])
<1> DEFINE body(i) == IF i = 0 THEN Empty ELSE Redo(f[i - 1], events[i])
<1>1. f = [i \in 0 .. n |-> body(i)]
  BY DEF Tale
<1>2. body(0) = Empty /\ \A i \in 1 .. n : body(i) = Redo(f[i - 1], events[i])
  OBVIOUS
<1> HIDE DEF body
<1>3. \A i \in 0 .. n : f[i] = body(i)
  BY <1>1
<1>4. 0 \in 0 .. n /\ \A i \in 1 .. n : i \in 0 .. n
  OBVIOUS
<1> QED
  BY <1>2, <1>3, <1>4

\* Two tales of the same events agree.
LEMMA TalesAgree ==
    ASSUME NEW n \in Nat, NEW m \in Nat, NEW k \in Nat, k <= n, k <= m,
           NEW f, NEW ev, Tale(f, n, ev), NEW g, NEW fv, Tale(g, m, fv),
           \A i \in 1 .. k : ev[i] = fv[i]
    PROVE  f[k] = g[k]
<1> DEFINE D == {i \in 0 .. k : f[i] # g[i]}
<1>1. /\ f[0] = Empty /\ \A i \in 1 .. n : f[i] = Redo(f[i - 1], ev[i])
      /\ g[0] = Empty /\ \A i \in 1 .. m : g[i] = Redo(g[i - 1], fv[i])
  BY TaleValues
<1>2. ASSUME D # {} PROVE FALSE
  <2>1. D \subseteq Nat
    OBVIOUS
  <2>2. PICK i \in D : \A j \in D : i <= j
    <3> HIDE DEF D
    <3> QED
      BY <1>2, <2>1, LeastNumber
  <2>3. i \in 1 .. k /\ i \in 1 .. n /\ i \in 1 .. m /\ i - 1 \in 0 .. k /\ ~(i <= i - 1)
    BY <1>1, <2>2
  <2>4. f[i - 1] = g[i - 1]
    BY <2>2, <2>3
  <2>5. f[i] = Redo(f[i - 1], ev[i]) /\ g[i] = Redo(g[i - 1], fv[i]) /\ ev[i] = fv[i]
    BY <1>1, <2>3
  <2>6. f[i] = g[i]
    BY <2>4, <2>5
  <2> QED
    BY <2>2, <2>6
<1> QED
  BY <1>2

\* There is a tale of any events.
LEMMA TaleExists ==
    ASSUME NEW events, NEW n \in Nat
    PROVE  \E f : Tale(f, n, events)
<1> DEFINE D == {k \in Nat : ~\E f : Tale(f, k, events)}
<1>1. ASSUME D # {} PROVE FALSE
  <2>1. D \subseteq Nat
    OBVIOUS
  <2>2. PICK k \in D : \A j \in D : k <= j
    <3> HIDE DEF D
    <3> QED
      BY <1>1, <2>1, LeastNumber
  <2>3. k \in Nat /\ ~\E f : Tale(f, k, events)
    BY <2>2
  <2>4. k # 0
    <3> DEFINE f == [i \in {0} |-> Empty]
    <3>1. f = [i \in 0 .. 0 |-> IF i = 0 THEN Empty ELSE Redo(f[i - 1], events[i])]
      <4>1. 0 .. 0 = {0}
        OBVIOUS
      <4> QED
        BY <4>1
    <3>2. Tale(f, 0, events)
      BY <3>1 DEF Tale
    <3> QED
      BY <2>3, <3>2
  <2>5. k - 1 \in Nat /\ k - 1 \notin D
    BY <2>2, <2>3, <2>4
  <2>6. PICK g : Tale(g, k - 1, events)
    BY <2>5
  <2> DEFINE last == Redo(g[k - 1], events[k])
             f == [i \in 0 .. k |-> IF i = k THEN last ELSE g[i]]
  <2>7. g[0] = Empty /\ \A i \in 1 .. k - 1 : g[i] = Redo(g[i - 1], events[i])
    BY <2>5, <2>6, TaleValues
  <2>8. \A i \in 0 .. k : f[i] = IF i = k THEN last ELSE g[i]
    OBVIOUS
  <2>9. f = [i \in 0 .. k |-> f[i]]
    OBVIOUS
  <2>10. last = Redo(g[k - 1], events[k])
    OBVIOUS
  <2> HIDE DEF f, last
  <2>11. ASSUME NEW i \in 0 .. k
         PROVE  f[i] = IF i = 0 THEN Empty ELSE Redo(f[i - 1], events[i])
    <3>1. CASE i = 0
      BY <2>3, <2>4, <2>7, <2>8, <3>1
    <3>2. CASE i = k
      <4>1. k - 1 \in 0 .. k /\ k - 1 # k /\ k \in 0 .. k
        BY <2>3, <2>4
      <4>2. f[k] = last /\ f[k - 1] = g[k - 1]
        BY <2>8, <4>1
      <4> QED
        BY <2>4, <2>10, <3>2, <4>2
    <3>3. CASE i # 0 /\ i # k
      <4>1. i \in 1 .. k - 1 /\ i - 1 \in 0 .. k /\ i - 1 # k
        BY <2>3, <3>3
      <4>2. f[i] = g[i] /\ f[i - 1] = g[i - 1] /\ g[i] = Redo(g[i - 1], events[i])
        BY <2>7, <2>8, <3>3, <4>1
      <4> QED
        BY <3>3, <4>2
    <3> QED
      BY <3>1, <3>2, <3>3
  <2>12. Tale(f, k, events)
    BY <2>9, <2>11 DEF Tale
  <2> QED
    BY <2>3, <2>12
<1> QED
  BY <1>1

\* Replay is the end of a tale.
LEMMA ReplayIs ==
    ASSUME NEW events, Len(events) \in Nat, NEW f, Tale(f, Len(events), events)
    PROVE  Replay(events) = f[Len(events)]
<1> DEFINE told == CHOOSE g : g = [i \in 0 .. Len(events) |->
                                       IF i = 0 THEN Empty ELSE Redo(g[i - 1], events[i])]
<1>1. Replay(events) = told[Len(events)]
  BY DEF Replay
<1>2. told = CHOOSE g : Tale(g, Len(events), events)
  BY DEF Tale
<1> HIDE DEF told
<1>3. Tale(told, Len(events), events)
  BY <1>2
<1>4. told[Len(events)] = f[Len(events)]
  BY <1>3, TalesAgree
<1> QED
  BY <1>1, <1>4

\* No events tell of an empty database.
LEMMA ReplayNothing == Replay(<<>>) = Empty
<1>1. PICK f : Tale(f, 0, <<>>)
  BY TaleExists
<1>2. f[0] = Empty
  BY <1>1, TaleValues
<1>3. Len(<<>>) = 0
  OBVIOUS
<1> QED
  BY <1>1, <1>2, <1>3, ReplayIs

\* The next event is done to what the events before it tell of.
LEMMA ReplayNext ==
    ASSUME NEW S, NEW events \in Seq(S), NEW e \in S
    PROVE  Replay(Append(events, e)) = Redo(Replay(events), e)
<1> DEFINE n == Len(events)
           more == Append(events, e)
<1>1. /\ n \in Nat /\ Len(more) = n + 1 /\ more[n + 1] = e
      /\ \A i \in 1 .. n : more[i] = events[i]
  BY AppendProperties
<1> HIDE DEF more
<1>2. PICK f : Tale(f, n, events)
  BY <1>1, TaleExists
<1>3. PICK g : Tale(g, n + 1, more)
  BY <1>1, TaleExists
<1>4. f[n] = g[n]
  BY <1>1, <1>2, <1>3, TalesAgree
<1>5. g[n + 1] = Redo(g[n], e)
  <2>1. n + 1 \in Nat /\ n + 1 \in 1 .. n + 1 /\ (n + 1) - 1 = n
    BY <1>1
  <2>2. \A i \in 1 .. n + 1 : g[i] = Redo(g[i - 1], more[i])
    BY <1>3, <2>1, TaleValues
  <2> QED
    BY <1>1, <2>1, <2>2
<1>6. Replay(events) = f[n]
  BY <1>1, <1>2, ReplayIs
<1>7. Replay(more) = g[n + 1]
  <2>1. Len(more) \in Nat /\ Tale(g, Len(more), more)
    BY <1>1, <1>3
  <2> QED
    BY <1>1, <2>1, ReplayIs
<1> QED
  BY <1>4, <1>5, <1>6, <1>7 DEF more

-----------------------------------------------------------------------------
(* What the events tell of a database, and rows written to both. *)

\* The reputation of an agent.
Rep == [done : Nat, failed : Nat, ratings : Seq(Nat)]

\* d has the tables of a database, whatever is in them.
IsDb(d) ==
    d = [nodes |-> d.nodes, edges |-> d.edges, status |-> d.status,
         ballots |-> d.ballots, reps |-> d.reps, events |-> d.events]

\* The rows of tables that a statement of an operation writes.
RowTables == {"nodes", "edges", "incident", "proposals", "unvote", "votes"}

\* What events tell of a database: all but how the reputations came about.
Agree(told, d) ==
    /\ IsDb(told) /\ told.reps = [a \in Agents |-> told.reps[a]]
    /\ told.nodes = d.nodes /\ told.edges = d.edges
    /\ told.status = d.status /\ told.ballots = d.ballots
    /\ \A a \in Agents : told.reps[a] = IF d.reps[a] = Null THEN Null
                                        ELSE compute_reputation(d.reps[a])

\* A row is written to its own table and changes no event and no reputation.
LEMMA RowApply ==
    ASSUME NEW d, IsDb(d), NEW s, s.table \in RowTables
    PROVE  LET e == Apply(d, s) IN
           /\ IsDb(e) /\ e.events = d.events /\ e.reps = d.reps
           /\ e.nodes = IF s.table = "nodes" THEN [d.nodes EXCEPT ![s.id] = s.to] ELSE d.nodes
           /\ e.edges = IF s.table = "edges" THEN [d.edges EXCEPT ![s.id] = s.to]
                        ELSE IF s.table = "incident"
                             THEN [i \in Edges |-> IF i \in Incident(d, s.id) THEN Null ELSE d.edges[i]]
                        ELSE d.edges
           /\ e.status = IF s.table = "proposals" THEN [d.status EXCEPT ![s.id] = s.to] ELSE d.status
           /\ e.ballots = IF s.table = "unvote" THEN {b \in d.ballots : b.prop # s.id \/ b.voter # s.to}
                          ELSE IF s.table = "votes" THEN d.ballots \cup {s.to} ELSE d.ballots
<1>1. CASE s.table = "nodes"
  BY <1>1 DEF Apply, IsDb
<1>2. CASE s.table = "edges"
  BY <1>2 DEF Apply, IsDb
<1>3. CASE s.table = "incident"
  <2> DEFINE E == [i \in Edges |-> IF i \in Incident(d, s.id) THEN Null ELSE d.edges[i]]
  <2>1. Apply(d, s) = [d EXCEPT !.edges = E]
    BY <1>3 DEF Apply, IsDb
  <2> HIDE DEF E
  <2>2. LET e == Apply(d, s) IN
        /\ IsDb(e) /\ e.events = d.events /\ e.reps = d.reps /\ e.nodes = d.nodes
        /\ e.edges = E /\ e.status = d.status /\ e.ballots = d.ballots
    BY <2>1 DEF IsDb
  <2> QED
    BY <1>3, <2>2 DEF E
<1>4. CASE s.table = "proposals"
  BY <1>4 DEF Apply, IsDb
<1>5. CASE s.table = "unvote"
  <2> DEFINE B == {b \in d.ballots : b.prop # s.id \/ b.voter # s.to}
  <2>1. Apply(d, s) = [d EXCEPT !.ballots = B]
    BY <1>5 DEF Apply, IsDb
  <2> HIDE DEF B
  <2>2. LET e == Apply(d, s) IN
        /\ IsDb(e) /\ e.events = d.events /\ e.reps = d.reps /\ e.nodes = d.nodes
        /\ e.edges = d.edges /\ e.status = d.status /\ e.ballots = B
    BY <2>1 DEF IsDb
  <2> QED
    BY <1>5, <2>2 DEF B
<1>6. CASE s.table = "votes"
  BY <1>6 DEF Apply, IsDb
<1> QED
  BY <1>1, <1>2, <1>3, <1>4, <1>5, <1>6 DEF RowTables

\* A row is written to what was told as to the database.
LEMMA AgreeApply ==
    ASSUME NEW told, NEW d, Agree(told, d), IsDb(d), NEW s, s.table \in RowTables
    PROVE  Agree(Apply(told, s), Apply(d, s))
<1> DEFINE u == Apply(told, s)
           e == Apply(d, s)
<1>1. Incident(told, s.id) = Incident(d, s.id)
  BY DEF Incident, Agree
<1>2. IsDb(told)
  BY DEF Agree
<1>3. /\ IsDb(u) /\ u.reps = told.reps
      /\ u.nodes = IF s.table = "nodes" THEN [told.nodes EXCEPT ![s.id] = s.to] ELSE told.nodes
      /\ u.edges = IF s.table = "edges" THEN [told.edges EXCEPT ![s.id] = s.to]
                   ELSE IF s.table = "incident"
                        THEN [i \in Edges |-> IF i \in Incident(d, s.id) THEN Null ELSE told.edges[i]]
                   ELSE told.edges
      /\ u.status = IF s.table = "proposals" THEN [told.status EXCEPT ![s.id] = s.to] ELSE told.status
      /\ u.ballots = IF s.table = "unvote" THEN {b \in told.ballots : b.prop # s.id \/ b.voter # s.to}
                     ELSE IF s.table = "votes" THEN told.ballots \cup {s.to} ELSE told.ballots
  BY <1>1, <1>2, RowApply
<1>4. /\ IsDb(e) /\ e.reps = d.reps
      /\ e.nodes = IF s.table = "nodes" THEN [d.nodes EXCEPT ![s.id] = s.to] ELSE d.nodes
      /\ e.edges = IF s.table = "edges" THEN [d.edges EXCEPT ![s.id] = s.to]
                   ELSE IF s.table = "incident"
                        THEN [i \in Edges |-> IF i \in Incident(d, s.id) THEN Null ELSE d.edges[i]]
                   ELSE d.edges
      /\ e.status = IF s.table = "proposals" THEN [d.status EXCEPT ![s.id] = s.to] ELSE d.status
      /\ e.ballots = IF s.table = "unvote" THEN {b \in d.ballots : b.prop # s.id \/ b.voter # s.to}
                     ELSE IF s.table = "votes" THEN d.ballots \cup {s.to} ELSE d.ballots
  BY RowApply
<1>5. /\ told.nodes = d.nodes /\ told.edges = d.edges
      /\ told.status = d.status /\ told.ballots = d.ballots
  BY DEF Agree
<1>6. u.nodes = e.nodes /\ u.edges = e.edges /\ u.status = e.status /\ u.ballots = e.ballots
  BY <1>3, <1>4, <1>5
<1> HIDE DEF u, e
<1>7. Agree(u, e)
  BY <1>3, <1>4, <1>6 DEF Agree
<1> QED
  BY <1>7 DEF u, e

\* The reputations and the events of a database are what they should be.
RepsOk(d) == d.reps \in [Agents -> Rep \cup {Null}]
EventsOk(d) == \E S : d.events \in Seq(S)

\* A new score is told as it is computed.
LEMMA AgreeReputation ==
    ASSUME NEW told, NEW d, Agree(told, d), IsDb(d), RepsOk(d), NEW a \in Agents, NEW new \in Rep
    PROVE  LET e == Apply(d, Stmt("reputations", a, new)) IN
           /\ Agree(Apply(told, Stmt("reputations", a, compute_reputation(new))), e)
           /\ IsDb(e) /\ RepsOk(e) /\ e.events = d.events
<1> DEFINE score == compute_reputation(new)
           u == Apply(told, Stmt("reputations", a, score))
           e == Apply(d, Stmt("reputations", a, new))
<1>1. new # Null
  BY StoreAssumption DEF Rep
<1>2. u = [told EXCEPT !.reps[a] = score] /\ e = [d EXCEPT !.reps[a] = new]
  BY DEF Apply, Stmt
<1> HIDE DEF u, e, score
<1>3. /\ IsDb(u) /\ u.nodes = told.nodes /\ u.edges = told.edges /\ u.status = told.status
      /\ u.ballots = told.ballots /\ u.reps = [told.reps EXCEPT ![a] = score]
  <2>1. IsDb(told)
    BY DEF Agree
  <2> QED
    BY <1>2, <2>1 DEF IsDb
<1>4. /\ IsDb(e) /\ e.nodes = d.nodes /\ e.edges = d.edges /\ e.status = d.status
      /\ e.ballots = d.ballots /\ e.reps = [d.reps EXCEPT ![a] = new] /\ e.events = d.events
  BY <1>2 DEF IsDb
<1>5. /\ told.nodes = d.nodes /\ told.edges = d.edges
      /\ told.status = d.status /\ told.ballots = d.ballots
      /\ told.reps = [x \in Agents |-> told.reps[x]]
      /\ \A x \in Agents : told.reps[x] = IF d.reps[x] = Null THEN Null
                                          ELSE compute_reputation(d.reps[x])
  BY DEF Agree
<1>6. e.reps \in [Agents -> Rep \cup {Null}] /\ e.reps[a] = new
      /\ \A x \in Agents : x # a => e.reps[x] = d.reps[x]
  BY <1>4 DEF RepsOk
<1>7. /\ u.reps = [x \in Agents |-> u.reps[x]] /\ u.reps[a] = score
      /\ \A x \in Agents : x # a => u.reps[x] = told.reps[x]
  BY <1>3, <1>5
<1>8. \A x \in Agents : u.reps[x] = IF e.reps[x] = Null THEN Null ELSE compute_reputation(e.reps[x])
  <2> TAKE x \in Agents
  <2>1. CASE x = a
    BY <1>1, <1>6, <1>7, <2>1 DEF score
  <2>2. CASE x # a
    BY <1>5, <1>6, <1>7, <2>2
  <2> QED
    BY <2>1, <2>2
<1>9. Agree(u, e)
  BY <1>3, <1>4, <1>5, <1>7, <1>8 DEF Agree
<1> QED
  BY <1>4, <1>6, <1>9 DEF u, e, score, RepsOk

-----------------------------------------------------------------------------
(* The rows and the event of a script, statement by statement. *)

\* An event of the log.
Told(type, id, payload) == [type |-> type, id |-> id, payload |-> payload]

\* A statement that writes a row.
RowOk(s) ==
    s.table \in RowTables \/ (s.table = "reputations" /\ s.id \in Agents /\ s.to \in Rep)

\* The rows that a script has still to write into d, then its event, make d agree with its
\* events.
Story(s, d) ==
    LET told == Replay(d.events)
    IN  /\ Len(s) \in 1 .. 4
        /\ Len(s) = 1 => Agree(told, d)
        /\ Len(s) = 2 => s[1].table = "events" /\ Agree(Redo(told, s[1].to), d)
        /\ Len(s) = 3 => /\ RowOk(s[1]) /\ s[2].table = "events"
                         /\ Agree(Redo(told, s[2].to), Apply(d, s[1]))
        /\ Len(s) = 4 => /\ RowOk(s[1]) /\ RowOk(s[2]) /\ s[3].table = "events"
                         /\ Agree(Redo(told, s[3].to), Apply(Apply(d, s[1]), s[2]))

\* A database of a story.
StoryDb(d) == IsDb(d) /\ RepsOk(d) /\ EventsOk(d)

\* A row changes no events.
LEMMA RowKeeps ==
    ASSUME NEW d, StoryDb(d), NEW s, RowOk(s)
    PROVE  StoryDb(Apply(d, s)) /\ Apply(d, s).events = d.events
<1>1. CASE s.table \in RowTables
  <2>1. LET e == Apply(d, s) IN IsDb(e) /\ e.events = d.events /\ e.reps = d.reps
    BY <1>1, RowApply DEF StoryDb
  <2> QED
    BY <2>1 DEF StoryDb, RepsOk, EventsOk
<1>2. CASE s.table = "reputations" /\ s.id \in Agents /\ s.to \in Rep
  <2>1. Apply(d, s) = [d EXCEPT !.reps[s.id] = s.to]
    BY <1>2 DEF Apply
  <2> DEFINE e == Apply(d, s)
  <2> HIDE DEF e
  <2>2. e = [d EXCEPT !.reps[s.id] = s.to]
    BY <2>1 DEF e
  <2>3. IsDb(e) /\ e.events = d.events /\ e.reps = [d.reps EXCEPT ![s.id] = s.to]
    BY <2>2 DEF StoryDb, IsDb
  <2>4. RepsOk(e)
    BY <1>2, <2>3 DEF StoryDb, RepsOk
  <2> QED
    BY <2>3, <2>4 DEF StoryDb, EventsOk, e
<1> QED
  BY <1>1, <1>2 DEF RowOk

\* An event is put at the end of the log, and told after what was told before.
LEMMA EventKeeps ==
    ASSUME NEW d, StoryDb(d), NEW s, s.table = "events"
    PROVE  LET e == Apply(d, s) IN
           /\ StoryDb(e) /\ Replay(e.events) = Redo(Replay(d.events), s.to)
           /\ \A told : Agree(told, d) => Agree(told, e)
<1> DEFINE e == Apply(d, s)
<1>1. e = [d EXCEPT !.events = Append(@, s.to)]
  BY DEF Apply
<1> HIDE DEF e
<1>2. /\ IsDb(e) /\ e.events = Append(d.events, s.to) /\ e.nodes = d.nodes /\ e.edges = d.edges
      /\ e.status = d.status /\ e.ballots = d.ballots /\ e.reps = d.reps
  BY <1>1 DEF StoryDb, IsDb
<1>3. PICK S : d.events \in Seq(S)
  BY DEF StoryDb, EventsOk
<1>4. S \subseteq S \cup {s.to} /\ s.to \in S \cup {s.to}
  OBVIOUS
<1>5. d.events \in Seq(S \cup {s.to})
  BY <1>3, <1>4
<1>6. Replay(Append(d.events, s.to)) = Redo(Replay(d.events), s.to)
  BY <1>4, <1>5, ReplayNext
<1>7. Append(d.events, s.to) \in Seq(S \cup {s.to})
  BY <1>4, <1>5
<1>8. StoryDb(e)
  BY <1>2, <1>7 DEF StoryDb, RepsOk, EventsOk
<1>9. \A told : Agree(told, d) => Agree(told, e)
  BY <1>2 DEF Agree
<1> QED
  BY <1>2, <1>6, <1>8, <1>9 DEF e

\* A story goes on with the next statement, and at the commit it has come out right.
LEMMA StoryRest ==
    ASSUME NEW s, NEW d, Story(s, d), \E S : s \in Seq(S), s # <<>>, StoryDb(d),
           Head(s).table = "commit" <=> Tail(s) = <<>>
    PROVE  LET e == Apply(d, Head(s)) IN
           /\ StoryDb(e)
           /\ Tail(s) = <<>> => e = d /\ Agree(Replay(d.events), d)
           /\ Tail(s) # <<>> => Story(Tail(s), e)
<1> DEFINE x == Head(s)
           e == Apply(d, x)
           r == Tail(s)
<1>1. /\ (\E S : r \in Seq(S)) /\ Len(s) \in Nat /\ Len(s) >= 1 /\ x = s[1]
      /\ Len(r) = Len(s) - 1
      /\ \A i \in 1 .. Len(s) - 1 : i + 1 \in 1 .. Len(s) /\ r[i] = s[i + 1]
  BY TailFacts
<1>4. x.table = "commit" <=> r = <<>>
  OBVIOUS
<1> HIDE DEF x, r
<1>2. r = <<>> <=> Len(s) = 1
  <2>1. PICK S : r \in Seq(S)
    BY <1>1
  <2>2. r = <<>> <=> Len(r) = 0
    BY <2>1
  <2> QED
    BY <1>1, <2>2
<1>3. Len(s) \in 1 .. 4
  BY DEF Story
<1>5. CASE Len(s) = 1
  <2>1. e = d
    BY <1>2, <1>4, <1>5 DEF Apply
  <2>2. Agree(Replay(d.events), d)
    BY <1>5 DEF Story
  <2> HIDE DEF e
  <2> QED
    BY <1>2, <1>5, <2>1, <2>2 DEF e, x, r
<1>6. CASE Len(s) = 2
  <2>1. x.table = "events" /\ Agree(Redo(Replay(d.events), x.to), d)
    BY <1>1, <1>6 DEF Story
  <2>2. StoryDb(e) /\ Agree(Replay(e.events), e)
    BY <2>1, EventKeeps
  <2>3. Len(r) = 1 /\ r # <<>>
    BY <1>1, <1>2, <1>6
  <2> HIDE DEF e
  <2>4. Story(r, e)
    BY <2>2, <2>3 DEF Story
  <2> QED
    BY <2>2, <2>3, <2>4 DEF e, x, r
<1>7. CASE Len(s) = 3
  <2>1. /\ RowOk(x) /\ s[2].table = "events"
        /\ Agree(Redo(Replay(d.events), s[2].to), e)
    BY <1>1, <1>7 DEF Story
  <2>2. StoryDb(e) /\ e.events = d.events
    BY <2>1, RowKeeps
  <2>3. Len(r) = 2 /\ r # <<>> /\ r[1] = s[2]
    BY <1>1, <1>2, <1>7
  <2> HIDE DEF e
  <2>4. Story(r, e)
    BY <2>1, <2>2, <2>3 DEF Story
  <2> QED
    BY <2>2, <2>3, <2>4 DEF e, x, r
<1>8. CASE Len(s) = 4
  <2>1. /\ RowOk(x) /\ RowOk(s[2]) /\ s[3].table = "events"
        /\ Agree(Redo(Replay(d.events), s[3].to), Apply(e, s[2]))
    BY <1>1, <1>8 DEF Story
  <2>2. StoryDb(e) /\ e.events = d.events
    BY <2>1, RowKeeps
  <2>3. Len(r) = 3 /\ r # <<>> /\ r[1] = s[2] /\ r[2] = s[3]
    BY <1>1, <1>2, <1>8
  <2> HIDE DEF e
  <2>4. Story(r, e)
    BY <2>1, <2>2, <2>3 DEF Story
  <2> QED
    BY <2>2, <2>3, <2>4 DEF e, x, r
<1> QED
  BY <1>3, <1>5, <1>6, <1>7, <1>8

-----------------------------------------------------------------------------
(* The story of a script.                                                  *)

\* A script with one row, and its event.
LEMMA RowStory ==
    ASSUME NEW d, NEW a, RowOk(a), NEW type, NEW id, NEW payload,
           Agree(Redo(Replay(d.events), Told(type, id, payload)), Apply(d, a))
    PROVE  Story(Append(<<a, Event(type, id, payload)>>, Stmt("commit", Null, Null)), d)
<1> DEFINE e == Event(type, id, payload)
           c == Stmt("commit", Null, Null)
           r == <<a, e>>
           s == Append(r, c)
<1>0. r = <<a, e>>
  OBVIOUS
<1>1. e.table = "events" /\ e.to = Told(type, id, payload)
  BY DEF Event, Stmt, Told
<1> HIDE DEF e, c, r
<1>2. Len(s) = 3 /\ s[1] = a /\ s[2] = e
  BY <1>0, AppendTwo
<1> HIDE DEF s
<1>3. Story(s, d)
  BY <1>1, <1>2 DEF Story
<1> QED
  BY <1>3 DEF s, r, e, c

\* A script with two rows, and their event.
LEMMA RowsStory ==
    ASSUME NEW d, NEW a, RowOk(a), NEW b, RowOk(b), NEW type, NEW id, NEW payload,
           Agree(Redo(Replay(d.events), Told(type, id, payload)), Apply(Apply(d, a), b))
    PROVE  Story(Append(<<a, b, Event(type, id, payload)>>, Stmt("commit", Null, Null)), d)
<1> DEFINE e == Event(type, id, payload)
           c == Stmt("commit", Null, Null)
           r == <<a, b, e>>
           s == Append(r, c)
<1>0. r = <<a, b, e>>
  OBVIOUS
<1>1. e.table = "events" /\ e.to = Told(type, id, payload)
  BY DEF Event, Stmt, Told
<1> HIDE DEF e, c, r
<1>2. Len(s) = 4 /\ s[1] = a /\ s[2] = b /\ s[3] = e
  BY <1>0, AppendThree
<1> HIDE DEF s
<1>3. Story(s, d)
  BY <1>1, <1>2 DEF Story
<1> QED
  BY <1>3 DEF s, r, e, c

\* What the events of the log make a reader do.
LEMMA RedoFacts ==
    ASSUME NEW d, NEW id, NEW payload
    PROVE  /\ Redo(d, Told("node_created", id, payload)) = Apply(d, Stmt("nodes", id, payload))
           /\ Redo(d, Told("node_updated", id, payload)) = Apply(d, Stmt("nodes", id, payload))
           /\ Redo(d, Told("node_deleted", id, payload)) =
                  Apply(Apply(d, Stmt("incident", id, Null)), Stmt("nodes", id, Null))
           /\ Redo(d, Told("edge_added", id, payload)) = Apply(d, Stmt("edges", id, payload))
           /\ Redo(d, Told("edge_removed", id, payload)) = Apply(d, Stmt("edges", id, payload))
           /\ Redo(d, Told("proposal_submitted", id, payload)) =
                  Apply(d, Stmt("proposals", id, "open"))
           /\ Redo(d, Told("proposal_resolved", id, payload)) =
                  Apply(d, Stmt("proposals", id, payload))
           /\ Redo(d, Told("vote_cast", id, payload)) =
                  Apply(Apply(d, Stmt("unvote", id, payload.voter)), Stmt("votes", id, payload))
           /\ Redo(d, Told("reputation_updated", id, payload)) =
                  Apply(d, Stmt("reputations", id, payload))
<1> DEFINE e(type) == Told(type, id, payload)
<1>1. \A type : e(type).type = type /\ e(type).id = id /\ e(type).payload = payload
  BY DEF Told
<1> HIDE DEF e
<1>2. Redo(d, e("node_created")) = Apply(d, Stmt("nodes", id, payload))
      /\ Redo(d, e("node_updated")) = Apply(d, Stmt("nodes", id, payload))
  BY <1>1 DEF Redo
<1>3. Redo(d, e("node_deleted")) =
          Apply(Apply(d, Stmt("incident", id, Null)), Stmt("nodes", id, Null))
  BY <1>1 DEF Redo
<1>4. Redo(d, e("edge_added")) = Apply(d, Stmt("edges", id, payload))
      /\ Redo(d, e("edge_removed")) = Apply(d, Stmt("edges", id, payload))
  BY <1>1 DEF Redo
<1>5. Redo(d, e("proposal_submitted")) = Apply(d, Stmt("proposals", id, "open"))
      /\ Redo(d, e("proposal_resolved")) = Apply(d, Stmt("proposals", id, payload))
  BY <1>1 DEF Redo
<1>6. Redo(d, e("vote_cast")) =
          Apply(Apply(d, Stmt("unvote", id, payload.voter)), Stmt("votes", id, payload))
  BY <1>1 DEF Redo
<1>7. Redo(d, e("reputation_updated")) = Apply(d, Stmt("reputations", id, payload))
  BY <1>1 DEF Redo
<1> QED
  BY <1>2, <1>3, <1>4, <1>5, <1>6, <1>7 DEF e

-----------------------------------------------------------------------------
(* The script of every operation tells what it writes. *)

\* The arguments of a reputation update.
ScoreOk(o) ==
    o.op = "reputation" => o.id \in Agents /\ o.arg.rating \in Seq(Nat)

\* An operation that writes one row which its event tells of.
LEMMA RowScriptStory ==
    ASSUME NEW o, NEW a, a.table \in RowTables, NEW type, NEW id, NEW payload,
           Writes(o) = <<a, Event(type, id, payload)>>,
           \A d : Redo(d, Told(type, id, payload)) = Apply(d, a),
           StoryDb(work), Agree(Replay(work.events), work)
    PROVE  Story(Script(o), work)
<1>1. Redo(Replay(work.events), Told(type, id, payload)) = Apply(Replay(work.events), a)
  OBVIOUS
<1>2. Agree(Apply(Replay(work.events), a), Apply(work, a))
  BY AgreeApply DEF StoryDb
<1>3. RowOk(a)
  BY DEF RowOk
<1>4. Agree(Redo(Replay(work.events), Told(type, id, payload)), Apply(work, a))
  BY <1>1, <1>2
<1>5. Story(Append(<<a, Event(type, id, payload)>>, Stmt("commit", Null, Null)), work)
  BY <1>3, <1>4, RowStory
<1>6. Writes(o) # <<>>
  OBVIOUS
<1> QED
  BY <1>5, <1>6 DEF Script

\* An operation that writes two rows which its event tells of.
LEMMA RowsScriptStory ==
    ASSUME NEW o, NEW a, a.table \in RowTables, NEW b, b.table \in RowTables,
           NEW type, NEW id, NEW payload,
           Writes(o) = <<a, b, Event(type, id, payload)>>,
           \A d : Redo(d, Told(type, id, payload)) = Apply(Apply(d, a), b),
           StoryDb(work), Agree(Replay(work.events), work)
    PROVE  Story(Script(o), work)
<1> DEFINE told == Replay(work.events)
<1>1. Redo(told, Told(type, id, payload)) = Apply(Apply(told, a), b)
  OBVIOUS
<1>2. Agree(Apply(told, a), Apply(work, a))
  BY AgreeApply DEF StoryDb
<1>3. RowOk(a) /\ RowOk(b)
  BY DEF RowOk
<1>4. IsDb(Apply(work, a))
  BY <1>3, RowKeeps DEF StoryDb
<1>5. Agree(Apply(Apply(told, a), b), Apply(Apply(work, a), b))
  BY <1>2, <1>4, AgreeApply
<1>6. Agree(Redo(told, Told(type, id, payload)), Apply(Apply(work, a), b))
  BY <1>1, <1>5
<1>7. Story(Append(<<a, b, Event(type, id, payload)>>, Stmt("commit", Null, Null)), work)
  BY <1>3, <1>6, RowsStory
<1>8. Writes(o) # <<>>
  OBVIOUS
<1> QED
  BY <1>7, <1>8 DEF Script

\* The last ratings are ratings.
LEMMA LastNumbers ==
    ASSUME NEW s \in Seq(Nat), NEW n \in Nat
    PROVE  LastOf(s, n) \in Seq(Nat)
<1>1. CASE Len(s) <= n
  BY <1>1 DEF LastOf
<1>2. CASE ~(Len(s) <= n)
  <2>1. Len(s) \in Nat /\ Len(s) - n + 1 \in 1 .. Len(s) + 1
    BY <1>2
  <2>2. SubSeq(s, Len(s) - n + 1, Len(s)) \in Seq(Nat)
    BY <2>1
  <2> QED
    BY <1>2, <2>2 DEF LastOf
<1> QED
  BY <1>1, <1>2

\* The event of a reputation tells the score that is computed from the row.
LEMMA ScoreStory ==
    ASSUME NEW o, o.op = "reputation", ScoreOk(o), StoryDb(work),
           Agree(Replay(work.events), work)
    PROVE  Story(Script(o), work)
<1> DEFINE r == IF work.reps[o.id] = Null THEN NewRep ELSE work.reps[o.id]
           new == [done |-> r.done + IF o.arg.success THEN 1 ELSE 0,
                   failed |-> r.failed + IF o.arg.success THEN 0 ELSE 1,
                   ratings |-> LastOf(r.ratings \o o.arg.rating, Kept)]
           a == Stmt("reputations", o.id, new)
<1>1. o.id \in Agents /\ o.arg.rating \in Seq(Nat)
  BY DEF ScoreOk
<1>2. NewRep \in Rep
  BY DEF NewRep, Rep
<1>3. r \in Rep
  <2>1. work.reps[o.id] \in Rep \cup {Null}
    BY <1>1 DEF StoryDb, RepsOk
  <2> QED
    BY <1>2, <2>1
<1>4. Writes(o) = <<a, Event("reputation_updated", o.id, compute_reputation(new))>>
  BY DEF Writes, UpdateReputation
<1> HIDE DEF r
<1>5. r.done \in Nat /\ r.failed \in Nat /\ r.ratings \in Seq(Nat)
  BY <1>3 DEF Rep
<1>6. r.ratings \o o.arg.rating \in Seq(Nat)
  BY <1>1, <1>5
<1>7. LastOf(r.ratings \o o.arg.rating, Kept) \in Seq(Nat)
  BY <1>6, LastNumbers, StoreAssumption
<1>8. new \in Rep
  <2>1. r.done + (IF o.arg.success THEN 1 ELSE 0) \in Nat
        /\ r.failed + (IF o.arg.success THEN 0 ELSE 1) \in Nat
    BY <1>5
  <2> QED
    BY <1>7, <2>1 DEF Rep
<1> HIDE DEF new
<1>9. a.table = "reputations" /\ a.id = o.id /\ a.to = new
  BY DEF Stmt
<1>10. Agree(Apply(Replay(work.events), Stmt("reputations", o.id, compute_reputation(new))),
             Apply(work, a))
  BY <1>1, <1>8, AgreeReputation DEF StoryDb
<1> HIDE DEF a
<1>11. RowOk(a)
  BY <1>1, <1>8, <1>9 DEF RowOk
<1>12. Agree(Redo(Replay(work.events), Told("reputation_updated", o.id, compute_reputation(new))),
             Apply(work, a))
  BY <1>10, RedoFacts
<1>13. Story(Append(<<a, Event("reputation_updated", o.id, compute_reputation(new))>>,
                    Stmt("commit", Null, Null)), work)
  BY <1>11, <1>12, RowStory
<1>14. Writes(o) # <<>>
  BY <1>4
<1> QED
  BY <1>4, <1>13, <1>14 DEF Script

\* What an operation writes is told by its event.
LEMMA StoryBegins ==
    ASSUME NEW o, OpOk(o), ScoreOk(o), o.op # "status", StoryDb(work),
           Agree(Replay(work.events), work)
    PROVE  Script(o) = <<>> \/ Story(Script(o), work)
<1>0. CASE Writes(o) = <<>>
  BY <1>0 DEF Script
<1>1. CASE o.op = "create_node"
  <2> DEFINE a == Stmt("nodes", o.id, o.arg)
  <2>1. a.table \in RowTables
    BY DEF Stmt, RowTables
  <2>2. Writes(o) = <<a, Event("node_created", o.id, o.arg)>>
    BY <1>1 DEF Writes, CreateNode
  <2>3. \A d : Redo(d, Told("node_created", o.id, o.arg)) = Apply(d, a)
    BY RedoFacts
  <2> HIDE DEF a
  <2> QED
    BY <2>1, <2>2, <2>3, RowScriptStory
<1>2. CASE o.op = "update_node" /\ Writes(o) # <<>>
  <2> DEFINE a == Stmt("nodes", o.id, o.arg)
  <2>1. a.table \in RowTables
    BY DEF Stmt, RowTables
  <2>2. Writes(o) = <<a, Event("node_updated", o.id, o.arg)>>
    BY <1>2 DEF Writes, UpdateNode
  <2>3. \A d : Redo(d, Told("node_updated", o.id, o.arg)) = Apply(d, a)
    BY RedoFacts
  <2> HIDE DEF a
  <2> QED
    BY <2>1, <2>2, <2>3, RowScriptStory
<1>3. CASE o.op = "delete_node" /\ Writes(o) # <<>>
  <2> DEFINE a == Stmt("incident", o.id, Null)
             b == Stmt("nodes", o.id, Null)
  <2>1. a.table \in RowTables /\ b.table \in RowTables
    BY DEF Stmt, RowTables
  <2>2. Writes(o) = <<a, b, Event("node_deleted", o.id, Null)>>
    BY <1>3 DEF Writes, DeleteNode
  <2>3. \A d : Redo(d, Told("node_deleted", o.id, Null)) = Apply(Apply(d, a), b)
    BY RedoFacts
  <2> HIDE DEF a, b
  <2> QED
    BY <2>1, <2>2, <2>3, RowsScriptStory
<1>4. CASE o.op = "add_edge" /\ Writes(o) # <<>>
  <2> DEFINE a == Stmt("edges", o.id, o.arg)
  <2>1. a.table \in RowTables
    BY DEF Stmt, RowTables
  <2>2. Writes(o) = <<a, Event("edge_added", o.id, o.arg)>>
    BY <1>4 DEF Writes, AddEdge
  <2>3. \A d : Redo(d, Told("edge_added", o.id, o.arg)) = Apply(d, a)
    BY RedoFacts
  <2> HIDE DEF a
  <2> QED
    BY <2>1, <2>2, <2>3, RowScriptStory
<1>5. CASE o.op = "remove_edge" /\ Writes(o) # <<>>
  <2> DEFINE a == Stmt("edges", o.id, Null)
  <2>1. a.table \in RowTables
    BY DEF Stmt, RowTables
  <2>2. Writes(o) = <<a, Event("edge_removed", o.id, Null)>>
    BY <1>5 DEF Writes, RemoveEdge
  <2>3. \A d : Redo(d, Told("edge_removed", o.id, Null)) = Apply(d, a)
    BY RedoFacts
  <2> HIDE DEF a
  <2> QED
    BY <2>1, <2>2, <2>3, RowScriptStory
<1>6. CASE o.op = "submit"
  <2> DEFINE a == Stmt("proposals", o.id, "open")
  <2>1. a.table \in RowTables
    BY DEF Stmt, RowTables
  <2>2. Writes(o) = <<a, Event("proposal_submitted", o.id, Null)>>
    BY <1>6 DEF Writes, Submit
  <2>3. \A d : Redo(d, Told("proposal_submitted", o.id, Null)) = Apply(d, a)
    BY RedoFacts
  <2> HIDE DEF a
  <2> QED
    BY <2>1, <2>2, <2>3, RowScriptStory
<1>7. ASSUME NEW to, Writes(o) = Resolve(o.id, to) PROVE Story(Script(o), work)
  <2> DEFINE a == Stmt("proposals", o.id, to)
  <2>1. a.table \in RowTables
    BY DEF Stmt, RowTables
  <2>2. Writes(o) = <<a, Event("proposal_resolved", o.id, to)>>
    BY <1>7 DEF Resolve
  <2>3. \A d : Redo(d, Told("proposal_resolved", o.id, to)) = Apply(d, a)
    BY RedoFacts
  <2> HIDE DEF a
  <2> QED
    BY <2>1, <2>2, <2>3, RowScriptStory
<1>8. CASE o.op = "vote" /\ Writes(o) # <<>>
  <2>1. work.status[o.id] = "open"
    BY <1>8 DEF Writes, Vote
  <2>2. CASE o.id \in late
    <3>1. Writes(o) = Resolve(o.id, "expired")
      BY <1>8, <2>1, <2>2 DEF Writes, Vote
    <3> QED
      BY <1>7, <3>1
  <2>3. CASE o.id \notin late
    <3> DEFINE b == [prop |-> o.id, voter |-> o.arg.voter, decision |-> o.arg.decision,
                     weight |-> WeightOf(o.arg.voter)]
               u == Stmt("unvote", o.id, o.arg.voter)
               v == Stmt("votes", o.id, b)
    <3>1. Writes(o) = <<u, v, Event("vote_cast", o.id, b)>>
      BY <1>8, <2>1, <2>3 DEF Writes, Vote
    <3>2. b.voter = o.arg.voter
      OBVIOUS
    <3> HIDE DEF b
    <3>3. u.table \in RowTables /\ v.table \in RowTables
      BY DEF Stmt, RowTables
    <3>4. \A d : Redo(d, Told("vote_cast", o.id, b)) = Apply(Apply(d, u), v)
      BY <3>2, RedoFacts
    <3> HIDE DEF u, v
    <3> QED
      BY <3>1, <3>3, <3>4, RowsScriptStory
  <2> QED
    BY <2>2, <2>3
<1>9. CASE o.op \in {"quorum", "check"} /\ Writes(o) # <<>>
  <2>1. PICK to : Check(o) = IF work.status[o.id] # "open" \/ to = "open" THEN <<>>
                             ELSE Resolve(o.id, to)
    BY DEF Check
  <2>2. Writes(o) = Check(o)
    BY <1>9 DEF Writes
  <2>3. Writes(o) = Resolve(o.id, to)
    BY <1>9, <2>1, <2>2
  <2> QED
    BY <1>7, <2>3
<1>10. CASE o.op = "reputation"
  BY <1>10, ScoreStory
<1> QED
  BY <1>0, <1>1, <1>2, <1>3, <1>4, <1>5, <1>6, <1>8, <1>9, <1>10 DEF OpOk

-----------------------------------------------------------------------------
(* The invariant of the event log. *)

\* As long as nothing was interrupted the events on disk tell of the database on disk, and
\* the script of the writer tells how it goes on.
StoryInv ==
    /\ \A t \in Callers : todo[t] # <<>> => ScoreOk(Head(todo[t]))
    /\ spent.interrupts = 0 =>
          /\ StoryDb(disk) /\ StoryDb(work)
          /\ Agree(Replay(disk.events), disk)
          /\ holder # Null /\ script[holder] # <<>> => Story(script[holder], work)

\* An empty database and no events.
LEMMA StoryInitially == StoreInit => StoryInv
<1> SUFFICES ASSUME StoreInit PROVE StoryInv
  OBVIOUS
<1>1. /\ disk = Empty /\ work = Empty /\ holder = Null /\ todo = [t \in Callers |-> <<>>]
  BY DEF StoreInit
<1>2. IsDb(Empty) /\ Empty.reps = [a \in Agents |-> Null] /\ Empty.events = <<>>
  BY DEF Empty, IsDb
<1>3. StoryDb(Empty)
  <2>1. <<>> \in Seq({})
    OBVIOUS
  <2> QED
    BY <1>2, <2>1 DEF StoryDb, RepsOk, EventsOk
<1>4. Agree(Empty, Empty)
  BY <1>2 DEF Agree
<1> QED
  BY <1>1, <1>2, <1>3, <1>4, ReplayNothing DEF StoryInv

\* A caller gets another list of operations, and lets go of the lock at most.
LEMMA TodoStory ==
    ASSUME StoreInv, StoryInv, NEW t \in Callers, NEW ops, todo' = [todo EXCEPT ![t] = ops],
           ops # <<>> => ScoreOk(Head(ops)),
           disk' = disk, work' = work, script' = script, holder' \in {holder, Null},
           spent'.interrupts = spent.interrupts
    PROVE  StoryInv'
<1>1. todo'[t] = ops /\ \A u \in Callers : u # t => todo'[u] = todo[u]
  BY DEF StoreInv, StoreShape
<1>2. \A u \in Callers : todo'[u] # <<>> => ScoreOk(Head(todo'[u]))
  <2> TAKE u \in Callers
  <2>1. CASE u = t
    BY <1>1, <2>1
  <2>2. CASE u # t
    BY <1>1, <2>2 DEF StoryInv
  <2> QED
    BY <2>1, <2>2
<1>3. holder' # Null => holder' = holder
  OBVIOUS
<1> QED
  BY <1>2, <1>3 DEF StoryInv

\* The call has operations with proper arguments.
Proper(ops) == ops # <<>> => ScoreOk(Head(ops))

\* A call of one operation.
LEMMA OneProper == ASSUME NEW a, ScoreOk(a) PROVE Proper(<<a>>)
BY DEF Proper

\* Every call starts operations with proper arguments.
LEMMA CallProper ==
    ASSUME NEW t, AnyCall(t)
    PROVE  \E call, ops, new : Start(t, call, ops, new) /\ Proper(ops)
<1>1. ASSUME NEW op, NEW id, NEW arg, op # "reputation" PROVE ScoreOk(Op(op, id, arg))
  BY <1>1 DEF Op, ScoreOk
<1>2. CASE CallCreateNode(t)
  <2>1. PICK n \in Nodes, v \in Values : Start(t, "graph", <<Op("create_node", n, v)>>, {n})
    BY <1>2 DEF CallCreateNode
  <2>2. Proper(<<Op("create_node", n, v)>>)
    BY <1>1, OneProper
  <2> QED
    BY <2>1, <2>2
<1>3. CASE CallUpdateNode(t)
  <2>1. PICK n \in Nodes, v \in Values : Start(t, "graph", <<Op("update_node", n, v)>>, {})
    BY <1>3 DEF CallUpdateNode
  <2>2. Proper(<<Op("update_node", n, v)>>)
    BY <1>1, OneProper
  <2> QED
    BY <2>1, <2>2
<1>4. CASE CallDeleteNode(t)
  <2>1. PICK n \in Nodes : Start(t, "graph", <<Op("delete_node", n, Null)>>, {})
    BY <1>4 DEF CallDeleteNode
  <2>2. Proper(<<Op("delete_node", n, Null)>>)
    BY <1>1, OneProper
  <2> QED
    BY <2>1, <2>2
<1>5. CASE CallAddEdge(t)
  <2>1. PICK e, arg : Start(t, "graph", <<Op("add_edge", e, arg)>>, {e})
    BY <1>5 DEF CallAddEdge
  <2>2. Proper(<<Op("add_edge", e, arg)>>)
    BY <1>1, OneProper
  <2> QED
    BY <2>1, <2>2
<1>6. CASE CallRemoveEdge(t)
  <2>1. PICK e \in Edges : Start(t, "graph", <<Op("remove_edge", e, Null)>>, {})
    BY <1>6 DEF CallRemoveEdge
  <2>2. Proper(<<Op("remove_edge", e, Null)>>)
    BY <1>1, OneProper
  <2> QED
    BY <2>1, <2>2
<1>7. CASE CallSubmit(t)
  <2>1. PICK p \in Proposals : Start(t, "votes", <<Op("submit", p, Null)>>, {p})
    BY <1>7 DEF CallSubmit
  <2>2. Proper(<<Op("submit", p, Null)>>)
    BY <1>1, OneProper
  <2> QED
    BY <2>1, <2>2
<1>8. CASE CallReputation(t)
  <2>1. PICK a \in Agents, ok \in BOOLEAN, r \in {<<>>, <<0>>, <<Full>>} :
            Start(t, "votes", <<Op("reputation", a, [success |-> ok, rating |-> r])>>, {})
    BY <1>8 DEF CallReputation
  <2>2. r \in Seq(Nat)
    <3>1. <<>> \in Seq(Nat) /\ <<0>> \in Seq(Nat) /\ <<Full>> \in Seq(Nat)
      BY StoreAssumption
    <3> QED
      BY <3>1
  <2>3. ScoreOk(Op("reputation", a, [success |-> ok, rating |-> r]))
    BY <2>2 DEF Op, ScoreOk
  <2>4. Proper(<<Op("reputation", a, [success |-> ok, rating |-> r])>>)
    BY <2>3, OneProper
  <2> QED
    BY <2>1, <2>4
<1>9. CASE CallVote(t)
  <2>1. PICK p, arg :
            Start(t, "votes", <<Op("vote", p, arg), Op("quorum", p, Null),
                                Op("check", p, Null), Op("status", p, Null)>>, {})
    BY <1>9 DEF CallVote
  <2>2. ASSUME NEW a, NEW b, NEW c, NEW e, ScoreOk(a) PROVE Proper(<<a, b, c, e>>)
    BY <2>2 DEF Proper
  <2>3. ScoreOk(Op("vote", p, arg))
    BY <1>1
  <2>4. Proper(<<Op("vote", p, arg), Op("quorum", p, Null), Op("check", p, Null),
                 Op("status", p, Null)>>)
    BY <2>2, <2>3
  <2> QED
    BY <2>1, <2>4
<1> QED
  BY <1>2, <1>3, <1>4, <1>5, <1>6, <1>7, <1>8, <1>9 DEF AnyCall

\* A call begins, and writes nothing yet.
LEMMA CallStory ==
    ASSUME StoreInv, StoryInv, NEW t \in Callers, AnyCall(t)
    PROVE  StoryInv'
<1>1. PICK call, ops, new : Start(t, call, ops, new) /\ Proper(ops)
  BY CallProper
<1>2. /\ todo' = [todo EXCEPT ![t] = ops] /\ spent' = [spent EXCEPT !.calls = @ + 1]
      /\ disk' = disk /\ work' = work /\ holder' = holder /\ script' = script
  BY <1>1 DEF Start, base
<1>3. spent'.interrupts = spent.interrupts
  BY <1>2 DEF StoreInv, StoreShape
<1>4. ops # <<>> => ScoreOk(Head(ops))
  BY <1>1 DEF Proper
<1> QED
  BY <1>2, <1>3, <1>4, TodoStory

\* A caller looks at the status of a proposal, and may go on with the rest of its operations.
LEMMA LookStory ==
    ASSUME StoreInv, StoryInv, NEW t \in Callers, LookAtStatus(t)
    PROVE  StoryInv'
<1>1. /\ disk' = disk /\ work' = work /\ holder' = holder /\ script' = script /\ spent' = spent
  BY DEF LookAtStatus, base
<1>2. ASSUME NEW ops, todo' = [todo EXCEPT ![t] = ops], Proper(ops) PROVE StoryInv'
  BY <1>1, <1>2, TodoStory DEF Proper
<1>3. CASE \E n : todo' = [todo EXCEPT ![t] = <<Op("create_node", n, Now(t).id)>>]
  <2>1. PICK n : todo' = [todo EXCEPT ![t] = <<Op("create_node", n, Now(t).id)>>]
    BY <1>3
  <2>2. ScoreOk(Op("create_node", n, Now(t).id))
    BY DEF Op, ScoreOk
  <2>3. Proper(<<Op("create_node", n, Now(t).id)>>)
    BY <2>2, OneProper
  <2> QED
    BY <1>2, <2>1, <2>3
<1>4. CASE todo' = [todo EXCEPT ![t] = <<>>]
  <2>1. Proper(<<>>)
    BY DEF Proper
  <2> QED
    BY <1>2, <1>4, <2>1
<1> QED
  BY <1>3, <1>4 DEF LookAtStatus

\* A caller is done with an operation and lets go of the lock.
LEMMA UnlockStory ==
    ASSUME StoreInv, StoryInv, NEW t \in Callers, Unlock(t)
    PROVE  StoryInv'
<1> DEFINE ops == Tail(todo[t])
<1>1. /\ holder = t /\ holder' = Null /\ todo' = [todo EXCEPT ![t] = ops]
      /\ disk' = disk /\ work' = work /\ script' = script /\ spent' = spent
  BY DEF Unlock, base
<1>2. ops # <<>> => Head(ops).op \in {"quorum", "check", "status"}
  BY <1>1, RestTodo DEF StoreInv, WriterInv
<1>3. ops # <<>> => ScoreOk(Head(ops))
  BY <1>2 DEF ScoreOk
<1> HIDE DEF ops
<1> QED
  BY <1>1, <1>3, TodoStory

\* A caller takes the lock with the script of its operation, on a database that was told.
LEMMA TakeStory ==
    ASSUME StoreInv, StoryInv, NEW t \in Callers, Take(t)
    PROVE  StoryInv'
<1> DEFINE o == Now(t)
           ops == AfterVote(o, todo[t])
<1>1. /\ holder = Null /\ todo[t] # <<>> /\ o = Head(todo[t]) /\ o.op # "status"
      /\ holder' = t
      /\ script' = [script EXCEPT ![t] = Script(o)]
      /\ todo' = [todo EXCEPT ![t] = ops]
      /\ disk' = disk /\ work' = work /\ spent' = spent
  BY DEF Take, Now, base
<1> HIDE DEF o
<1>2. TodoOk(todo[t]) /\ OpOk(o) /\ ScoreOk(o)
  BY <1>1, RestTodo DEF StoreInv, WriterInv, StoryInv
<1>3. ops # <<>> /\ Head(ops) = o
  BY <1>1, <1>2, DropSecond DEF AfterVote
<1> HIDE DEF ops
<1>4. todo'[t] = ops /\ \A u \in Callers : u # t => todo'[u] = todo[u]
  BY <1>1 DEF StoreInv, StoreShape
<1>5. script'[t] = Script(o)
  BY <1>1 DEF StoreInv, StoreShape
<1>6. \A u \in Callers : todo'[u] # <<>> => ScoreOk(Head(todo'[u]))
  <2> TAKE u \in Callers
  <2>1. CASE u = t
    BY <1>2, <1>3, <1>4, <2>1
  <2>2. CASE u # t
    BY <1>4, <2>2 DEF StoryInv
  <2> QED
    BY <2>1, <2>2
<1>7. ASSUME spent.interrupts = 0
      PROVE  /\ StoryDb(disk) /\ StoryDb(work) /\ Agree(Replay(disk.events), disk)
             /\ script'[t] # <<>> => Story(script'[t], work)
  <2>1. work = disk
    BY <1>1, <1>7 DEF StoreInv, GovernedInv
  <2>2. StoryDb(disk) /\ StoryDb(work) /\ Agree(Replay(disk.events), disk)
    BY <1>7 DEF StoryInv
  <2>3. Script(o) = <<>> \/ Story(Script(o), work)
    BY <1>1, <1>2, <2>1, <2>2, StoryBegins
  <2> QED
    BY <1>5, <2>2, <2>3
<1> QED
  BY <1>1, <1>6, <1>7 DEF StoryInv

\* A statement is executed, and a commit makes what was told durable.
LEMMA StatementStory ==
    ASSUME StoreInv, StoryInv, NEW t \in Callers, Statement(t)
    PROVE  StoryInv'
<1> DEFINE s == script[t]
           x == Head(s)
           r == Tail(s)
<1>1. /\ holder = t /\ s # <<>> /\ work' = Apply(work, x)
      /\ disk' = IF x.table = "commit" THEN work ELSE disk
      /\ script' = [script EXCEPT ![t] = r]
      /\ holder' = holder /\ todo' = todo /\ spent' = spent
  BY DEF Statement, Execute
<1>2. script'[t] = r
  BY <1>1 DEF StoreInv, StoreShape
<1>3. ScriptOk(s, work) /\ BaseOk(work)
  BY DEF StoreInv, WriterInv, StoreShape
<1>4. x.table = "commit" <=> r = <<>>
  BY <1>1, <1>3, HeadFacts
<1>5. ASSUME spent.interrupts = 0
      PROVE  /\ StoryDb(disk') /\ StoryDb(work') /\ Agree(Replay(disk'.events), disk')
             /\ r # <<>> => Story(r, work')
  <2>1. /\ StoryDb(disk) /\ StoryDb(work) /\ Agree(Replay(disk.events), disk)
        /\ Story(s, work)
    BY <1>1, <1>5, StoreAssumption DEF StoryInv
  <2>2. \E S : s \in Seq(S)
    BY <1>3 DEF ScriptOk
  <2>3. /\ StoryDb(Apply(work, x))
        /\ r = <<>> => Apply(work, x) = work /\ Agree(Replay(work.events), work)
        /\ r # <<>> => Story(r, Apply(work, x))
    BY <1>1, <1>4, <2>1, <2>2, StoryRest
  <2> HIDE DEF x, r, s
  <2> QED
    BY <1>1, <1>4, <2>1, <2>3
<1> HIDE DEF x, r, s
<1> QED
  BY <1>1, <1>2, <1>5 DEF StoryInv

\* A script breaks off: from here on nothing is claimed.
LEMMA InterruptStory ==
    ASSUME StoreInv, StoryInv, NEW t \in Callers, Interrupt(t)
    PROVE  StoryInv'
<1>1. todo' = [todo EXCEPT ![t] = <<>>] /\ spent' = [spent EXCEPT !.interrupts = @ + 1]
  BY DEF Interrupt, End
<1>2. spent'.interrupts # 0
  BY <1>1 DEF StoreInv, StoreShape
<1>3. todo'[t] = <<>> /\ \A u \in Callers : u # t => todo'[u] = todo[u]
  BY <1>1 DEF StoreInv, StoreShape
<1> QED
  BY <1>2, <1>3 DEF StoryInv

\* The connection or the process goes away: what was not committed is gone.
LEMMA EndStory ==
    ASSUME StoreInv, StoryInv, Close \/ Kill
    PROVE  StoryInv'
<1>1. /\ disk' = disk /\ work' = disk /\ holder' = Null
      /\ \A t \in Callers : todo'[t] \in {todo[t], <<>>}
  BY DEF Close, Kill
<1>2. spent'.interrupts = spent.interrupts
  <2>1. \/ spent' = [spent EXCEPT !.closes = @ + 1]
        \/ spent' = [spent EXCEPT !.kills = @ + 1]
    BY DEF Close, Kill
  <2> QED
    BY <2>1 DEF StoreInv, StoreShape
<1> QED
  BY <1>1, <1>2 DEF StoryInv

\* Every step keeps the story.
LEMMA StoryStep == StoreInv /\ StoryInv /\ [StoreNext]_storeVars => StoryInv'
<1> SUFFICES ASSUME StoreInv, StoryInv, [StoreNext]_storeVars PROVE StoryInv'
  OBVIOUS
<1>1. ASSUME UNCHANGED <<disk, work, holder, todo, script, spent>> PROVE StoryInv'
  BY <1>1 DEF StoryInv
<1>2. ASSUME NEW t \in Callers, Step(t) PROVE StoryInv'
  BY <1>2, TakeStory, StatementStory, UnlockStory, LookStory DEF Step
<1>3. ASSUME NEW t \in Callers, Abandon(t) PROVE StoryInv'
  <2>1. /\ todo' = [todo EXCEPT ![t] = <<>>] /\ spent' = spent
        /\ disk' = disk /\ work' = work /\ holder' = holder /\ script' = script
    BY <1>3 DEF Abandon, End, base
  <2> QED
    BY <2>1, TodoStory
<1>4. ASSUME NEW t \in Callers, AnyCall(t) \/ Interrupt(t) PROVE StoryInv'
  BY <1>4, CallStory, InterruptStory
<1>5. CASE \E p \in Proposals : Expire(p)
  BY <1>1, <1>5 DEF Expire, base
<1>6. CASE Close \/ Kill
  BY <1>6, EndStory
<1>7. CASE Initialize \/ UNCHANGED storeVars
  BY <1>1, <1>7 DEF Initialize, base, storeVars
<1> QED
  BY <1>2, <1>3, <1>4, <1>5, <1>6, <1>7 DEF StoreNext

\* Event sourcing (LatticeStore!EventSourcedUnlessInterrupted) for any events: as long as no
\* statement of sqlite.py was cancelled or failed, whatever calls interleave and whenever the
\* process is killed or the connection closed, the events on disk replayed in their order give
\* the graph, the proposals, the ballots and the scores on disk.
THEOREM EventSourcedUnlessInterruptedHolds == StoreSpec => []EventSourcedUnlessInterrupted
<1>1. StoryInv => EventSourcedUnlessInterrupted
  <2> SUFFICES ASSUME StoryInv, spent.interrupts = 0 PROVE EventSourced
    BY DEF EventSourcedUnlessInterrupted
  <2>1. Agree(Replay(disk.events), disk)
    BY DEF StoryInv
  <2> QED
    BY <2>1 DEF EventSourced, Agree
<1>2. StoreInv /\ StoryInv /\ [StoreNext]_storeVars => StoreInv' /\ StoryInv'
  BY StoreStep, StoryStep
<1> QED
  BY <1>1, <1>2, StoreInitially, StoryInitially, PTL DEF StoreSpec
=============================================================================
