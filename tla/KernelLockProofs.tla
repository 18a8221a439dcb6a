-------------------------- MODULE KernelLockProofs --------------------------
(***************************************************************************)
(* Proofs about KernelLock for any length of the busy loops and any number *)
(* of failing calls: the flag of the module follows the mutex, the lock is *)
(* free when main returns, and priority inheritance bounds the inversion.  *)
(***************************************************************************)
EXTENDS KernelLock, TLAPS

(* The statements each thread can be at. *)
LowLabels == {"none", "affinity", "prio", "open", "lock", "locked", "arrive", "barrier",
              "work", "close", "done"}
High1Labels == {"none", "affinity", "prio", "work", "done"}
High0Labels == {"none", "affinity", "prio", "open", "lock", "blocked", "locked", "close", "done"}
MainLabels == {"affinity", "prio", "createlow", "arrive", "barrier", "createhigh1",
               "createhigh0", "join0", "join1", "joinlow", "done"}

TypeOK ==
  /\ cpus \in 1 .. 2
  /\ cpu \in [Threads -> Nat] /\ prio \in [Threads -> Nat] /\ work \in [Threads -> Nat]
  /\ DOMAIN pc = Threads
  /\ pc["lowprio1"] \in LowLabels /\ pc["highprio1"] \in High1Labels
  /\ pc["highprio0"] \in High0Labels /\ pc["main"] \in MainLabels
  /\ owner \in {None, "lowprio1", "highprio0"} /\ waiters \subseteq {"highprio0"}
  /\ locked \in {0, 1} /\ loaded \in BOOLEAN /\ spin \in BOOLEAN /\ failures \in Nat

Over(t) == pc[t] \in {"none", "done"}

(* What main knows of the threads at each of its statements: those it has  *)
(* not created yet do not run, and those it has joined are over.           *)
MainInv ==
  /\ pc["main"] \in {"affinity", "prio", "createlow"} => pc["lowprio1"] = "none"
  /\ pc["main"] \in {"affinity", "prio", "createlow", "arrive", "barrier", "createhigh1"} =>
       pc["highprio1"] = "none"
  /\ pc["main"] \in {"affinity", "prio", "createlow", "arrive", "barrier", "createhigh1",
                     "createhigh0"} => pc["highprio0"] = "none"
  /\ pc["main"] \in {"arrive", "barrier"} =>
       pc["lowprio1"] \in LowLabels \ {"none", "work", "close"}
  /\ pc["main"] = "barrier" => pc["lowprio1"] # "barrier"
  /\ pc["main"] \in {"createhigh1", "createhigh0", "join0", "join1", "joinlow"} =>
       pc["lowprio1"] \in {"work", "close", "done"}
  /\ pc["main"] = "join1" => Over("highprio0")
  /\ pc["main"] = "joinlow" => Over("highprio0") /\ Over("highprio1")
  /\ pc["main"] = "done" => \A t \in Workers : Over(t)

(* Until wk_exit has the spin lock, the mutex belongs to the thread that   *)
(* is between open and close.  From then on nobody comes past wk_open or   *)
(* through wk_release, and only who is past rt_mutex_lock may own it.      *)
LockInv ==
  /\ \A t \in Openers : owner = t => pc[t] \in Holding
  /\ ~spin => \A t \in Openers : pc[t] \in Holding => owner = t
  /\ ~spin /\ owner # None /\ Inside(owner) => locked = 1
  /\ locked = 1 => \E t \in Openers : Inside(t)
  /\ ~(Inside("lowprio1") /\ Inside("highprio0"))
  /\ "highprio0" \in waiters <=> pc["highprio0"] = "blocked"
  /\ waiters # {} => owner = "lowprio1"
  /\ spin => ~loaded
  /\ ~loaded /\ ~spin => \A t \in Openers : ~InFile(t)

(* A thread past set_affinity_prio runs where, and as, it asked to. *)
PrioInv ==
  \A t \in Workers :
     /\ pc[t] \notin {"none", "affinity", "done"} => cpu[t] = cpuOf(t)
     /\ pc[t] \notin {"none", "affinity", "prio", "done"} => prio[t] = prioOf(t)

IInv == TypeOK /\ MainInv /\ LockInv /\ PrioInv

-----------------------------------------------------------------------------
LEMMA InitInv == Init => IInv
<1> SUFFICES ASSUME Init PROVE IInv
  OBVIOUS
<1> USE DEF Init, Threads, Workers
<1>1. TypeOK
  BY DEF TypeOK, None, LowLabels, High1Labels, High0Labels, MainLabels, prioOf
<1>2. MainInv /\ PrioInv
  BY DEF MainInv, Over, PrioInv
<1>3. LockInv
  BY DEF LockInv, Openers, Inside, InFile, Holding, None
<1> QED BY <1>1, <1>2, <1>3 DEF IInv

(* set_affinity_prio, of main and of the workers. *)
LEMMA SetKeeps ==
  ASSUME IInv, NEW t \in Threads, SetAffinity(t) \/ SetScheduler(t)
  PROVE  IInv'
<1> USE DEF IInv, TypeOK, Threads, Workers, LowLabels, High1Labels, High0Labels, MainLabels,
        Runs, Goto, lock, Fail
<1>1. CASE SetAffinity(t)
  <2>1. TypeOK'
    BY <1>1 DEF SetAffinity, cpuOf
  <2>2. MainInv'
    BY <1>1 DEF SetAffinity, MainInv, Over
  <2>3. LockInv'
    BY <1>1 DEF SetAffinity, LockInv, Openers, Inside, InFile, Holding, None
  <2>4. PrioInv'
    BY <1>1 DEF SetAffinity, PrioInv
  <2> QED BY <2>1, <2>2, <2>3, <2>4
<1>2. CASE SetScheduler(t)
  <2>1. TypeOK'
    BY <1>2 DEF SetScheduler, AfterPrio, prioOf
  <2>2. MainInv'
    BY <1>2 DEF SetScheduler, AfterPrio, MainInv, Over
  <2>3. LockInv'
    BY <1>2 DEF SetScheduler, AfterPrio, LockInv, Openers, Inside, InFile, Holding, None
  <2>4. PrioInv'
    BY <1>2 DEF SetScheduler, AfterPrio, PrioInv
  <2> QED BY <2>1, <2>2, <2>3, <2>4
<1> QED BY <1>1, <1>2

(* open and close of the file, and the busy loops. *)
LEMMA FileKeeps ==
  ASSUME IInv, NEW t \in Workers,
         Open(t) \/ Lock(t) \/ SetLocked(t) \/ wk_release(t) \/ Work(t)
  PROVE  IInv'
<1> USE DEF IInv, TypeOK, Threads, Workers, LowLabels, High1Labels, High0Labels, MainLabels,
        Runs, Goto, lock
<1>1. CASE Open(t)
  BY <1>1 DEF Open, MainInv, Over, LockInv, Openers, Inside, InFile, Holding, None, PrioInv
<1>2. CASE Lock(t)
  <2>1. CASE t = "lowprio1"
    <3>1. pc["highprio0"] = "none"
      BY <1>2, <2>1 DEF Lock, MainInv, Over
    <3>2. owner = None
      BY <1>2, <2>1, <3>1 DEF Lock, LockInv, Openers, Inside, InFile, Holding, None
    <3>3. /\ owner' = "lowprio1" /\ pc' = [pc EXCEPT !["lowprio1"] = "locked"]
          /\ UNCHANGED <<cpus, cpu, prio, work, waiters, locked, loaded, spin, failures>>
      BY <1>2, <2>1, <3>2 DEF Lock
    <3>4. pc["lowprio1"] = "lock"
      BY <1>2, <2>1 DEF Lock
    <3> QED BY <3>1, <3>2, <3>3, <3>4 DEF MainInv, Over,
            LockInv, Openers, Inside, InFile, Holding, None, PrioInv
  <2>2. CASE t = "highprio0"
    <3>1. CASE owner = None
      BY <1>2, <2>2, <3>1 DEF Lock, MainInv, Over,
         LockInv, Openers, Inside, InFile, Holding, None, PrioInv
    <3>2. CASE owner # None
      <4>1. owner = "lowprio1"
        BY <1>2, <2>2, <3>2 DEF Lock, LockInv, Openers, Inside, InFile, Holding
      <4>2. /\ waiters' = {"highprio0"} /\ pc' = [pc EXCEPT !["highprio0"] = "blocked"]
            /\ UNCHANGED <<cpus, cpu, prio, work, owner, locked, loaded, spin, failures>>
            /\ pc["highprio0"] = "lock"
        BY <1>2, <2>2, <3>2 DEF Lock
      <4> QED BY <4>1, <4>2 DEF MainInv, Over,
              LockInv, Openers, Inside, InFile, Holding, None, PrioInv
    <3> QED BY <3>1, <3>2
  <2>3. CASE t = "highprio1"
    BY <1>2, <2>3 DEF Lock
  <2> QED BY ONLY t \in Workers, <2>1, <2>2, <2>3 DEF Workers
<1>3. CASE SetLocked(t)
  BY <1>3 DEF SetLocked, MainInv, Over, LockInv, Openers, Inside, InFile, Holding, None, PrioInv
<1>4. CASE wk_release(t)
  <2>1. t \in {"lowprio1", "highprio0"} /\ owner = t /\ pc[t] = "close"
    BY <1>4 DEF wk_release, LockInv, Openers, Inside, InFile, Holding
  <2>2. CASE waiters = {}
    <3>1. /\ owner' = None /\ pc' = [pc EXCEPT ![t] = "done"] /\ locked' = 0
          /\ UNCHANGED <<cpus, cpu, prio, work, waiters, loaded, spin, failures>>
      BY <1>4, <2>2 DEF wk_release, Unlock
    <3>2. CASE t = "lowprio1"
      BY <2>1, <2>2, <3>1, <3>2 DEF MainInv, Over,
         LockInv, Openers, Inside, InFile, Holding, None, PrioInv
    <3>3. CASE t = "highprio0"
      BY <2>1, <2>2, <3>1, <3>3 DEF MainInv, Over,
         LockInv, Openers, Inside, InFile, Holding, None, PrioInv
    <3> QED BY <2>1, <3>2, <3>3
  <2>3. CASE waiters # {}
    <3>1. t = "lowprio1" /\ waiters = {"highprio0"} /\ pc["highprio0"] = "blocked"
      BY <2>1, <2>3 DEF LockInv
    <3>2. /\ owner' = "highprio0" /\ waiters' = {} /\ locked' = 0
          /\ pc' = [pc EXCEPT !["lowprio1"] = "done", !["highprio0"] = "locked"]
          /\ UNCHANGED <<cpus, cpu, prio, work, loaded, spin, failures>>
      BY <1>4, <3>1 DEF wk_release, Unlock
    <3> QED BY <2>1, <3>1, <3>2 DEF MainInv, Over,
            LockInv, Openers, Inside, InFile, Holding, None, PrioInv
  <2> QED BY ONLY <2>2, <2>3
<1>5. CASE Work(t)
  BY <1>5 DEF Work, MainInv, Over, LockInv, Openers, Inside, InFile, Holding, None, PrioInv
<1> QED BY <1>1, <1>2, <1>3, <1>4, <1>5

LEMMA BarrierKeeps ==
  ASSUME IInv, BarrierWait("lowprio1", "main") \/ BarrierWait("main", "lowprio1")
  PROVE  IInv'
<1> USE KernelLockAssumption
    DEF IInv, TypeOK, Threads, Workers, LowLabels, High1Labels, High0Labels, MainLabels,
        Runs, Goto, lock, BarrierWait
<1>1. TypeOK'
  <2>1. /\ work' \in [Threads -> Nat] /\ DOMAIN pc' = Threads
        /\ pc'["lowprio1"] \in LowLabels /\ pc'["highprio1"] \in High1Labels
        /\ pc'["highprio0"] \in High0Labels /\ pc'["main"] \in MainLabels
    OBVIOUS
  <2> QED BY <2>1
<1>2. MainInv'
  BY DEF MainInv, Over
<1>3. LockInv'
  BY DEF MainInv, LockInv, Openers, Inside, InFile, Holding, None
<1>4. PrioInv'
  BY DEF PrioInv
<1> QED BY <1>1, <1>2, <1>3, <1>4

LEMMA CreateKeeps ==
  ASSUME IInv, CreateLow \/ CreateHigh1 \/ CreateHigh0
  PROVE  IInv'
<1> USE KernelLockAssumption
    DEF IInv, TypeOK, Threads, Workers, LowLabels, High1Labels, High0Labels, MainLabels,
        Runs, Goto, lock, Create, Fail, MainInv, Over,
           LockInv, Openers, Inside, InFile, Holding, None, PrioInv
<1>1. CASE CreateLow
  BY <1>1 DEF CreateLow
<1>2. CASE CreateHigh1
  BY <1>2 DEF CreateHigh1
<1>3. CASE CreateHigh0
  BY <1>3 DEF CreateHigh0
<1> QED BY <1>1, <1>2, <1>3

LEMMA JoinKeeps ==
  ASSUME IInv,
         \/ Join("highprio0", "join0", "join1")
         \/ Join("highprio1", "join1", "joinlow")
         \/ Join("lowprio1", "joinlow", "done")
  PROVE  IInv'
<1> USE DEF IInv, TypeOK, Threads, Workers, LowLabels, High1Labels, High0Labels, MainLabels,
        Goto, lock, Join
<1>1. TypeOK'
  <2>1. PICK there \in {"join1", "joinlow", "done"} : pc' = [pc EXCEPT !["main"] = there]
    OBVIOUS
  <2>2. UNCHANGED <<cpus, cpu, prio, work, owner, waiters, locked, loaded, spin, failures>>
    OBVIOUS
  <2> QED BY ONLY TypeOK, <2>1, <2>2 DEF TypeOK, Threads, Workers, MainLabels
<1>2. MainInv'
  BY DEF MainInv, Over
<1>3. LockInv'
  BY DEF LockInv, Openers, Inside, InFile, Holding, None
<1>4. PrioInv'
  BY DEF PrioInv
<1> QED BY <1>1, <1>2, <1>3, <1>4

(* wk_exit: with the flag set, the mutex goes to the waiter or to nobody,  *)
(* and the spin lock keeps the waiter from coming past wk_open.            *)
LEMMA UnloadKeeps ==
  ASSUME IInv, wk_exit
  PROVE  IInv'
<1> USE DEF IInv, TypeOK, Threads, Workers, wk_exit
<1>1. /\ loaded /\ ~loaded' /\ spin'
      /\ UNCHANGED <<cpus, cpu, prio, work, locked, failures>>
  OBVIOUS
<1>2. CASE UNCHANGED <<owner, waiters, pc>>
  <2>1. TypeOK'
    BY <1>1, <1>2
  <2>2. LockInv'
    BY <1>1, <1>2 DEF LockInv, Openers, Inside, InFile, Holding, None
  <2> QED BY <1>1, <1>2, <2>1, <2>2 DEF MainInv, Over, PrioInv
<1>3. CASE waiters = {} /\ owner' = None /\ pc' = pc /\ UNCHANGED waiters
  <2>1. TypeOK'
    BY <1>1, <1>3 DEF None
  <2>2. LockInv'
    BY <1>1, <1>3 DEF LockInv, Openers, Inside, InFile, Holding, None
  <2> QED BY <1>1, <1>3, <2>1, <2>2 DEF MainInv, Over, PrioInv
<1>4. CASE /\ waiters = {"highprio0"} /\ owner' = "highprio0" /\ waiters' = {}
           /\ pc' = [pc EXCEPT !["highprio0"] = "locked"]
  <2>1. pc["highprio0"] = "blocked"
    BY <1>4 DEF LockInv
  <2>2. TypeOK'
    BY <1>1, <1>4 DEF High0Labels
  <2>3. LockInv'
    BY <1>1, <1>4, <2>1 DEF LockInv, Openers, Inside, InFile, Holding, None
  <2>4. MainInv' /\ PrioInv'
    BY <1>1, <1>4, <2>1 DEF MainInv, Over, PrioInv
  <2> QED BY <2>2, <2>3, <2>4
<1>5. CASE locked = 1 /\ waiters # {}
  <2>1. waiters = {"highprio0"}
    BY <1>5
  <2>2. Unlock(pc)
    BY <1>5
  <2> QED BY <1>4, <2>1, <2>2 DEF Unlock
<1>6. CASE locked = 1 /\ waiters = {}
  BY <1>3, <1>6 DEF Unlock
<1>7. CASE locked # 1
  BY <1>2, <1>7
<1> QED BY <1>5, <1>6, <1>7

(* remove_proc_entry: nobody is in the file, so the flag is clear. *)
LEMMA RemoveKeeps ==
  ASSUME IInv, remove_proc_entry
  PROVE  IInv'
<1> USE DEF IInv, remove_proc_entry
<1>1. UNCHANGED <<cpus, cpu, prio, pc, work, owner, waiters, locked, loaded, failures>> /\ ~spin'
  OBVIOUS
<1>2. TypeOK'
  BY <1>1 DEF TypeOK
<1>3. LockInv'
  BY <1>1 DEF TypeOK, LockInv, Openers, Inside, InFile, Holding, None
<1> QED BY <1>1, <1>2, <1>3 DEF MainInv, Over, PrioInv

LEMMA StutterKeeps == IInv /\ UNCHANGED vars => IInv'
BY DEF IInv, vars, TypeOK, MainInv, Over, LockInv, Inside, InFile, PrioInv

LEMMA NextKeeps == IInv /\ [Next]_vars => IInv'
BY SetKeeps, FileKeeps, BarrierKeeps, CreateKeeps, JoinKeeps, UnloadKeeps, RemoveKeeps,
   StutterKeeps
   DEF Next, main, worker, Threads, Workers

LEMMA Invariant == Spec => []IInv
BY InitInv, NextKeeps, PTL DEF Spec

(* In every interleaving of open, close and rmmod at most one thread is    *)
(* past wk_open; the flag locked follows the mutex until wk_exit, and once *)
(* wk_exit has returned the file is not in use and the mutex is free.      *)
THEOREM FlagFollowsMutex == Spec => []LockedWhileOpen
<1>1. IInv => LockedWhileOpen
  BY DEF IInv, TypeOK, LockInv, LockedWhileOpen, Openers, Inside, InFile, Holding, None, Workers,
     LowLabels, High0Labels
<1> QED BY <1>1, Invariant, PTL

(* main joins every thread it has started, whichever pthread_create or     *)
(* sched_setscheduler failed, and the lock is free.                        *)
THEOREM MainLeavesNothing == Spec => []CleanAtExit
<1>1. IInv => CleanAtExit
  BY DEF IInv, TypeOK, MainInv, LockInv, CleanAtExit, Over, Openers, Holding, None, Workers
<1> QED BY <1>1, Invariant, PTL

(* The greatest element of a set that has one. *)
LEMMA MaxBounds ==
  ASSUME NEW S, S \subseteq Int, NEW m \in S, \A y \in S : m >= y
  PROVE  Max(S) = m
<1>1. \E x \in S : \A y \in S : x >= y
  OBVIOUS
<1>2. Max(S) \in S /\ \A y \in S : Max(S) >= y
  BY ONLY <1>1, Zenon DEF Max
<1> DEFINE x == Max(S)
<1>3. x \in Int /\ m \in Int /\ x >= m /\ m >= x
  BY <1>2
<1> HIDE DEF x
<1>4. x = m
  BY <1>3
<1> QED BY <1>4 DEF x

(* The waiter lends its priority of 90 to the owner of the lock, while     *)
(* highprio1 has its own.                                                  *)
LEMMA OwnerInherits ==
  ASSUME IInv, pc["highprio0"] = "blocked"
  PROVE  /\ owner = "lowprio1" /\ effective("lowprio1") = 90
         /\ effective("highprio1") = prio["highprio1"]
<1> USE DEF IInv, TypeOK, LockInv, PrioInv, Threads, Workers, None, Openers, Holding
<1>1. waiters = {"highprio0"} /\ owner = "lowprio1"
  OBVIOUS
<1>2. prio["highprio0"] = 90 /\ prio["lowprio1"] = 30
  BY <1>1 DEF prioOf
<1>3. effective("lowprio1") = Max({30, 90})
  <2>1. {prio["lowprio1"]} \cup {prio[u] : u \in {v \in waiters : owner = "lowprio1"}} = {30, 90}
    BY <1>1, <1>2
  <2> QED BY ONLY <2>1 DEF effective
<1>4. effective("highprio1") = Max({prio["highprio1"]})
  BY <1>1 DEF effective
<1>5. Max({30, 90}) = 90
  <2> DEFINE S == {30, 90}
  <2>1. S \subseteq Int /\ 90 \in S /\ \A y \in S : 90 >= y
    OBVIOUS
  <2> HIDE DEF S
  <2>2. Max(S) = 90
    BY <2>1, MaxBounds
  <2> QED BY <2>2 DEF S
<1>6. Max({prio["highprio1"]}) = prio["highprio1"]
  BY MaxBounds
<1> QED BY <1>1, <1>3, <1>4, <1>5, <1>6

(* Priority inheritance: as long as highprio0 waits for the lock,          *)
(* highprio1 makes no iteration of its loop, although its priority is      *)
(* above that of the owner.                                                *)
THEOREM InheritanceBoundsInversion == Spec => InversionBounded
<1>1. IInv /\ [Next]_vars =>
        [pc["highprio0"] = "blocked" => work'["highprio1"] = work["highprio1"]]_vars
  <2> SUFFICES ASSUME IInv, [Next]_vars, pc["highprio0"] = "blocked"
               PROVE  work'["highprio1"] = work["highprio1"]
    OBVIOUS
  <2> USE DEF IInv
  <2>1. /\ pc["main"] \in {"join0", "join1", "joinlow", "done"}
        /\ pc["lowprio1"] \in {"work", "close"}
    BY DEF TypeOK, MainInv, LockInv, MainLabels, LowLabels, Openers, Holding, Over, Workers
  <2>2. ~Work("highprio1")
    <3> SUFFICES ASSUME Runs("highprio1", "work") PROVE FALSE
      BY DEF Work
    <3>1. cpu["highprio1"] = 1 /\ cpu["lowprio1"] = 1 /\ prio["highprio1"] = 80
      BY <2>1 DEF Runs, PrioInv, Workers, cpuOf, prioOf
    <3>2. effective("lowprio1") <= effective("highprio1")
      BY <2>1, <3>1 DEF Runs, Threads, Workers, Waiting
    <3> QED BY <3>1, <3>2, OwnerInherits
  <2>3. CASE main
    BY <2>1, <2>3 DEF main, Runs, SetAffinity, SetScheduler, CreateLow, CreateHigh1, CreateHigh0,
       Create, BarrierWait, Join
  <2>4. CASE \E t \in Workers : worker(t)
    <3> PICK t \in Workers : worker(t)
      BY <2>4
    <3>1. CASE Work(t)
      BY <2>2, <3>1 DEF Work, TypeOK, Threads, Workers
    <3>2. CASE ~Work(t)
      BY <2>1, <3>2 DEF worker, SetAffinity, SetScheduler, Open, Lock, SetLocked, wk_release,
         BarrierWait, TypeOK, Threads, Workers, Goto
    <3> QED BY <3>1, <3>2
  <2>5. CASE wk_exit \/ remove_proc_entry \/ UNCHANGED vars
    BY <2>5 DEF wk_exit, remove_proc_entry, vars
  <2> QED BY <2>3, <2>4, <2>5 DEF Next
<1> QED BY <1>1, Invariant, PTL DEF Spec, InversionBounded

=============================================================================
