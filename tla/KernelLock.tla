----------------------------- MODULE KernelLock -----------------------------
(***************************************************************************)
(* The priority inversion workload (rt_kernel_lock/src/wk_kernel_lock.c)   *)
(* and its kernel module (lockmodule/wk_lock.c).  Opening /proc/wk_lock    *)
(* takes an rt_mutex and closing it releases it.  lowprio1 takes the lock  *)
(* on CPU 1, highprio1 competes with it for that CPU, and highprio0 waits  *)
(* for the lock on CPU 0.                                                  *)
(*                                                                         *)
(* The scheduler is SCHED_RR: a thread runs only if no runnable thread of  *)
(* its CPU has a higher priority.  A new thread inherits the CPU and the   *)
(* priority of main.  The owner of the rt_mutex inherits the priority of   *)
(* its waiters, which are served in the order of their priority.           *)
(***************************************************************************)
EXTENDS Integers, FiniteSets, FiniteSetsExt

CONSTANTS
  WORK,        \* bound on the iterations of a busy loop
  FAILURES     \* how many system calls may fail

ASSUME KernelLockAssumption == WORK \in Nat /\ FAILURES \in Nat

Workers == {"lowprio1", "highprio1", "highprio0"}
Threads == Workers \cup {"main"}
None == "none"

VARIABLES
  cpus,          \* the number of CPUs of the machine
  cpu, prio,     \* where each thread runs, and its own priority
  pc,            \* its next statement
  work,          \* what is left of its busy loop
  owner, waiters,\* the rt_mutex wk_lock
  locked,        \* the flag of the module
  loaded,        \* whether the module is loaded
  spin,          \* whether wk_exit holds priv_spin_lock
  failures       \* how many calls have failed

vars == <<cpus, cpu, prio, pc, work, owner, waiters, locked, loaded, spin, failures>>

cpuOf(t) == IF t \in {"main", "highprio0"} THEN 0 ELSE 1

(* Mutant: the priorities of the two high-priority threads are exchanged. *)
prioOf_exchanged(t) == CASE t = "main" -> 99 [] t = "highprio0" -> 80
               [] t = "highprio1" -> 90 [] t = "lowprio1" -> 30

prioOf(t) == CASE t = "main" -> 99 [] t = "highprio0" -> 90
               [] t = "highprio1" -> 80 [] t = "lowprio1" -> 30

Init ==
  /\ cpus \in 1 .. 2
  /\ cpu = [t \in Threads |-> 0]
  /\ prio = [t \in Threads |-> IF t = "main" THEN 0 ELSE prioOf("main")]
  /\ pc = [t \in Threads |-> IF t = "main" THEN "affinity" ELSE "none"]
  /\ work = [t \in Threads |-> 0]
  /\ owner = None /\ waiters = {}
  /\ locked = 0 /\ loaded \in BOOLEAN /\ spin = FALSE
  /\ failures = 0

-----------------------------------------------------------------------------
(* The scheduler *)

Waiting == {"none", "blocked", "barrier", "join0", "join1", "joinlow", "done"}

effective(t) == Max({prio[t]} \cup {prio[u] : u \in {v \in waiters : owner = t}})

Runs(t, here) ==
  /\ pc[t] = here
  /\ \A u \in Threads : cpu[u] = cpu[t] /\ pc[u] \notin Waiting => effective(u) <= effective(t)

Goto(t, there) == pc' = [pc EXCEPT ![t] = there]

Fail == failures < FAILURES /\ failures' = failures + 1

lock == <<owner, waiters, locked, loaded, spin>>

-----------------------------------------------------------------------------
(* set_affinity_prio, and what each caller does with its result *)

AfterPrio(t) == CASE t = "main" -> "createlow" [] t = "highprio1" -> "work" [] OTHER -> "open"

SetAffinity(t) ==
  /\ Runs(t, "affinity")
  /\ IF cpuOf(t) < cpus THEN cpu' = [cpu EXCEPT ![t] = cpuOf(t)] /\ Goto(t, "prio")
                        ELSE Goto(t, "done") /\ UNCHANGED cpu
  /\ UNCHANGED <<cpus, prio, work, lock, failures>>

SetScheduler(t) ==
  /\ Runs(t, "prio")
  /\ \/ /\ prio' = [prio EXCEPT ![t] = prioOf(t)]
        /\ Goto(t, AfterPrio(t))
        /\ UNCHANGED failures
     \/ Fail /\ Goto(t, "done") /\ UNCHANGED prio
  /\ UNCHANGED <<cpus, cpu, work, lock>>

-----------------------------------------------------------------------------
(* open and close of /proc/wk_lock *)

(* Without the module there is no such file. *)
Open(t) ==
  /\ Runs(t, "open")
  /\ Goto(t, IF loaded THEN "lock" ELSE "done")
  /\ UNCHANGED <<cpus, cpu, prio, work, lock, failures>>

(* wk_open, rt_mutex_lock *)
Lock(t) ==
  /\ Runs(t, "lock")
  /\ IF owner = None THEN owner' = t /\ Goto(t, "locked") /\ UNCHANGED waiters
                     ELSE waiters' = waiters \cup {t} /\ Goto(t, "blocked") /\ UNCHANGED owner
  /\ UNCHANGED <<cpus, cpu, prio, work, locked, loaded, spin, failures>>

(* wk_open, the section under priv_spin_lock *)
SetLocked(t) ==
  /\ Runs(t, "locked") /\ ~spin
  /\ locked' = 1
  /\ Goto(t, IF t = "lowprio1" THEN "arrive" ELSE "close")
  /\ UNCHANGED <<cpus, cpu, prio, work, owner, waiters, loaded, spin, failures>>

(* rt_mutex_unlock, by its owner or not: the waiter of the highest         *)
(* priority gets the mutex.  In after, the caller has made its own step.   *)
(* Mutant: nobody is woken.                                                *)
UnlockNoWake(after) == owner' = None /\ pc' = after /\ UNCHANGED waiters

Unlock(after) ==
  IF waiters = {}
  THEN owner' = None /\ pc' = after /\ UNCHANGED waiters
  ELSE \E u \in waiters :
         /\ \A v \in waiters : prio[v] <= prio[u]
         /\ owner' = u /\ waiters' = waiters \ {u}
         /\ pc' = [after EXCEPT ![u] = "locked"]

(* wk_release, under priv_spin_lock, and the return of the thread *)
wk_release(t) ==
  /\ Runs(t, "close") /\ ~spin
  /\ locked' = 0
  /\ Unlock([pc EXCEPT ![t] = "done"])
  /\ UNCHANGED <<cpus, cpu, prio, work, loaded, spin, failures>>

(* Mutant: priv_spin_lock is given back before the file is removed. *)
wk_exit_gives_back ==
  /\ loaded /\ loaded' = FALSE
  /\ IF locked = 1 THEN Unlock(pc) ELSE UNCHANGED <<owner, waiters, pc>>
  /\ UNCHANGED <<cpus, cpu, prio, work, locked, spin, failures>>

(* wk_exit, up to remove_proc_entry.  An open file does not keep the       *)
(* module: whoever has it locked, the mutex is unlocked, and the flag      *)
(* stays as it is.                                                         *)
wk_exit ==
  /\ loaded /\ loaded' = FALSE
  /\ spin' = TRUE
  /\ IF locked = 1 THEN Unlock(pc) ELSE UNCHANGED <<owner, waiters, pc>>
  /\ UNCHANGED <<cpus, cpu, prio, work, locked, failures>>

(* Between the entry of wk_open and the return of wk_release *)
InFile(t) == pc[t] \in {"lock", "blocked", "locked", "arrive", "barrier", "work", "close"}

(* Those who may open the file *)
Openers == {"lowprio1", "highprio0"}

(* remove_proc_entry and the rest of wk_exit: it waits for the calls in    *)
(* progress, and it calls wk_release for the files still open, which waits *)
(* for the spin lock that wk_exit has: it returns only if the file is not  *)
(* in use.                                                                 *)
remove_proc_entry ==
  /\ spin /\ \A t \in Openers : ~InFile(t)
  /\ spin' = FALSE
  /\ UNCHANGED <<cpus, cpu, prio, pc, work, owner, waiters, locked, loaded, failures>>

-----------------------------------------------------------------------------
(* The barrier of main and lowprio1, and the busy loops *)

(* cnt is never initialised: the loop may be over before it begins. *)
BarrierWait(t, peer) ==
  /\ Runs(t, "arrive")
  /\ IF pc[peer] = "barrier"
     THEN /\ pc' = [pc EXCEPT !["main"] = "createhigh1", !["lowprio1"] = "work"]
          /\ \E n \in 0 .. WORK : work' = [work EXCEPT !["lowprio1"] = n]
     ELSE Goto(t, "barrier") /\ UNCHANGED work
  /\ UNCHANGED <<cpus, cpu, prio, lock, failures>>

Work(t) ==
  /\ Runs(t, "work")
  /\ IF work[t] > 0
     THEN work' = [work EXCEPT ![t] = @ - 1] /\ UNCHANGED pc
     ELSE Goto(t, IF t = "lowprio1" THEN "close" ELSE "done") /\ UNCHANGED work
  /\ UNCHANGED <<cpus, cpu, prio, lock, failures>>

worker(t) ==
  \/ SetAffinity(t) \/ SetScheduler(t)
  \/ Open(t) \/ Lock(t) \/ SetLocked(t) \/ wk_release(t)
  \/ Work(t)
  \/ t = "lowprio1" /\ BarrierWait(t, "main")

-----------------------------------------------------------------------------
(* main *)

(* pthread_create of t; on an error main goes to otherwise. *)
Create(t, here, there, otherwise) ==
  /\ Runs("main", here)
  /\ \/ /\ pc' = [pc EXCEPT !["main"] = there, ![t] = "affinity"]
        /\ \E n \in 0 .. WORK : work' = [work EXCEPT ![t] = IF t = "highprio1" THEN n ELSE 0]
        /\ UNCHANGED failures
     \/ Fail /\ Goto("main", otherwise) /\ UNCHANGED work
  /\ UNCHANGED <<cpus, cpu, prio, lock>>

CreateLow   == Create("lowprio1", "createlow", "arrive", "done")
CreateHigh1 == Create("highprio1", "createhigh1", "createhigh0", "joinlow")
CreateHigh0 == Create("highprio0", "createhigh0", "join0", "join1")

(* Mutant: lowprio1 is not waited for after a failure. *)
JoinNotLow(t, here, there) ==
  /\ pc["main"] = here /\ (pc[t] = "done" \/ t = "lowprio1")
  /\ Goto("main", there)
  /\ UNCHANGED <<cpus, cpu, prio, work, lock, failures>>

Join(t, here, there) ==
  /\ pc["main"] = here /\ pc[t] = "done"
  /\ Goto("main", there)
  /\ UNCHANGED <<cpus, cpu, prio, work, lock, failures>>

main ==
  \/ SetAffinity("main") \/ SetScheduler("main")
  \/ CreateLow \/ BarrierWait("main", "lowprio1") \/ CreateHigh1 \/ CreateHigh0
  \/ Join("highprio0", "join0", "join1")
  \/ Join("highprio1", "join1", "joinlow")
  \/ Join("lowprio1", "joinlow", "done")

(* lowprio1 gave up before the barrier: main waits there for ever. *)
StuckAtBarrier == pc["main"] = "barrier" /\ pc["lowprio1"] = "done"

(* The module was removed while the file was in use: rmmod and whoever     *)
(* uses the file wait for each other.                                      *)
RemovedInUse == spin /\ \E t \in Openers : InFile(t)

Next ==
  \/ main \/ (\E t \in Workers : worker(t)) \/ wk_exit \/ remove_proc_entry
  \/ (pc["main"] = "done" \/ StuckAtBarrier \/ RemovedInUse) /\ UNCHANGED vars

Spec == Init /\ [][Next]_vars /\ WF_vars(main) /\ \A t \in Workers : WF_vars(worker(t))

-----------------------------------------------------------------------------
Holding == {"locked", "arrive", "barrier", "work", "close"}

(* Past wk_open and not yet through wk_release. *)
Inside(t) == pc[t] \in Holding \ {"locked"}

(* The lock excludes, and the module is removed cleanly or not at all.     *)
(* Until wk_exit has the spin lock, who is past rt_mutex_lock owns the     *)
(* mutex and the flag is set exactly while the owner is past wk_open.      *)
(* wk_exit may unlock a mutex that is held, but never are there two past   *)
(* wk_open, since it keeps the spin lock as long as the file is in use.    *)
(* Once it has returned nobody is in the module's code, the mutex is free  *)
(* and the flag is clear.                                                  *)
LockedWhileOpen ==
  /\ ~spin => /\ \A t \in Openers : pc[t] \in Holding => owner = t
              /\ locked = 1 <=> owner # None /\ Inside(owner)
  /\ \A t, u \in Openers : Inside(t) /\ Inside(u) => t = u
  /\ ~loaded /\ ~spin => owner = None /\ locked = 0 /\ \A t \in Openers : ~InFile(t)

(* Priority inversion is bounded by the critical section: as long as       *)
(* highprio0 waits for the lock, highprio1 does not run, although it has a *)
(* higher priority than the owner.                                         *)
InversionBounded ==
  [][pc["highprio0"] = "blocked" => work'["highprio1"] = work["highprio1"]]_vars

(* When main returns every thread that was started has returned, and the   *)
(* lock is free, whichever call failed.                                    *)
CleanAtExit ==
  pc["main"] = "done" => /\ \A t \in Workers : pc[t] \in {"none", "done"}
                         /\ owner = None

(* main returns, unless lowprio1 failed before the barrier or the module   *)
(* was removed while the file was in use.                                  *)
Ends == <>(pc["main"] = "done" \/ StuckAtBarrier \/ RemovedInUse)

=============================================================================
