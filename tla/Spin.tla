-------------------------------- MODULE Spin --------------------------------
(***************************************************************************)
(* The spin library (src/spin.c): spin_init starts nr_thread workers,      *)
(* spin_run makes all of them burn CPU until SIGALRM stops them, and       *)
(* spin_exit ends them and frees everything.  All three are called by one  *)
(* thread; api is where that thread is inside a call, "idle" between       *)
(* calls.  A client module says which calls are made and in which order.   *)
(***************************************************************************)
EXTENDS Integers

CONSTANTS
  nr_thread,        \* spin->n, the number of workers
  USEC_PER_SEC,     \* setitimer refuses a tv_usec of a second or more
  ALLOC_MAY_FAIL    \* whether calloc may return NULL

ASSUME SpinAssumption ==
  /\ nr_thread \in Nat
  /\ USEC_PER_SEC \in Nat \ {0}
  /\ ALLOC_MAY_FAIL \in BOOLEAN

VARIABLES
  run, cont,             \* the two volatile flags
  heap,                  \* the four arrays: not allocated, live or freed
  sem_start, sem_done,   \* one semaphore of each kind per worker
  timer,                 \* ITIMER_REAL: armed or off
  wpc,                   \* where each worker is
  api, usec, todo,       \* the call in progress, its argument, its loop
  rounds, fired, spun    \* history: spin_run calls that armed the timer,
                         \* alarms delivered, bursts of each worker

vars == <<run, cont, heap, sem_start, sem_done, timer, wpc, api, usec, todo,
          rounds, fired, spun>>
history == <<rounds, fired, spun>>

Threads == 0 .. nr_thread - 1

WorkerLabels == {"none", "init", "wait", "check", "spin", "post", "returned"}
ApiLabels == {"idle", "create", "arm", "start", "finish", "stop", "join", "exited"}

Init ==
  /\ run = 0 /\ cont = 0 /\ heap = "none" /\ timer = "off"
  /\ sem_start = [i \in Threads |-> 0]
  /\ sem_done = [i \in Threads |-> 0]
  /\ wpc = [i \in Threads |-> "none"]
  /\ api = "idle" /\ usec = 0 /\ todo = 0
  /\ rounds = 0 /\ fired = 0 /\ spun = [i \in Threads |-> 0]

-----------------------------------------------------------------------------
(* The SIGALRM handler and the workers *)

signalhandler ==
  /\ timer = "armed" /\ api # "exited"
  /\ timer' = "off"
  /\ run' = 0
  /\ fired' = fired + 1
  /\ UNCHANGED <<cont, heap, sem_start, sem_done, wpc, api, usec, todo, rounds, spun>>

(* One statement of worker i, which leaves it at the label there. *)
WorkerStep(i, here, there) ==
  /\ wpc[i] = here /\ api # "exited"
  /\ wpc' = [wpc EXCEPT ![i] = there]
  /\ UNCHANGED <<run, cont, heap, timer, api, usec, todo, rounds, fired>>

WorkerInit(i) ==
  WorkerStep(i, "init", "wait") /\ UNCHANGED <<sem_start, sem_done, spun>>

WorkerWait(i) ==
  /\ sem_start[i] > 0
  /\ sem_start' = [sem_start EXCEPT ![i] = @ - 1]
  /\ WorkerStep(i, "wait", "check")
  /\ UNCHANGED <<sem_done, spun>>

WorkerCheck(i) ==
  /\ WorkerStep(i, "check", IF cont = 1 THEN "spin" ELSE "returned")
  /\ UNCHANGED <<sem_start, sem_done, spun>>

(* The loop while(run) is left when it reads 0. *)
WorkerSpin(i) ==
  /\ run = 0
  /\ WorkerStep(i, "spin", "post")
  /\ spun' = [spun EXCEPT ![i] = @ + 1]
  /\ UNCHANGED <<sem_start, sem_done>>

WorkerPost(i) ==
  /\ WorkerStep(i, "post", "wait")
  /\ sem_done' = [sem_done EXCEPT ![i] = @ + 1]
  /\ UNCHANGED <<sem_start, spun>>

worker(i) == WorkerInit(i) \/ WorkerWait(i) \/ WorkerCheck(i) \/ WorkerSpin(i) \/ WorkerPost(i)

-----------------------------------------------------------------------------
(* spin_init *)

InitAlloc ==
  /\ api = "idle" /\ cont = 0
  /\ heap' = "live" /\ cont' = 1
  /\ sem_start' = [i \in Threads |-> 0]
  /\ sem_done' = [i \in Threads |-> 0]
  /\ wpc' = [i \in Threads |-> "none"]
  /\ api' = "create" /\ todo' = 0
  /\ UNCHANGED <<run, timer, usec, history>>

InitAllocFails ==
  /\ ALLOC_MAY_FAIL
  /\ api = "idle" /\ cont = 0
  /\ heap' = "freed"
  /\ UNCHANGED <<run, cont, sem_start, sem_done, timer, wpc, api, usec, todo, history>>

(* A call on a library already started, or not started, returns at once. *)
Ignored(guard) == api = "idle" /\ guard /\ UNCHANGED vars

spin_init == InitAlloc \/ InitAllocFails \/ Ignored(cont = 1)

InitCreate ==
  /\ api = "create"
  /\ todo < nr_thread
  /\ wpc' = [wpc EXCEPT ![todo] = "init"]
  /\ todo' = todo + 1
  /\ UNCHANGED <<run, cont, heap, sem_start, sem_done, timer, api, usec, history>>

InitReturn ==
  /\ api = "create"
  /\ todo = nr_thread
  /\ api' = "idle" /\ todo' = 0
  /\ UNCHANGED <<run, cont, heap, sem_start, sem_done, timer, wpc, usec, history>>

-----------------------------------------------------------------------------
(* spin_run: run is set before the timer is armed, so that an alarm that   *)
(* comes at once is not overwritten.                                       *)

(* Mutant: run is not set again. *)
RunBeginStale(u) ==
  /\ api = "idle" /\ cont = 1
  /\ usec' = u
  /\ api' = "arm"
  /\ UNCHANGED <<run, cont, heap, sem_start, sem_done, timer, wpc, todo, history>>

RunBegin(u) ==
  /\ api = "idle" /\ cont = 1
  /\ run' = 1
  /\ usec' = u
  /\ api' = "arm"
  /\ UNCHANGED <<cont, heap, sem_start, sem_done, timer, wpc, todo, history>>

spin_run(u) == RunBegin(u) \/ Ignored(cont = 0)

(* setitimer: 0 disarms the timer, a second or more is refused with EINVAL. *)
RunSetitimer ==
  /\ api = "arm"
  /\ usec \in 0 .. USEC_PER_SEC - 1
  /\ timer' = IF usec = 0 THEN "off" ELSE "armed"
  /\ rounds' = rounds + 1
  /\ api' = "start"
  /\ UNCHANGED <<run, cont, heap, sem_start, sem_done, wpc, usec, todo, fired, spun>>

RunSetitimerFails ==
  /\ api = "arm"
  /\ usec \notin 0 .. USEC_PER_SEC - 1
  /\ api' = "exited"
  /\ UNCHANGED <<run, cont, heap, sem_start, sem_done, timer, wpc, usec, todo, history>>

(* Posting sem_start of every worker, in spin_run and in spin_exit. *)
PostStart(here, there) ==
  /\ api = here
  /\ IF todo < nr_thread
     THEN /\ sem_start' = [sem_start EXCEPT ![todo] = @ + 1]
          /\ todo' = todo + 1
          /\ UNCHANGED api
     ELSE todo' = 0 /\ api' = there /\ UNCHANGED sem_start
  /\ UNCHANGED <<run, cont, heap, sem_done, timer, wpc, usec, history>>

RunStart == PostStart("start", "finish")

RunWaitDone ==
  /\ api = "finish"
  /\ todo < nr_thread
  /\ sem_done[todo] > 0
  /\ sem_done' = [sem_done EXCEPT ![todo] = @ - 1]
  /\ todo' = todo + 1
  /\ UNCHANGED <<run, cont, heap, sem_start, timer, wpc, api, usec, history>>

(* Mutant: the wait loop stops one worker short. *)
RunReturnEarly ==
  /\ api = "finish"
  /\ todo = nr_thread - 1
  /\ todo' = 0 /\ api' = "idle"
  /\ UNCHANGED <<run, cont, heap, sem_start, sem_done, timer, wpc, usec, history>>

RunReturn ==
  /\ api = "finish"
  /\ todo = nr_thread
  /\ todo' = 0 /\ api' = "idle"
  /\ UNCHANGED <<run, cont, heap, sem_start, sem_done, timer, wpc, usec, history>>

-----------------------------------------------------------------------------
(* spin_exit *)

(* Mutant: cont stays set. *)
ExitBeginKeepsCont ==
  /\ api = "idle" /\ cont = 1
  /\ api' = "stop"
  /\ UNCHANGED <<run, cont, heap, sem_start, sem_done, timer, wpc, usec, todo, history>>

ExitBegin ==
  /\ api = "idle" /\ cont = 1
  /\ cont' = 0
  /\ api' = "stop"
  /\ UNCHANGED <<run, heap, sem_start, sem_done, timer, wpc, usec, todo, history>>

spin_exit == ExitBegin \/ Ignored(cont = 0)

ExitStop == PostStart("stop", "join")

ExitJoin ==
  /\ api = "join"
  /\ todo < nr_thread
  /\ wpc[todo] = "returned"
  /\ todo' = todo + 1
  /\ UNCHANGED <<run, cont, heap, sem_start, sem_done, timer, wpc, api, usec, history>>

(* Mutant: the join loop stops one worker short. *)
ExitFreeEarly ==
  /\ api = "join"
  /\ todo = nr_thread - 1
  /\ heap' = "freed"
  /\ todo' = 0 /\ api' = "idle"
  /\ UNCHANGED <<run, cont, sem_start, sem_done, timer, wpc, usec, history>>

ExitFree ==
  /\ api = "join"
  /\ todo = nr_thread
  /\ heap' = "freed"
  /\ todo' = 0 /\ api' = "idle"
  /\ UNCHANGED <<run, cont, sem_start, sem_done, timer, wpc, usec, history>>

(* The rest of a call that has begun. *)
InCall ==
  \/ InitCreate \/ InitReturn
  \/ RunSetitimer \/ RunSetitimerFails \/ RunStart \/ RunWaitDone \/ RunReturn
  \/ ExitStop \/ ExitJoin \/ ExitFree

=============================================================================
