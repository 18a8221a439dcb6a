----------------------------- MODULE ThreadTree -----------------------------
(***************************************************************************)
(* wk-threadtree (ust/threadtree/threadtree.c): a task is a list of        *)
(* stages, each with one thread less than the one before.  A thread that   *)
(* ends takes the next index of its stage under the semaphore mutex, puts  *)
(* itself in the ready array and posts sem_ready; the one with the last    *)
(* index spawns the next stage.  main joins the threads of each stage in   *)
(* the order of the ready array, then frees the task.                      *)
(***************************************************************************)
EXTENDS Integers

CONSTANTS nb_stages, nb_threads   \* the arguments of make_task

ASSUME TreeAssumption ==
  /\ nb_stages \in Nat \ {0} /\ nb_threads \in Nat
  /\ nb_stages <= nb_threads

Stages == 0 .. nb_stages - 1
nb_thread(s) == nb_threads - s

Threads == UNION {{s} \X (0 .. nb_thread(s) - 1) : s \in Stages}
stageOf(t) == t[1]
NoThread == <<-1, -1>>     \* a calloc'ed pthread_t
Main == <<-1, 0>>

VARIABLES
  exit_count, mutex, sem_ready, ready,  \* the stages
  pc, index,         \* each thread: its next statement and its local index
  spawner, child,    \* who runs spawn_stage on a stage, and how far it is
  main, stage, i,    \* main and the loops of wait_task
  joined             \* history: threads that have been joined

vars == <<exit_count, mutex, sem_ready, ready, pc, index, spawner, child, main,
          stage, i, joined>>

Init ==
  /\ exit_count = [s \in Stages |-> 0]
  /\ mutex = [s \in Stages |-> 1]
  /\ sem_ready = [s \in Stages |-> 0]
  /\ ready = [s \in Stages |-> [j \in 0 .. nb_threads - 1 |-> NoThread]]
  /\ pc = [t \in Threads |-> "none"]
  /\ index = [t \in Threads |-> 0]
  /\ spawner = [s \in Stages |-> IF s = 0 THEN Main ELSE NoThread]
  /\ child = [s \in Stages |-> 0]
  /\ main = "spawn" /\ stage = 0 /\ i = 0
  /\ joined = {}

-----------------------------------------------------------------------------
(* spawn_stage(s), run by main or by the last thread of the stage before *)

SpawnOne(s) ==
  /\ child[s] < nb_thread(s)
  /\ pc' = [pc EXCEPT ![<<s, child[s]>>] = "run"]
  /\ child' = [child EXCEPT ![s] = @ + 1]

MainSpawn ==
  /\ main = "spawn"
  /\ SpawnOne(0)
  /\ UNCHANGED <<exit_count, mutex, sem_ready, ready, index, spawner, main, stage, i, joined>>

MainSpawned ==
  /\ main = "spawn"
  /\ child[0] = nb_thread(0)
  /\ main' = "wait"
  /\ UNCHANGED <<exit_count, mutex, sem_ready, ready, pc, index, spawner, child, stage, i, joined>>

-----------------------------------------------------------------------------
(* thread_worker *)

Alive(t, here) == main \notin {"end", "crash"} /\ pc[t] = here
Goto(t, there) == pc' = [pc EXCEPT ![t] = there]

Lock(t) ==
  /\ Alive(t, "run")
  /\ mutex[stageOf(t)] > 0
  /\ mutex' = [mutex EXCEPT ![stageOf(t)] = @ - 1]
  /\ Goto(t, "count")
  /\ UNCHANGED <<exit_count, sem_ready, ready, index, spawner, child, main, stage, i, joined>>

(* index = stage->exit_count++, a read and a write. *)
ReadCount(t) ==
  /\ Alive(t, "count")
  /\ index' = [index EXCEPT ![t] = exit_count[stageOf(t)]]
  /\ Goto(t, "store")
  /\ UNCHANGED <<exit_count, mutex, sem_ready, ready, spawner, child, main, stage, i, joined>>

StoreCount(t) ==
  /\ Alive(t, "store")
  /\ exit_count' = [exit_count EXCEPT ![stageOf(t)] = index[t] + 1]
  /\ Goto(t, "unlock")
  /\ UNCHANGED <<mutex, sem_ready, ready, index, spawner, child, main, stage, i, joined>>

Unlock(t) ==
  /\ Alive(t, "unlock")
  /\ mutex' = [mutex EXCEPT ![stageOf(t)] = @ + 1]
  /\ Goto(t, "ready")
  /\ UNCHANGED <<exit_count, sem_ready, ready, index, spawner, child, main, stage, i, joined>>

AddReady(t) ==
  /\ Alive(t, "ready")
  /\ ready' = [ready EXCEPT ![stageOf(t)][index[t]] = t]
  /\ Goto(t, "post")
  /\ UNCHANGED <<exit_count, mutex, sem_ready, index, spawner, child, main, stage, i, joined>>

(* Mutant: the post is forgotten. *)
PostReadyLost(t) ==
  /\ Alive(t, "post")
  /\ Goto(t, "last")
  /\ UNCHANGED <<exit_count, mutex, sem_ready, ready, index, spawner, child, main, stage, i, joined>>

PostReady(t) ==
  /\ Alive(t, "post")
  /\ sem_ready' = [sem_ready EXCEPT ![stageOf(t)] = @ + 1]
  /\ Goto(t, "last")
  /\ UNCHANGED <<exit_count, mutex, ready, index, spawner, child, main, stage, i, joined>>

(* Mutant: one too early. *)
IsLastButOne(t) == index[t] = nb_thread(stageOf(t)) - 2

IsLast(t) == index[t] = nb_thread(stageOf(t)) - 1
HasNext(t) == stageOf(t) + 1 \in Stages

(* The test of the last index; stage->next is read here. *)
CheckLast(t) ==
  /\ Alive(t, "last")
  /\ IF IsLast(t) /\ HasNext(t)
     THEN /\ spawner' = [spawner EXCEPT ![stageOf(t) + 1] = t]
          /\ Goto(t, "spawn")
     ELSE Goto(t, "returned") /\ UNCHANGED spawner
  /\ UNCHANGED <<exit_count, mutex, sem_ready, ready, index, child, main, stage, i, joined>>

ThreadSpawn(t) ==
  /\ Alive(t, "spawn")
  /\ SpawnOne(stageOf(t) + 1)
  /\ UNCHANGED <<exit_count, mutex, sem_ready, ready, index, spawner, main, stage, i, joined>>

ThreadSpawned(t) ==
  /\ Alive(t, "spawn")
  /\ child[stageOf(t) + 1] = nb_thread(stageOf(t) + 1)
  /\ Goto(t, "returned")
  /\ UNCHANGED <<exit_count, mutex, sem_ready, ready, index, spawner, child, main, stage, i, joined>>

thread_worker(t) ==
  \/ Lock(t) \/ ReadCount(t) \/ StoreCount(t) \/ Unlock(t) \/ AddReady(t) \/ PostReady(t)
  \/ CheckLast(t) \/ ThreadSpawn(t) \/ ThreadSpawned(t)

-----------------------------------------------------------------------------
(* wait_task and free_task *)

WaitReady ==
  /\ main = "wait"
  /\ stage \in Stages /\ i < nb_thread(stage)
  /\ sem_ready[stage] > 0
  /\ sem_ready' = [sem_ready EXCEPT ![stage] = @ - 1]
  /\ main' = "join"
  /\ UNCHANGED <<exit_count, mutex, ready, pc, index, spawner, child, stage, i, joined>>

JoinReady ==
  /\ main = "join"
  /\ ready[stage][i] # NoThread
  /\ pc[ready[stage][i]] = "returned"
  /\ joined' = joined \cup {ready[stage][i]}
  /\ i' = i + 1
  /\ main' = "wait"
  /\ UNCHANGED <<exit_count, mutex, sem_ready, ready, pc, index, spawner, child, stage>>

(* pthread_join of a pthread_t that is still zero dereferences NULL. *)
JoinNull ==
  /\ main = "join"
  /\ ready[stage][i] = NoThread
  /\ main' = "crash"
  /\ UNCHANGED <<exit_count, mutex, sem_ready, ready, pc, index, spawner, child, stage, i, joined>>

(* Mutant: the join loop stops one thread short. *)
NextStageEarly ==
  /\ main = "wait"
  /\ stage \in Stages /\ i = nb_thread(stage) - 1
  /\ stage' = stage + 1 /\ i' = 0
  /\ main' = IF stage + 1 \in Stages THEN "wait" ELSE "free"
  /\ UNCHANGED <<exit_count, mutex, sem_ready, ready, pc, index, spawner, child, joined>>

NextStage ==
  /\ main = "wait"
  /\ stage \in Stages /\ i = nb_thread(stage)
  /\ stage' = stage + 1 /\ i' = 0
  /\ main' = IF stage + 1 \in Stages THEN "wait" ELSE "free"
  /\ UNCHANGED <<exit_count, mutex, sem_ready, ready, pc, index, spawner, child, joined>>

FreeTask ==
  /\ main = "free"
  /\ main' = "end"
  /\ UNCHANGED <<exit_count, mutex, sem_ready, ready, pc, index, spawner, child, stage, i, joined>>

MainStep ==
  MainSpawn \/ MainSpawned \/ WaitReady \/ JoinReady \/ JoinNull \/ NextStage \/ FreeTask

Ended == main \in {"end", "crash"}

Next == MainStep \/ (\E t \in Threads : thread_worker(t)) \/ (Ended /\ UNCHANGED vars)

Spec == Init /\ [][Next]_vars

(* Every thread that can run is eventually scheduled. *)
Fairness == WF_vars(MainStep) /\ \A t \in Threads : WF_vars(thread_worker(t))

FairSpec == Spec /\ Fairness

-----------------------------------------------------------------------------
(* Stages do not overlap: no thread of a stage exists before every thread  *)
(* of the stage before has done its work and taken an index, and the stage *)
(* is spawned by one thread only, one of that earlier stage.               *)
StagesInOrder ==
  \A t \in Threads : pc[t] # "none" /\ stageOf(t) > 0 =>
    /\ stageOf(spawner[stageOf(t)]) = stageOf(t) - 1
    /\ \A u \in Threads : stageOf(u) = stageOf(t) - 1 =>
         pc[u] \in {"unlock", "ready", "post", "last", "spawn", "returned"}

(* free_task runs only when every thread has been joined. *)
NoUseAfterFree == main = "end" => joined = Threads

(* "add ourself to the ready array" (threadtree.c, before the post of      *)
(* sem_ready): once wait_task has waited i + 1 times, ready[i] names a     *)
(* thread, and main never joins an entry that is still zero.               *)
JoinsAThread == main # "crash"

(* main always comes to its end, or to the join of an entry that is not    *)
(* filled yet: no wait blocks for ever.                                    *)
Termination == <>Ended

=============================================================================
