----------------------------- MODULE SchedFreq ------------------------------
(***************************************************************************)
(* wk-schedfreq (src/schedfreq.c): n workers force the scheduler to switch *)
(* repeat times each.  With the library "sems" they pass one token round   *)
(* a ring of semaphores; with "nanosleep" each one sleeps on its own.      *)
(***************************************************************************)
EXTENDS Integers

CONSTANTS n, repeat

ASSUME SchedAssumption == n \in Nat \ {0} /\ repeat \in Nat

Ranks == 0 .. n - 1

(* The two usable entries of libs; any other name makes get_lib return     *)
(* NULL and parse_opts call usage.                                         *)
Libs == {"sems", "nanosleep"}

VARIABLES
  lib,       \* exp.lib
  data,      \* exp.data: "none", the live semaphores, or "freed"
  sems,      \* the values of the semaphores
  pc, i,     \* each worker: its next statement and its loop counter
  main, k    \* main: where it is, and its loop counter

schedVars == <<lib, data, sems, pc, i, main, k>>

SchedInit ==
  /\ lib \in Libs
  /\ data = "none"
  /\ sems = [r \in Ranks |-> 0]
  /\ pc = [r \in Ranks |-> "none"]
  /\ i = [r \in Ranks |-> 0]
  /\ main = "init" /\ k = 0

next(r) == (r + 1) % n

-----------------------------------------------------------------------------
(* sems_wrk *)

sem_wait(r) ==
  /\ lib = "sems" /\ pc[r] = "loop"
  /\ i[r] < repeat
  /\ sems[r] > 0
  /\ sems' = [sems EXCEPT ![r] = @ - 1]
  /\ pc' = [pc EXCEPT ![r] = "post"]
  /\ UNCHANGED <<lib, data, i, main, k>>

(* Mutant: the token goes back to its owner. *)
sem_post_self(r) ==
  /\ pc[r] = "post"
  /\ sems' = [sems EXCEPT ![r] = @ + 1]
  /\ pc' = [pc EXCEPT ![r] = "loop"]
  /\ i' = [i EXCEPT ![r] = @ + 1]
  /\ UNCHANGED <<lib, data, main, k>>

sem_post(r) ==
  /\ pc[r] = "post"
  /\ sems' = [sems EXCEPT ![next(r)] = @ + 1]
  /\ pc' = [pc EXCEPT ![r] = "loop"]
  /\ i' = [i EXCEPT ![r] = @ + 1]
  /\ UNCHANGED <<lib, data, main, k>>

(* ns_wrk *)
nanosleep(r) ==
  /\ lib = "nanosleep" /\ pc[r] = "loop"
  /\ i[r] < repeat
  /\ i' = [i EXCEPT ![r] = @ + 1]
  /\ UNCHANGED <<lib, data, sems, pc, main, k>>

(* Mutant: a worker leaves the ring one round early. *)
ReturnEarly(r) ==
  /\ pc[r] = "loop"
  /\ i[r] >= repeat - r
  /\ pc' = [pc EXCEPT ![r] = "done"]
  /\ UNCHANGED <<lib, data, sems, i, main, k>>

Return(r) ==
  /\ pc[r] = "loop"
  /\ i[r] >= repeat
  /\ pc' = [pc EXCEPT ![r] = "done"]
  /\ UNCHANGED <<lib, data, sems, i, main, k>>

worker(r) == sem_wait(r) \/ sem_post(r) \/ nanosleep(r) \/ Return(r)

-----------------------------------------------------------------------------
(* main *)

(* lib->init: sems_init gives the token to rank 0; nanosleep has no init. *)
LibInit ==
  /\ main = "init"
  /\ sems' = [r \in Ranks |-> IF lib = "sems" /\ r = 0 THEN 1 ELSE 0]
  /\ data' = IF lib = "sems" THEN "live" ELSE data
  /\ main' = "create"
  /\ UNCHANGED <<lib, pc, i, k>>

Create ==
  /\ main = "create" /\ k < n
  /\ pc' = [pc EXCEPT ![k] = "loop"]
  /\ k' = k + 1
  /\ UNCHANGED <<lib, data, sems, i, main>>

CreatedAll ==
  /\ main = "create" /\ k = n
  /\ main' = "join" /\ k' = 0
  /\ UNCHANGED <<lib, data, sems, pc, i>>

Join ==
  /\ main = "join" /\ k < n
  /\ pc[k] = "done"
  /\ k' = k + 1
  /\ UNCHANGED <<lib, data, sems, pc, i, main>>

(* Mutant: the semaphores are freed once the first worker is joined. *)
LibDoneFirst ==
  /\ main = "join" /\ k >= 1
  /\ data' = IF lib = "sems" THEN "freed" ELSE data
  /\ main' = "exit"
  /\ UNCHANGED <<lib, sems, pc, i, k>>

(* lib->done, after which main returns. *)
LibDone ==
  /\ main = "join" /\ k = n
  /\ data' = IF lib = "sems" THEN "freed" ELSE data
  /\ main' = "exit"
  /\ UNCHANGED <<lib, sems, pc, i, k>>

Main == LibInit \/ Create \/ CreatedAll \/ Join \/ LibDone

Terminated == main = "exit" /\ UNCHANGED schedVars

SchedNext == (\E r \in Ranks : worker(r)) \/ Main \/ Terminated

SchedSpec == SchedInit /\ [][SchedNext]_schedVars

(* Every thread that can run is eventually scheduled. *)
Fairness == WF_schedVars(Main) /\ \A r \in Ranks : WF_schedVars(worker(r))

SchedFairSpec == SchedSpec /\ Fairness

-----------------------------------------------------------------------------
(* The values of the variables; in particular no semaphore exceeds 1: two  *)
(* workers never run without having been switched to.                      *)
TypeOK ==
  /\ lib \in Libs
  /\ data \in {"none", "live", "freed"}
  /\ sems \in [Ranks -> 0 .. 1]
  /\ pc \in [Ranks -> {"none", "loop", "post", "done"}]
  /\ i \in [Ranks -> 0 .. repeat]
  /\ main \in {"init", "create", "join", "exit"}
  /\ k \in 0 .. n

(* "force scheduling with a round-robin semaphore" (schedfreq.c, above     *)
(* sems_wrk): workers take their turns in the order of their ranks, and no *)
(* two of them are between sem_wait and sem_post.                          *)
RoundRobin ==
  lib = "sems" =>
    /\ \A r, s \in Ranks : r < s => i[s] <= i[r] /\ i[r] <= i[s] + 1
    /\ \A r, s \in Ranks : pc[r] = "post" /\ pc[s] = "post" => r = s

(* The semaphores are freed only when no worker can use them any more.     *)
NoUseAfterFree ==
  data = "freed" => \A r \in Ranks : pc[r] = "done" /\ i[r] = repeat

(* The ring never stalls: every worker makes its repeat rounds and main    *)
(* joins them all.                                                         *)
Termination == <>(main = "exit")

-----------------------------------------------------------------------------
(* The token is at rank p: posted to its semaphore, or held by its worker; *)
(* the ranks before p are one round ahead of the others.                   *)
TokenAt(p, round) ==
  /\ \A r \in Ranks : i[r] = IF r < p THEN round + 1 ELSE round
  /\ \/ sems[p] = 1 /\ \A r \in Ranks : pc[r] # "post"
     \/ sems[p] = 0 /\ \A r \in Ranks : pc[r] = "post" <=> r = p
  /\ \A r \in Ranks \ {p} : sems[r] = 0

(* What main has done so far. *)
MainInv ==
  /\ main \in {"init", "create"} =>
       \A r \in Ranks : pc[r] = "none" <=> (main = "init" \/ r >= k)
  /\ main = "init" => k = 0 /\ data = "none" /\ \A r \in Ranks : i[r] = 0 /\ sems[r] = 0
  /\ main \in {"join", "exit"} =>
       \A r \in Ranks : pc[r] # "none" /\ (r < k => pc[r] = "done")
  /\ main = "exit" => k = n
  /\ data = "freed" => main = "exit"

(* The inductive invariant: one token, and a worker is done after its last *)
(* round.                                                                  *)
IInv ==
  /\ TypeOK
  /\ MainInv
  /\ \A r \in Ranks : /\ pc[r] = "done" => i[r] = repeat
                      /\ pc[r] = "post" => i[r] < repeat /\ lib = "sems"
                      /\ pc[r] = "none" => i[r] = 0
  /\ lib = "sems" /\ main # "init" => \E p \in Ranks, round \in 0 .. repeat : TokenAt(p, round)

=============================================================================
