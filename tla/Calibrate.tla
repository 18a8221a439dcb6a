------------------------------ MODULE Calibrate -----------------------------
(***************************************************************************)
(* calibrate.c: how far the CPU counts between two alarms of a periodic    *)
(* ITIMER_REAL.  The unit of time is one turn of the counting loop.  The   *)
(* process may lose the CPU at any point, and then time passes without it. *)
(* A module that calls calibrate EXTENDS this one and takes its steps      *)
(* while cal # "returned".                                                 *)
(***************************************************************************)
EXTENDS Integers

CONSTANTS
  USEC,   \* the interval of the timer
  HIST    \* the number of samples

ASSUME CalibrateAssumption == USEC \in Nat \ {0} /\ HIST \in Nat \ {0}

VARIABLES
  cal,      \* where calibrate is: "setitimer", "counter", "loop", "stop", "returned"
  run,      \* the flag that signalhandler resets
  timer,    \* time to the next alarm, -1 when it is off
  sample,   \* the samples taken, the warm-up included
  count,    \* how far counter has counted
  result    \* the sum of the samples, and in the end their average

calVars == <<cal, run, timer, sample, count, result>>

CalInit ==
  /\ cal = "setitimer" /\ run = 0 /\ timer = -1
  /\ sample = 0 /\ count = 0 /\ result = 0

(* SIGALRM: an expired timer interrupts whatever the process is doing. *)
Expired == timer = 0

(* Mutant: the timer has no interval, and expires once. *)
signalhandler_once == Expired /\ run' = 0 /\ timer' = -1 /\ UNCHANGED <<cal, sample, count, result>>

signalhandler ==
  /\ Expired
  /\ run' = 0
  /\ timer' = USEC
  /\ UNCHANGED <<cal, sample, count, result>>

(* The process does not run. *)
Preempted ==
  /\ cal \in {"counter", "loop"} /\ timer > 0
  /\ timer' = timer - 1
  /\ UNCHANGED <<cal, run, sample, count, result>>

SetTimer ==
  /\ cal = "setitimer"
  /\ timer' = USEC
  /\ cal' = "counter"
  /\ UNCHANGED <<run, sample, count, result>>

(* counter begins: an alarm since the last sample ended is forgotten. *)
Counter ==
  /\ cal = "counter" /\ ~Expired
  /\ run' = 1
  /\ count' = 0
  /\ cal' = "loop"
  /\ UNCHANGED <<timer, sample, result>>

Count ==
  /\ cal = "loop" /\ run = 1 /\ ~Expired
  /\ count' = count + 1
  /\ timer' = timer - 1
  /\ UNCHANGED <<cal, run, sample, result>>

(* counter returns; the first result is the warm-up and is dropped. *)
Sample ==
  /\ cal = "loop" /\ run = 0 /\ ~Expired
  /\ result' = IF sample = 0 THEN 0 ELSE result + count
  /\ sample' = sample + 1
  /\ cal' = IF sample < HIST THEN "counter" ELSE "stop"
  /\ UNCHANGED <<run, timer, count>>

StopTimer ==
  /\ cal = "stop"
  /\ timer' = -1
  /\ result' = result \div HIST
  /\ cal' = "returned"
  /\ UNCHANGED <<run, sample, count>>

calibrate == signalhandler \/ Preempted \/ SetTimer \/ Counter \/ Count \/ Sample \/ StopTimer

CalSpec == CalInit /\ [][calibrate]_calVars

-----------------------------------------------------------------------------
(* Whatever alarms are lost between two samples, no sample and no result   *)
(* of calibrate covers more than one interval.                             *)
AtMostOneInterval ==
  /\ count <= USEC
  /\ cal = "returned" => result <= USEC

(* The inductive invariant: while counter counts, what it has counted and  *)
(* the time to the alarm fit in one interval, and the samples summed up so *)
(* far, all but the warm-up, fit in as many intervals.                     *)
CalInv ==
  /\ cal \in {"setitimer", "counter", "loop", "stop", "returned"}
  /\ run \in 0 .. 1 /\ timer \in -1 .. USEC
  /\ count \in 0 .. USEC /\ sample \in 0 .. HIST + 1 /\ result \in Nat
  /\ cal \in {"counter", "loop"} => timer >= 0
  /\ cal = "loop" /\ run = 1 => count + timer <= USEC
  /\ cal \in {"setitimer", "counter", "loop"} => sample <= HIST
  /\ cal = "stop" => sample = HIST + 1
  /\ cal # "returned" => result <= (IF sample = 0 THEN 0 ELSE sample - 1) * USEC
  /\ cal = "returned" => result <= USEC

=============================================================================
