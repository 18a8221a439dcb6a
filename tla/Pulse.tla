------------------------------- MODULE Pulse --------------------------------
(***************************************************************************)
(* wk-pulse (src/pulse.c): main makes nr_iter bursts with the spin         *)
(* library, each after a sleep to the next multiple of the period.         *)
(*                                                                         *)
(* now is the time of day in microseconds, scaled so that a second has     *)
(* USEC_PER_SEC of them.  Time passes in the sleep and while the workers   *)
(* spin; each may last up to LATE longer than asked.                       *)
(***************************************************************************)
EXTENDS Spin

CONSTANTS
  Experiments,   \* the options: records [spin, freq, duration, nrcpus]
  Starts,        \* the times of day at which the program may be started
  LATE           \* bound on the delay of a wake-up or an alarm

VARIABLES
  exp,           \* the struct experiment filled by parse_opts
  phase, i,      \* where main is, and its loop counter
  now,
  began          \* history: when the last burst began, -1 before the first

pulseVars == <<vars, exp, phase, i, now, began>>

nr_iter == (exp.duration \div USEC_PER_SEC) * exp.freq
period  == USEC_PER_SEC \div exp.freq
(* Mutant: a sleep of one period, whatever the time of day. *)
sync_fixed == period

sync    == period - ((now % USEC_PER_SEC) % period)

PulseInit ==
  /\ Init
  /\ exp \in Experiments
  /\ phase = "parse" /\ i = 0
  /\ now \in Starts
  /\ began = -1

(* parse_opts refuses an empty cpuset; then main calls spin_init. *)
ParseOpts ==
  /\ phase = "parse"
  /\ \/ exp.nrcpus = 0 /\ phase' = "end" /\ UNCHANGED vars
     \/ exp.nrcpus > 0 /\ phase' = "loop" /\ spin_init
  /\ UNCHANGED <<exp, i, now, began>>

(* nanosleep refuses a tv_nsec of a second with EINVAL and does not sleep. *)
Sleep ==
  /\ phase = "loop" /\ api = "idle" /\ i < nr_iter
  /\ \E late \in 0 .. LATE :
        now' = IF sync < USEC_PER_SEC THEN now + sync + late ELSE now
  /\ phase' = "burst"
  /\ UNCHANGED <<vars, exp, i, began>>

Burst ==
  /\ phase = "burst" /\ api = "idle"
  /\ spin_run(exp.spin)
  /\ began' = IF cont = 1 THEN now ELSE began
  /\ i' = i + 1
  /\ phase' = "loop"
  /\ UNCHANGED <<exp, now>>

(* Mutant: the loop ends one burst early. *)
ExitEarly ==
  /\ phase = "loop" /\ api = "idle" /\ i >= nr_iter - 1
  /\ spin_exit
  /\ phase' = "exit"
  /\ UNCHANGED <<exp, i, now, began>>

Exit ==
  /\ phase = "loop" /\ api = "idle" /\ i >= nr_iter
  /\ spin_exit
  /\ phase' = "exit"
  /\ UNCHANGED <<exp, i, now, began>>

Return ==
  /\ phase = "exit" /\ api = "idle"
  /\ phase' = "end"
  /\ UNCHANGED <<vars, exp, i, now, began>>

Main == ParseOpts \/ Sleep \/ Burst \/ Exit \/ Return

InLibrary(A) == A /\ UNCHANGED <<exp, phase, i, began>>

(* The alarm of a burst comes after the time the burst asked for. *)
Alarm ==
  /\ InLibrary(signalhandler)
  /\ \E late \in 0 .. LATE : now' = now + usec + late

Ended == phase = "end" \/ api = "exited"

PulseNext ==
  \/ Main
  \/ Alarm
  \/ InLibrary(InCall) /\ UNCHANGED now
  \/ \E t \in Threads : InLibrary(worker(t)) /\ UNCHANGED now
  \/ Ended /\ UNCHANGED pulseVars

-----------------------------------------------------------------------------
(* A burst, and with it a new value of i, begins at a multiple of the      *)
(* period, late by no more than its own wake-up, and the burst before it   *)
(* began before that multiple: delays do not add up, no period has two     *)
(* bursts, however short or long they are, and the sleep of a full second  *)
(* that nanosleep refuses does no harm.  A second is taken to be a whole   *)
(* number of periods: main starts counting again at each second.           *)
BurstsOnTime ==
  [][now % period <= LATE /\ began < now - (now % period)]_i

(* wk-pulse returns from main only after every worker has been joined and  *)
(* has made freq bursts for each whole second of the duration, no more and *)
(* no fewer (none for less than a second), unless there are no workers     *)
(* since the cpuset is empty or spin_init failed.                          *)
BurstsCoverDuration ==
  phase = "end" =>
    \/ rounds = 0 /\ \A t \in Threads : wpc[t] = "none"
    \/ \A t \in Threads :
         /\ wpc[t] = "returned"
         /\ spun[t] * USEC_PER_SEC = (exp.duration - (exp.duration % USEC_PER_SEC)) * exp.freq

=============================================================================
