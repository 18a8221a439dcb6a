----------------------------- MODULE SpinUsers ------------------------------
(***************************************************************************)
(* The spin library with one of two users: any single-threaded client      *)
(* (SpinClient), or wk-pulse (Pulse), which adds the time of day.          *)
(***************************************************************************)
EXTENDS SpinClient, Pulse

VARIABLE user

pulseOnly == <<exp, phase, i, now, began>>
allVars == <<vars, calls, pulseOnly, user>>

Options(spins, freqs, durations) ==
  [spin : spins, freq : freqs, duration : durations, nrcpus : {1}]

(* A second has 12 microseconds.  Bursts shorter and longer than the       *)
(* period, a burst setitimer refuses, a frequency of 1 (a sleep of a full  *)
(* second), durations of two seconds and a half and of less than one, and  *)
(* an empty cpuset.                                                        *)
ManyOptions ==
  Options({1, 5, 12}, {1, 2, 4}, {24}) \cup Options({1}, {4}, {30, 11}) \cup
  {[spin |-> 1, freq |-> 1, duration |-> 12, nrcpus |-> 0]}

UsersInit ==
  \/ /\ user = "any" /\ ClientInit
     /\ exp = [spin |-> 1, freq |-> 1, duration |-> 0, nrcpus |-> 0]
     /\ phase = "none" /\ i = 0 /\ now = 0 /\ began = -1
  \/ user = "pulse" /\ PulseInit /\ calls = 0

Any(A) == user = "any" /\ A /\ UNCHANGED <<pulseOnly, user>>
Timed(A) == user = "pulse" /\ A /\ UNCHANGED <<calls, user>>

UsersNext == Any(ClientNext) \/ Timed(PulseNext)

(* The scheduler runs every runnable thread, a call that has begun goes    *)
(* on, main of wk-pulse goes on, and an armed timer expires.               *)
UsersSpec ==
  /\ UsersInit /\ [][UsersNext]_allVars
  /\ WF_allVars(Any(Step(InCall)))
  /\ WF_allVars(Any(Step(signalhandler)))
  /\ WF_allVars(Timed(Main))
  /\ WF_allVars(Timed(Alarm))
  /\ WF_allVars(Timed(InLibrary(InCall) /\ UNCHANGED now))
  /\ \A t \in Threads :
        /\ WF_allVars(Any(Step(worker(t))))
        /\ WF_allVars(Timed(InLibrary(worker(t)) /\ UNCHANGED now))

-----------------------------------------------------------------------------
(* Every call of the library returns, whatever the order of the calls and  *)
(* whenever the alarm comes, unless setitimer makes the process exit or    *)
(* the call is spin_run(0), which disarms its own timer; and wk-pulse,     *)
(* which never makes that call, ends.                                      *)
UsersReturn ==
  /\ CallsReturn
  /\ user = "pulse" => <>Ended

=============================================================================
