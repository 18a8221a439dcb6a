----------------------------- MODULE SpinClient -----------------------------
(***************************************************************************)
(* The spin library under any client: a thread that makes at most          *)
(* MAX_CALLS calls of spin_init, spin_run and spin_exit in any order.      *)
(***************************************************************************)
EXTENDS Spin

CONSTANTS
  Usecs,      \* the arguments the client passes to spin_run
  MAX_CALLS   \* bound on the calls that do something

VARIABLE calls

clientVars == <<vars, calls>>

ClientInit == Init /\ calls = 0

Call ==
  /\ calls < MAX_CALLS
  /\ calls' = calls + 1
  /\ spin_init \/ (\E u \in Usecs : spin_run(u)) \/ spin_exit

(* The client has stopped calling, or the process has exited. *)
Idle == api = "exited" \/ (api = "idle" /\ calls = MAX_CALLS)

Step(A) == A /\ UNCHANGED calls

ClientNext ==
  \/ Call
  \/ Step(InCall)
  \/ Step(signalhandler)
  \/ \E i \in Threads : Step(worker(i))
  \/ (\E i \in Threads : wpc[i] = "spin" /\ run = 1) /\ UNCHANGED clientVars  \* x++
  \/ Idle /\ UNCHANGED clientVars

-----------------------------------------------------------------------------
(* Between two calls the library is quiet: no alarm is still to come that  *)
(* would cut the next burst short, no semaphore is posted, no worker is    *)
(* inside a burst, and since the last spin_init every worker has taken     *)
(* part in each burst exactly once.                                        *)
QuietBetweenCalls ==
  api = "idle" /\ cont = 1 =>
    /\ Threads # {} => timer = "off"
    /\ \A i \in Threads : /\ sem_start[i] = 0 /\ sem_done[i] = 0
                          /\ wpc[i] \in {"init", "wait"}
                          /\ spun[i] = rounds

(* A burst lasts until the alarm of its own round: no worker leaves the    *)
(* busy loop of round n before n alarms have been delivered.               *)
BurstEndsByAlarm ==
  \A i \in Threads : wpc[i] = "post" => fired = rounds

(* spin_exit frees the semaphores and the arguments only when no worker    *)
(* can use them any more.                                                  *)
NoUseAfterFree ==
  heap # "live" => \A i \in Threads : wpc[i] \in {"none", "returned"}

(* Every call returns, whatever the order of the calls and whenever the    *)
(* alarm comes, unless setitimer makes the process exit.  The one call     *)
(* that does not return is spin_run(0), which disarms its own timer.       *)
CallsReturn ==
  api # "idle" ~> \/ api \in {"idle", "exited"}
                  \/ api = "finish" /\ usec = 0 /\ timer = "off"

=============================================================================
