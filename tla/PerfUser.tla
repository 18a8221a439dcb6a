------------------------------ MODULE PerfUser ------------------------------
(***************************************************************************)
(* perfuser.c: threads that are interrupted by their own performance       *)
(* counters.  A counter sends SIGIO to its thread each time it has counted *)
(* `period' units of work.  REFRESH lets it overflow once more before the  *)
(* kernel turns it off; the handler works for a while and then refreshes   *)
(* it.  Every experiment that starts threads sets DISABLE_EARLY, so the    *)
(* other modes only matter to open_counter in experiment perf_event_open,  *)
(* where the handler cannot run at all.                                    *)
(***************************************************************************)
EXTENDS Calibrate, Profile

CONSTANTS
  nr_thread,   \* the number of threads
  ITER_MAIN,   \* the work of a thread
  Overheads,   \* the work of the handler, in the order it is tried
  Periods,     \* sample_period, in the order it is tried
  REPEAT,      \* the calls of a profiled function
  Clock        \* how much time may pass between two calls

ASSUME PerfUserAssumption ==
  /\ nr_thread \in Nat \ {0} /\ ITER_MAIN \in Nat /\ REPEAT \in Nat \ {0}
  /\ Overheads \in Seq(Nat) /\ Periods \in Seq(Nat \ {0, 1}) \ {<<>>} /\ Clock \subseteq Nat

VARIABLES
  exp,          \* the experiment
  disable,      \* "early" or "other": what the options say of the counters
  todo,         \* what the experiment still has to do: a sequence of jobs
  main,         \* where main is
  g_counters,   \* "null" or "live"
  th,           \* task -> what it is doing; task 0 is main, the others are the threads
  ev,           \* task -> its counter in the kernel
  fds,          \* file descriptor -> the task whose counter it is, or Closed
  crashed,      \* an assertion failed, or the handler read through a null pointer
  now, data     \* the time, and the times taken by profile_func

userVars == <<exp, disable, todo, main, g_counters, th, ev, fds, crashed, now, data>>
vars == <<calVars, userVars>>

Threads == 1 .. nr_thread
Tasks == 0 .. nr_thread
Closed == -1

-----------------------------------------------------------------------------
(* The experiments *)

One(overhead, period, dryrun) ==
  [do |-> "one", overhead |-> overhead, period |-> period, dryrun |-> dryrun]
Prof(func) == [do |-> "profile", func |-> func]

do_handler_work == [i \in DOMAIN Overheads |-> One(Overheads[i], Periods[1], FALSE)]

(* Each period twice, the second time as a dry run. *)
do_sampling_overhead ==
  [i \in 1 .. 2 * Len(Periods) |-> One(0, Periods[(i + 1) \div 2], i % 2 = 0)]

(* A profiled function without effect, such as unwinding the stack, is a   *)
(* delay.  Two of the depths and types of do_unwind_overhead_all are left. *)
do_unwind_overhead_one == <<Prof("null")>>
do_unwind_overhead_all == do_unwind_overhead_one \o do_unwind_overhead_one
do_perf_event_open_overhead == <<Prof("open")>>
do_perf_ioctl == <<[do |-> "open"], Prof("null"), Prof("refresh"), [do |-> "close"]>>

exps ==
  [handler_work |-> do_handler_work, sampling |-> do_sampling_overhead,
   unwind_all |-> do_unwind_overhead_all, unwind |-> do_unwind_overhead_one,
   perf_event_open |-> do_perf_event_open_overhead, perf_ioctl |-> do_perf_ioctl]

Job == Head(todo)
Idle == [pc |-> "none", left |-> 0, hand |-> "out", extra |-> 0, fd |-> 0, sig |-> FALSE, raced |-> FALSE]

Init ==
  /\ CalInit
  /\ exp \in DOMAIN exps
  /\ disable \in IF exp = "perf_event_open" THEN {"early", "other"} ELSE {"early"}
  /\ todo = exps[exp]
  /\ main = "calibrate"
  /\ g_counters = "null"
  /\ th = [t \in Tasks |-> Idle]
  /\ ev = [t \in Tasks |-> [on |-> FALSE, limit |-> 0, left |-> 0, period |-> 0, async |-> FALSE]]
  /\ fds = [f \in 1 .. nr_thread |-> Closed]
  /\ crashed = FALSE
  /\ now = 0 /\ data = <<>>

-----------------------------------------------------------------------------
(* The counters of the kernel *)

(* An overflow uses up one refresh, and the last one turns the counter     *)
(* off.  A counter that was enabled without a refresh is never turned off. *)
Overflows(e, n) == e.on /\ n = 1 /\ e.left = 1

Count1(e, n) ==
  IF Overflows(e, n)
  THEN [e EXCEPT !.left = e.period, !.on = e.limit # 1, !.limit = IF @ > 0 THEN @ - 1 ELSE 0]
  ELSE [e EXCEPT !.left = IF e.on THEN @ - n ELSE @]

Refresh(e) == [e EXCEPT !.on = TRUE, !.limit = @ + 1]
Enable(e) == [e EXCEPT !.on = TRUE]

(* Task t becomes r, while its counter e counts n units. *)
Becomes(t, e, n, r) ==
  th' = [th EXCEPT ![t] = [r EXCEPT !.sig = @ \/ (e.async /\ Overflows(e, n))]]
Works(t, e, n, r) == Becomes(t, e, n, r) /\ ev' = [ev EXCEPT ![t] = Count1(e, n)]

(* A pending SIGIO is handled before the task goes on. *)
Ready(t, pc) == th[t].pc = pc /\ th[t].hand = "out" /\ ~th[t].sig /\ ~crashed
Kept == <<exp, disable, todo, main, g_counters, crashed, now, data>>

-----------------------------------------------------------------------------
(* signal_handler *)

(* Mutant: the counter is on before the handler has done its work. *)
SignalHandler_early_refresh(t) ==
  /\ th[t].sig /\ th[t].hand = "out" /\ ~crashed
  /\ IF g_counters = "null"
     THEN crashed' = TRUE /\ th' = [th EXCEPT ![t].sig = FALSE] /\ UNCHANGED ev
     ELSE /\ th' = [th EXCEPT ![t].sig = FALSE, ![t].hand = "hog", ![t].extra = Job.overhead]
          /\ ev' = [ev EXCEPT ![t] = Refresh(@)]
          /\ UNCHANGED crashed
  /\ UNCHANGED <<exp, disable, todo, main, g_counters, fds, now, data>>

(* The first access of the handler is to the args of its entry of          *)
(* g_counters.  The count of hits, which is only printed, is left out.     *)
SignalHandler(t) ==
  /\ th[t].sig /\ th[t].hand = "out" /\ ~crashed
  /\ IF g_counters = "null"
     THEN crashed' = TRUE /\ th' = [th EXCEPT ![t].sig = FALSE]
     ELSE /\ th' = [th EXCEPT ![t].sig = FALSE, ![t].hand = "hog", ![t].extra = Job.overhead]
          /\ UNCHANGED crashed
  /\ UNCHANGED <<exp, disable, todo, main, g_counters, ev, fds, now, data>>

HandlerHog(t) ==
  /\ th[t].hand = "hog" /\ th[t].extra > 0
  /\ Works(t, ev[t], 1, [th[t] EXCEPT !.extra = @ - 1])
  /\ UNCHANGED <<fds, Kept>>

(* The descriptor may have been closed, and then the ioctl does nothing;   *)
(* OwnCounterOnly says that it is not another thread's.                    *)
HandlerRefresh(t) ==
  /\ th[t].hand = "hog" /\ th[t].extra = 0
  /\ LET c == fds[th[t].fd]
         back == [th[t] EXCEPT !.hand = "out"]
     IN  \/ c = t /\ \E n \in 0 .. 1 : Works(t, Refresh(ev[t]), n, back)
         \/ c = Closed /\ Works(t, ev[t], 0, back)
  /\ UNCHANGED <<fds, Kept>>

Handler(t) == SignalHandler(t) \/ HandlerHog(t) \/ HandlerRefresh(t)

-----------------------------------------------------------------------------
(* open_counter and close_counter, in a thread or, profiled, in main.  The *)
(* counter may count while the task is in the kernel.                      *)

Lowest == CHOOSE f \in DOMAIN fds : fds[f] = Closed /\ \A g \in 1 .. f - 1 : fds[g] # Closed
Attr == IF Job.do = "one" THEN Job.period ELSE Periods[1]

OpenCounter(t) ==
  /\ Ready(t, "open")
  /\ fds' = [fds EXCEPT ![Lowest] = t]
  /\ ev' = [ev EXCEPT ![t] = [on |-> FALSE, limit |-> 0, left |-> Attr, period |-> Attr, async |-> TRUE]]
  /\ th' = [th EXCEPT ![t].fd = Lowest, ![t].pc = IF disable = "early" THEN "refresh" ELSE "enable"]
  /\ UNCHANGED Kept

(* perf_event_open or one of the fcntls fails, and an assertion ends the   *)
(* process with every thread.                                              *)
OpenFails(t) ==
  /\ Ready(t, "open")
  /\ crashed' = TRUE
  /\ UNCHANGED <<exp, disable, todo, main, g_counters, th, ev, fds, now, data>>

OpenRefresh(t) ==
  /\ Ready(t, "refresh")
  /\ \E n \in 0 .. 1 : Works(t, Refresh(ev[t]), n, [th[t] EXCEPT !.pc = "enable"])
  /\ UNCHANGED <<fds, Kept>>

(* The counter is on since the REFRESH.  If it overflows on the way into   *)
(* this ioctl, ENABLE turns it on again without a limit.                   *)
OpenEnable(t) ==
  /\ Ready(t, "enable")
  /\ \E n \in 0 .. 1 :
        /\ ev' = [ev EXCEPT ![t] = Enable(Count1(@, n))]
        /\ Becomes(t, ev[t], n, [th[t] EXCEPT !.pc = IF t = 0 THEN "close" ELSE "barrier",
                                              !.raced = Count1(ev[t], n).limit = 0])
  /\ UNCHANGED <<fds, Kept>>

CloseCounter(t) ==
  /\ Ready(t, "close")
  /\ \E n \in 0 .. 1 :
        /\ ev' = [ev EXCEPT ![t].on = FALSE]
        /\ Becomes(t, ev[t], n, [th[t] EXCEPT !.pc = "done"])
  /\ fds' = [fds EXCEPT ![th[t].fd] = Closed]
  /\ UNCHANGED Kept

-----------------------------------------------------------------------------
(* do_work *)

DoWork(t) ==
  /\ Ready(t, "start")
  /\ th' = [th EXCEPT ![t].pc = IF Job.dryrun THEN "barrier" ELSE "open"]
  /\ UNCHANGED <<ev, fds, Kept>>

(* Whoever waits at the barrier is released, though some may be in their   *)
(* handler.                                                                *)
Released ==
  [t \in Tasks |-> IF th[t].pc = "wait" THEN [th[t] EXCEPT !.pc = "work", !.left = ITER_MAIN] ELSE th[t]]

(* Mutant: the threads do not wait for each other. *)
BarrierNone(t) ==
  /\ Ready(t, "barrier")
  /\ th' = [th EXCEPT ![t].pc = "work", ![t].left = ITER_MAIN]
  /\ UNCHANGED <<ev, fds, Kept>>

(* Mutant: the barrier is made for one thread more. *)
BarrierOneMore(t) ==
  /\ Ready(t, "barrier")
  /\ th' = [th EXCEPT ![t].pc = "wait"]
  /\ UNCHANGED <<ev, fds, Kept>>

Barrier(t) ==
  /\ Ready(t, "barrier")
  /\ LET last == \A u \in Threads \ {t} : th[u].pc = "wait"
     IN  th' = IF last THEN [Released EXCEPT ![t].pc = "work", ![t].left = ITER_MAIN]
                       ELSE [th EXCEPT ![t].pc = "wait"]
  /\ UNCHANGED <<ev, fds, Kept>>

(* What pthread_barrier_wait executes is counted too, so a thread that     *)
(* waits there may be interrupted.                                         *)
InBarrier(t) ==
  /\ Ready(t, "wait")
  /\ Works(t, ev[t], 1, th[t])
  /\ UNCHANGED <<fds, Kept>>

Hog(t) ==
  /\ Ready(t, "work") /\ th[t].left > 0
  /\ Works(t, ev[t], 1, [th[t] EXCEPT !.left = @ - 1])
  /\ UNCHANGED <<fds, Kept>>

EndWork(t) ==
  /\ Ready(t, "work") /\ th[t].left = 0
  /\ th' = [th EXCEPT ![t].pc = IF Job.dryrun THEN "done" ELSE "close"]
  /\ UNCHANGED <<ev, fds, Kept>>

ThreadEnds(t) ==
  /\ t # 0 /\ Ready(t, "done")
  /\ th' = [th EXCEPT ![t].pc = "ended"]
  /\ UNCHANGED <<ev, fds, Kept>>

Counter0(t) == OpenCounter(t) \/ OpenFails(t) \/ OpenRefresh(t) \/ OpenEnable(t) \/ CloseCounter(t)
Work(t) == DoWork(t) \/ Barrier(t) \/ InBarrier(t) \/ Hog(t) \/ EndWork(t) \/ ThreadEnds(t)

-----------------------------------------------------------------------------
(* main: do_one for the experiments with threads *)

Calibrated ==
  /\ main = "calibrate" /\ cal = "returned"
  /\ main' = "next"
  /\ UNCHANGED <<exp, disable, todo, g_counters, th, ev, fds, crashed, now, data>>

DoOne ==
  /\ main = "next" /\ todo # <<>> /\ Job.do = "one"
  /\ g_counters' = "live"
  /\ main' = "spawn"
  /\ th' = [t \in Tasks |-> Idle]
  /\ UNCHANGED <<exp, disable, todo, ev, fds, crashed, now, data>>

Spawn ==
  /\ main = "spawn"
  /\ \E t \in Threads :
        /\ th[t].pc = "none" /\ \A u \in 1 .. t - 1 : th[u].pc # "none"
        /\ th' = [th EXCEPT ![t].pc = "start"]
        /\ main' = IF t < nr_thread THEN "spawn" ELSE "join"
  /\ UNCHANGED <<exp, disable, todo, g_counters, ev, fds, crashed, now, data>>

Join ==
  /\ main = "join" /\ \A t \in Threads : th[t].pc = "ended"
  /\ g_counters' = "null"
  /\ todo' = Tail(todo)
  /\ main' = "next"
  /\ UNCHANGED <<exp, disable, th, ev, fds, crashed, now, data>>

-----------------------------------------------------------------------------
(* main: profiles.  REPEAT + 1 calls of the function, the first one to     *)
(* warm up, and the time before each of the others.                        *)

(* do_perf_ioctl opens a counter that sends no signals. *)
PerfOpen ==
  /\ main = "next" /\ todo # <<>> /\ Job.do = "open"
  /\ fds' = [fds EXCEPT ![Lowest] = 0]
  /\ th' = [th EXCEPT ![0].fd = Lowest]
  /\ ev' = [ev EXCEPT ![0] = [on |-> FALSE, limit |-> 0, left |-> Attr, period |-> Attr, async |-> FALSE]]
  /\ todo' = Tail(todo)
  /\ UNCHANGED <<exp, disable, main, g_counters, crashed, now, data>>

PerfClose ==
  /\ main = "next" /\ todo # <<>> /\ Job.do = "close"
  /\ fds' = [fds EXCEPT ![th[0].fd] = Closed]
  /\ ev' = [ev EXCEPT ![0].on = FALSE]
  /\ todo' = Tail(todo)
  /\ UNCHANGED <<exp, disable, main, g_counters, th, crashed, now, data>>

profile_init ==
  /\ main = "next" /\ todo # <<>> /\ Job.do = "profile"
  /\ data' = <<>>
  /\ main' = "func"
  /\ UNCHANGED <<exp, disable, todo, g_counters, th, ev, fds, crashed, now>>

(* The function that is profiled begins; open_counter takes steps of its   *)
(* own, the others are over at once.                                       *)
Func ==
  /\ main = "func"
  /\ main' = "return"
  /\ th' = [th EXCEPT ![0].pc = IF Job.func = "open" THEN "open" ELSE "done"]
  /\ ev' = IF Job.func = "refresh" THEN [ev EXCEPT ![0] = Refresh(@)] ELSE ev
  /\ UNCHANGED <<exp, disable, todo, g_counters, fds, crashed, now, data>>

Stamp ==
  /\ main = "return" /\ Ready(0, "done") /\ Len(data) < REPEAT
  /\ \E d \in Clock : now' = now + d
  /\ data' = Append(data, timespec(now'))
  /\ main' = "func"
  /\ UNCHANGED <<exp, disable, todo, g_counters, th, ev, fds, crashed>>

(* profile_stats, profile_save and profile_destroy *)
EndProfile ==
  /\ main = "return" /\ Ready(0, "done") /\ Len(data) = REPEAT
  /\ todo' = Tail(todo)
  /\ main' = "next"
  /\ UNCHANGED <<exp, disable, g_counters, th, ev, fds, crashed, now, data>>

Main ==
  \/ Calibrated \/ DoOne \/ Spawn \/ Join
  \/ PerfOpen \/ PerfClose \/ profile_init \/ Func \/ Stamp \/ EndProfile

Done == crashed \/ (main = "next" /\ todo = <<>>)

Task(t) == Handler(t) \/ Counter0(t) \/ Work(t)

Next ==
  \/ calibrate /\ UNCHANGED userVars
  \/ (Main \/ \E t \in Tasks : Task(t)) /\ UNCHANGED calVars
  \/ Done /\ UNCHANGED vars

(* Threads and main run when they can; time passes and the alarm comes; and *)
(* again and again the process gets the CPU between two alarms.             *)
FairSpec ==
  /\ Init /\ [][Next]_vars
  /\ WF_vars(calibrate /\ UNCHANGED userVars)
  /\ SF_vars((Counter \/ Sample) /\ UNCHANGED userVars)
  /\ WF_vars(Main /\ UNCHANGED calVars)
  /\ \A t \in Tasks : WF_vars(Task(t) /\ UNCHANGED calVars)

-----------------------------------------------------------------------------
(* The handler of a thread that has closed its counter may still run, with *)
(* the number of a descriptor that is free again.  It never refreshes the  *)
(* counter of another thread, because the barrier keeps every thread from  *)
(* closing its counter before all have opened theirs.                      *)
OwnCounterOnly ==
  \A t \in Tasks : th[t].hand = "hog" => fds[th[t].fd] \in {t, Closed}

(* DISABLE_EARLY: the work of the handler is not counted, except in a      *)
(* thread whose counter overflowed between the REFRESH and the ENABLE of   *)
(* open_counter.                                                           *)
HandlerUncounted ==
  \A t \in Threads : th[t].hand = "hog" /\ ev[t].on => th[t].raced

(* The total of profile_stats is the time between the first and the last   *)
(* call, and a normalised timespec.                                        *)
DeltasAddUp ==
  main = "next" /\ Len(data) = REPEAT =>
    LET total == profile_stats(data)
    IN  /\ timespec_to_double_ns(total)
             = timespec_to_double_ns(data[REPEAT]) - timespec_to_double_ns(data[1])
        /\ total.tv_nsec \in 0 .. NSEC - 1

(* Every experiment ends, unless a counter without limit interrupts a      *)
(* handler that works for longer than a period: then each run of the       *)
(* handler earns the next one, and the thread never goes on.               *)
HandlerForEver ==
  main = "join" /\ \E t \in Threads : th[t].raced /\ Job.overhead + 1 >= ev[t].period

ExperimentsEnd == <>(Done \/ HandlerForEver)

=============================================================================
