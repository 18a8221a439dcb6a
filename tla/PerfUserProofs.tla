--------------------------- MODULE PerfUserProofs ---------------------------
(***************************************************************************)
(* perfuser for any number of threads, any periods and overheads; before   *)
(* it calibrate for every interval and every number of samples, and the    *)
(* time arithmetic of utils.c for every length of a second.                *)
(***************************************************************************)
EXTENDS PerfUser, FiniteSetTheorems, TLAPS

(* n samples of at most USEC each add up to no more than n * USEC. *)
LEMMA OneMoreInterval ==
  ASSUME NEW n \in Nat, NEW u \in Nat, NEW r \in Nat, NEW c \in 0 .. u, r <= n * u
  PROVE  r + c <= (n + 1) * u
<1>1. (n + 1) * u = n * u + u BY SMT
<1>. QED BY <1>1, SMT

(* The average of h samples that add up to no more than h * u. *)
LEMMA AverageBounded ==
  ASSUME NEW h \in Nat \ {0}, NEW u \in Nat, NEW r \in Nat, r <= h * u
  PROVE  r \div h \in Nat /\ r \div h <= u
<1>. DEFINE q == r \div h
<1>1. /\ q \in Int /\ r = h * q + (r % h) /\ r % h \in 0 .. h - 1
  BY SMT
<1>2. q >= 0
  BY <1>1, SMT
<1>3. q <= u
  <2>1. SUFFICES ASSUME q >= u + 1 PROVE FALSE BY <1>1, SMT
  <2>2. h * q >= h * (u + 1) BY <1>1, <2>1, SMT
  <2>3. h * (u + 1) = h * u + h BY SMT
  <2>. QED BY <1>1, <2>2, <2>3, SMT
<1>. QED BY <1>1, <1>2, <1>3, SMT

LEMMA CalInitial == CalInit => CalInv
BY CalibrateAssumption DEF CalInit, CalInv

LEMMA CalInductive == CalInv /\ [calibrate]_calVars => CalInv'
<1>. SUFFICES ASSUME CalInv, [calibrate]_calVars PROVE CalInv'
  OBVIOUS
<1>. USE CalibrateAssumption
<1>1. CASE signalhandler BY <1>1 DEF CalInv, signalhandler, Expired
<1>2. CASE Preempted BY <1>2 DEF CalInv, Preempted
<1>3. CASE SetTimer BY <1>3 DEF CalInv, SetTimer
<1>4. CASE Counter BY <1>4 DEF CalInv, Counter, Expired
<1>5. CASE Count BY <1>5 DEF CalInv, Count, Expired
<1>6. CASE Sample
  <2>1. sample \in 0 .. HIST /\ sample' = sample + 1 /\ cal # "returned" /\ count' = count
    BY <1>6 DEF CalInv, Sample
  <2>2. result' \in Nat /\ result' <= sample * USEC
    <3>1. CASE sample = 0 BY <1>6, <2>1, <3>1 DEF CalInv, Sample
    <3>2. CASE sample > 0
      <4>1. result' = result + count BY <1>6, <2>1, <3>2 DEF Sample
      <4>2. sample - 1 \in Nat /\ result \in Nat /\ count \in 0 .. USEC
        BY <2>1, <3>2 DEF CalInv
      <4>3. result <= (sample - 1) * USEC BY <2>1, <3>2 DEF CalInv
      <4>4. result + count <= ((sample - 1) + 1) * USEC BY <4>2, <4>3, OneMoreInterval
      <4>. QED BY <4>1, <4>2, <4>4, <2>1
    <3>. QED BY <2>1, <3>1, <3>2
  <2>3. result' <= (IF sample' = 0 THEN 0 ELSE sample' - 1) * USEC
    BY <2>1, <2>2
  <2>. QED BY <1>6, <2>1, <2>2, <2>3 DEF CalInv, Sample, Expired
<1>7. CASE StopTimer
  <2>1. result <= HIST * USEC BY <1>7 DEF CalInv, StopTimer
  <2>2. result' \in Nat /\ result' <= USEC
    BY <1>7, <2>1, AverageBounded DEF CalInv, StopTimer
  <2>. QED BY <1>7, <2>2 DEF CalInv, StopTimer
<1>8. CASE UNCHANGED calVars BY <1>8 DEF CalInv, calVars
<1>. QED BY <1>1, <1>2, <1>3, <1>4, <1>5, <1>6, <1>7, <1>8 DEF calibrate

(* For every interval and every number of samples, whatever alarms are     *)
(* lost and however long the process is kept from running, no sample of    *)
(* calibrate.c and not its result cover more than one interval.            *)
THEOREM OneInterval == CalSpec => []AtMostOneInterval
<1>1. CalInv => AtMostOneInterval BY CalibrateAssumption DEF CalInv, AtMostOneInterval
<1>. QED BY CalInitial, CalInductive, <1>1, PTL DEF CalSpec

-----------------------------------------------------------------------------
(* A normalised timespec. *)
Normal(t) == t \in [tv_sec : Int, tv_nsec : 0 .. NSEC - 1]

(* For every length of a second, time_sub and time_add of utils.c give     *)
(* normalised times that differ by, and add up to, the nanoseconds of      *)
(* their arguments, whatever is borrowed or carried.                       *)
THEOREM TimeArithmetic ==
  ASSUME NEW x, NEW y, Normal(x), Normal(y)
  PROVE  /\ Normal(time_sub(x, y)) /\ Normal(time_add(x, y))
         /\ timespec_to_double_ns(time_sub(x, y)) = timespec_to_double_ns(x) - timespec_to_double_ns(y)
         /\ timespec_to_double_ns(time_add(x, y)) = timespec_to_double_ns(x) + timespec_to_double_ns(y)
<1>. USE ProfileAssumption DEF Normal
<1>1. Normal(time_sub(x, y)) BY DEF time_sub
<1>2. Normal(time_add(x, y)) BY DEF time_add
<1>3. timespec_to_double_ns(time_sub(x, y)) = timespec_to_double_ns(x) - timespec_to_double_ns(y)
  BY DEF time_sub, timespec_to_double_ns
<1>4. timespec_to_double_ns(time_add(x, y)) = timespec_to_double_ns(x) + timespec_to_double_ns(y)
  BY DEF time_add, timespec_to_double_ns
<1>. QED BY <1>1, <1>2, <1>3, <1>4

(* A set of numbers that is not empty has a smallest member. *)
LEMMA Smallest ==
  ASSUME NEW T, T \subseteq Nat, T # {}
  PROVE  \E m \in T : \A k \in T : m <= k
<1>1. IsWellFoundedOn(OpToRel(<, Nat), Nat)
  BY NatLessThanWellFounded
<1>2. \E m \in T : \A k \in T : ~(<<k, m>> \in OpToRel(<, Nat))
  BY <1>1, WFMin
<1>3. PICK m \in T : \A k \in T : ~(<<k, m>> \in OpToRel(<, Nat))
  BY <1>2
<1>4. \A k \in Nat : k < m => <<k, m>> \in OpToRel(<, Nat)
  BY <1>3 DEF OpToRel
<1>5. ASSUME NEW k \in T PROVE m <= k
  <2>1. k \in Nat /\ m \in Nat OBVIOUS
  <2>2. ~(k < m) BY <1>3, <1>4, <2>1
  <2>. QED BY <2>1, <2>2
<1>. QED BY <1>5

(* The total of profile_stats, as a relation between a function and the    *)
(* samples it sums up.                                                     *)
Delta(d, i) == time_sub(d[i + 1], d[i])
Totals(f, d, n) ==
  f = [i \in 0 .. n |-> IF i = 0 THEN timespec(0) ELSE time_add(f[i - 1], Delta(d, i))]

LEMMA NormalTime == ASSUME NEW ns \in Nat PROVE Normal(timespec(ns))
BY ProfileAssumption DEF Normal, timespec

(* The recursion of profile_stats has a solution for every number of       *)
(* samples: otherwise there would be a smallest number without one.        *)
LEMMA TotalsExist ==
  ASSUME NEW d, NEW n \in Nat
  PROVE  \E f : Totals(f, d, n)
<1>. DEFINE Bad == {m \in Nat : ~\E f : Totals(f, d, m)}
<1>1. SUFFICES ASSUME Bad # {} PROVE FALSE
  OBVIOUS
<1>2. PICK m \in Bad : \A k \in Bad : m <= k
  <2>1. Bad \subseteq Nat OBVIOUS
  <2>. QED BY <1>1, <2>1, Smallest
<1>3. CASE m = 0
  <2>. DEFINE f == [i \in 0 .. 0 |-> timespec(0)]
  <2>1. Totals(f, d, 0)
    <3>1. \A i \in 0 .. 0 : i = 0 OBVIOUS
    <3>. QED BY <3>1, Zenon DEF Totals
  <2>. QED BY <1>2, <1>3, <2>1
<1>4. CASE m > 0
  <2>1. m - 1 \in Nat /\ m - 1 \notin Bad /\ m \in Nat BY <1>2, <1>4
  <2>2. PICK g : Totals(g, d, m - 1) BY <2>1
  <2>. DEFINE f == [i \in 0 .. m |-> IF i = m THEN time_add(g[m - 1], Delta(d, m)) ELSE g[i]]
  <2>3. ASSUME NEW i \in 0 .. m
        PROVE  f[i] = IF i = 0 THEN timespec(0) ELSE time_add(f[i - 1], Delta(d, i))
    <3>1. CASE i = m
      <4>1. f[m] = time_add(g[m - 1], Delta(d, m)) /\ f[m - 1] = g[m - 1] BY <2>1
      <4>. QED BY <1>4, <3>1, <4>1
    <3>2. CASE i # m
      <4>1. i \in 0 .. m - 1 /\ (i # 0 => i - 1 \in 0 .. m - 1 /\ i - 1 \in 0 .. m /\ i - 1 # m)
        BY <2>1, <3>2
      <4>2. f[i] = g[i] /\ (i # 0 => f[i - 1] = g[i - 1]) BY <3>2, <4>1
      <4>3. g[i] = IF i = 0 THEN timespec(0) ELSE time_add(g[i - 1], Delta(d, i))
        BY <2>2, <4>1 DEF Totals
      <4>. QED BY <4>2, <4>3
    <3>. QED BY <3>1, <3>2
  <2>4. f = [i \in 0 .. m |-> IF i = 0 THEN timespec(0) ELSE time_add(f[i - 1], Delta(d, i))]
    <3>. HIDE DEF f
    <3>1. f = [i \in 0 .. m |-> f[i]] BY DEF f
    <3>. QED BY <2>3, <3>1
  <2>5. Totals(f, d, m) BY <2>4 DEF Totals
  <2>. QED BY <1>2, <2>5
<1>. QED BY <1>2, <1>3, <1>4

LEMMA StatsAreTotals ==
  ASSUME NEW d, Len(d) - 1 \in Nat
  PROVE  \E f : Totals(f, d, Len(d) - 1) /\ profile_stats(d) = f[Len(d) - 1]
<1>. DEFINE n == Len(d) - 1
            f == CHOOSE g : Totals(g, d, n)
<1>1. Totals(f, d, n)
  BY TotalsExist
<1>2. profile_stats(d) = f[n]
  BY Zenon DEF profile_stats, Totals, Delta
<1>. QED BY <1>1, <1>2

(* The difference of two times that were taken one after the other, each   *)
(* added to the total, telescope: after i samples the total is the time    *)
(* since the first.                                                        *)
LEMMA Telescope ==
  ASSUME NEW d, NEW n \in Nat, NEW f, Totals(f, d, n),
         \A i \in 1 .. n + 1 : Normal(d[i])
  PROVE  \A i \in 0 .. n :
           /\ Normal(f[i])
           /\ timespec_to_double_ns(f[i]) = timespec_to_double_ns(d[i + 1]) - timespec_to_double_ns(d[1])
<1>. DEFINE Good(i) == /\ Normal(f[i])
                       /\ timespec_to_double_ns(f[i])
                            = timespec_to_double_ns(d[i + 1]) - timespec_to_double_ns(d[1])
            Bad == {i \in 0 .. n : ~Good(i)}
<1>1. SUFFICES ASSUME Bad # {} PROVE FALSE
  OBVIOUS
<1>2. PICK m \in Bad : \A k \in Bad : m <= k
  <2>1. Bad \subseteq Nat OBVIOUS
  <2>. QED BY <1>1, <2>1, Smallest
<1>3. \A i \in 1 .. n + 1 : timespec_to_double_ns(d[i]) \in Int
  BY ProfileAssumption DEF Normal, timespec_to_double_ns
<1>4. CASE m = 0
  <2>1. f[0] = timespec(0) BY DEF Totals
  <2>2. Normal(f[0]) BY <2>1, NormalTime
  <2>3. timespec_to_double_ns(f[0]) = 0
    BY <2>1, ProfileAssumption DEF timespec, timespec_to_double_ns
  <2>4. timespec_to_double_ns(d[1]) \in Int BY <1>3
  <2>5. Good(0) BY <2>2, <2>3, <2>4
  <2>. QED BY <1>2, <1>4, <2>5
<1>5. CASE m # 0
  <2>1. m \in 1 .. n /\ m - 1 \in 0 .. n /\ ~(m <= m - 1) BY <1>2, <1>5
  <2>2. Good(m - 1) BY <1>2, <2>1
  <2>3. f[m] = time_add(f[m - 1], time_sub(d[m + 1], d[m]))
    BY <1>5, <2>1 DEF Totals, Delta
  <2>4. Normal(d[m + 1]) /\ Normal(d[m]) /\ Normal(f[m - 1]) /\ (m - 1) + 1 = m
    BY <2>1, <2>2
  <2>5. /\ Normal(time_sub(d[m + 1], d[m]))
        /\ timespec_to_double_ns(time_sub(d[m + 1], d[m]))
             = timespec_to_double_ns(d[m + 1]) - timespec_to_double_ns(d[m])
    BY <2>4, TimeArithmetic
  <2>6. /\ Normal(f[m])
        /\ timespec_to_double_ns(f[m])
             = timespec_to_double_ns(f[m - 1]) + timespec_to_double_ns(time_sub(d[m + 1], d[m]))
    BY <2>3, <2>4, <2>5, TimeArithmetic
  <2>7. timespec_to_double_ns(f[m - 1]) = timespec_to_double_ns(d[m]) - timespec_to_double_ns(d[1])
    BY <2>2, <2>4
  <2>8. /\ timespec_to_double_ns(d[1]) \in Int /\ timespec_to_double_ns(d[m]) \in Int
        /\ timespec_to_double_ns(d[m + 1]) \in Int
    BY <1>3, <2>1
  <2>9. timespec_to_double_ns(f[m]) = timespec_to_double_ns(d[m + 1]) - timespec_to_double_ns(d[1])
    BY <2>5, <2>6, <2>7, <2>8
  <2>10. Good(m) BY <2>6, <2>9
  <2>. QED BY <1>2, <2>10
<1>. QED BY <1>4, <1>5

-----------------------------------------------------------------------------
(* perfuser: the inductive invariant *)

Threaded == exp \in {"handler_work", "sampling"}
Pcs == {"none", "start", "open", "refresh", "enable", "barrier", "wait", "work", "close", "done", "ended"}

OneJobs == [do : {"one"}, overhead : Nat, period : Nat \ {0, 1}, dryrun : BOOLEAN]
IoctlJobs == {[do |-> "open"], [do |-> "close"], Prof("null"), Prof("refresh")}
Jobs ==
  IF Threaded THEN OneJobs
  ELSE IF exp = "perf_event_open" THEN {Prof("open")}
  ELSE IF exp = "perf_ioctl" THEN IoctlJobs ELSE {Prof("null")}

TaskRecords ==
  [pc : Pcs, left : Int, hand : {"out", "hog"}, extra : Int, fd : Int, sig : BOOLEAN, raced : BOOLEAN]
Events == [on : BOOLEAN, limit : Nat, left : Int, period : Int, async : BOOLEAN]

TypeOK ==
  /\ exp \in DOMAIN exps
  /\ todo \in Seq(Jobs)
  /\ main \in {"calibrate", "next", "spawn", "join", "func", "return"}
  /\ g_counters \in {"null", "live"}
  /\ th \in [Tasks -> TaskRecords]
  /\ ev \in [Tasks -> Events]
  /\ fds \in [1 .. nr_thread -> Tasks \cup {Closed}]
  /\ now \in Nat /\ data \in Seq({t \in [tv_sec : Int, tv_nsec : Int] : Normal(t)})

(* Only the experiments with threads have g_counters, and only while the   *)
(* threads live.                                                           *)
MainInv ==
  /\ Threaded => disable = "early" /\ main \in {"calibrate", "next", "spawn", "join"}
  /\ main \in {"spawn", "join", "func", "return"} => todo # <<>>
  /\ main \in {"func", "return"} => Head(todo).do = "profile"
  /\ g_counters = "live" <=> main \in {"spawn", "join"}
  /\ main \in {"spawn", "join"} => Threaded
  /\ main \in {"calibrate", "next"} => \A t \in Threads : th[t].pc \in {"none", "ended"}
  /\ Threaded => th[0].pc = "none"
  /\ ~Threaded => \A t \in Threads : th[t].pc = "none"
  /\ ~Threaded => \A t \in Tasks : th[t].hand = "out"
  /\ th[0].pc \notin {"start", "barrier", "wait", "work", "ended"}
  /\ th[0].pc \notin {"none", "done"} => exp = "perf_event_open" /\ main = "return"

(* perf_ioctl opens its counter once, before anything else. *)
IoctlInv ==
  exp = "perf_ioctl" =>
    \/ todo = do_perf_ioctl /\ main \in {"calibrate", "next"} /\ \A f \in 1 .. nr_thread : fds[f] = Closed
    \/ \A i \in DOMAIN todo : todo[i].do # "open"

(* The tasks whose counter is open, and the descriptors that are theirs.   *)
Dry == todo # <<>> /\ Job.do = "one" /\ Job.dryrun
Holds(t) ==
  \/ th[t].pc \in {"refresh", "enable", "close"}
  \/ th[t].pc \in {"barrier", "wait", "work"} /\ ~Dry
FdInv ==
  exp # "perf_ioctl" =>
    /\ \A t \in Tasks : Holds(t) => th[t].fd \in 1 .. nr_thread /\ fds[th[t].fd] = t
    /\ \A f \in 1 .. nr_thread :
         fds[f] # Closed => Holds(fds[f]) /\ th[fds[f]].fd = f

(* The barrier: a thread that is past it has been let through with all the *)
(* others.                                                                 *)
Past == {"work", "close", "done", "ended"}
BarrierInv ==
  Threaded => \A t, u \in Threads : th[t].pc \in Past => th[u].pc \in Past

(* The counter of a thread, its limit and its signal. *)
CounterInv(t) ==
  LET e == ev[t]
      quiet == th[t].hand = "out" /\ ~th[t].sig
  IN  /\ th[t].pc \in {"none", "start", "open", "refresh", "enable", "ended"} => quiet
      /\ Dry => quiet /\ ~e.on /\ th[t].pc \notin {"open", "refresh", "enable", "close"}
      /\ th[t].pc \in {"none", "start", "open", "refresh", "done", "ended"} => ~e.on
      /\ th[t].pc = "refresh" => e.limit = 0 /\ e.left > 1
      /\ th[t].pc = "enable" => e.on /\ e.limit = 1
      /\ ~th[t].raced /\ th[t].hand = "hog" => ~th[t].sig
      /\ th[t].pc \in {"barrier", "wait", "work", "close"} /\ ~Dry /\ ~th[t].raced =>
           IF e.on THEN e.limit = 1 /\ quiet ELSE e.limit = 0
      /\ th[t].pc = "done" /\ ~Dry => th[t].fd \in 1 .. nr_thread /\ fds[th[t].fd] = Closed

ThreadInv == Threaded => \A t \in Threads : CounterInv(t)
MainQuiet == Threaded => th[0].hand = "out" /\ ~th[0].sig

IInv == TypeOK /\ MainInv /\ IoctlInv /\ FdInv /\ BarrierInv /\ ThreadInv /\ MainQuiet

-----------------------------------------------------------------------------
(* The counters of the kernel *)

LEMMA Counting ==
  ASSUME NEW e \in Events, NEW n \in 0 .. 1
  PROVE  /\ Count1(e, n) \in Events
         /\ ~e.on => ~Overflows(e, n) /\ ~Count1(e, n).on /\ Count1(e, n).limit = e.limit
         /\ e.on /\ e.limit = 1 =>
              IF Overflows(e, n) THEN ~Count1(e, n).on /\ Count1(e, n).limit = 0
                                 ELSE Count1(e, n).on /\ Count1(e, n).limit = 1
         /\ Overflows(e, n) => e.left = 1
<1>1. CASE Overflows(e, n)
  <2>. DEFINE on == e.limit # 1
              limit == IF e.limit > 0 THEN e.limit - 1 ELSE 0
  <2>1. Count1(e, n) = [e EXCEPT !.left = e.period, !.on = on, !.limit = limit] BY <1>1 DEF Count1
  <2>2. on \in BOOLEAN /\ limit \in Nat BY DEF Events
  <2>3. e.limit = 1 => ~on /\ limit = 0 OBVIOUS
  <2>. HIDE DEF on, limit
  <2>4. Count1(e, n) \in Events /\ Count1(e, n).on = on /\ Count1(e, n).limit = limit
    BY <2>1, <2>2 DEF Events
  <2>. QED BY <1>1, <2>3, <2>4 DEF Overflows
<1>2. CASE ~Overflows(e, n)
  <2>. DEFINE left == IF e.on THEN e.left - n ELSE e.left
  <2>1. Count1(e, n) = [e EXCEPT !.left = left] BY <1>2 DEF Count1
  <2>2. left \in Int BY DEF Events
  <2>. HIDE DEF left
  <2>3. Count1(e, n) \in Events /\ Count1(e, n).on = e.on /\ Count1(e, n).limit = e.limit
    BY <2>1, <2>2 DEF Events
  <2>. QED BY <1>2, <2>3
<1>. QED BY <1>1, <1>2

LEMMA Refreshing ==
  ASSUME NEW e \in Events
  PROVE  /\ Refresh(e) \in Events /\ Refresh(e).on /\ Refresh(e).limit = e.limit + 1
         /\ Refresh(e).left = e.left
         /\ Enable(e) \in Events /\ Enable(e).on /\ Enable(e).limit = e.limit
<1>1. /\ Refresh(e) \in Events /\ Refresh(e).on = TRUE /\ Refresh(e).limit = e.limit + 1
      /\ Refresh(e).left = e.left
  <2>. DEFINE limit == e.limit + 1
  <2>1. limit \in Nat BY DEF Events
  <2>2. Refresh(e) = [e EXCEPT !.on = TRUE, !.limit = limit] BY DEF Refresh
  <2>. HIDE DEF limit
  <2>3. Refresh(e) \in Events BY <2>1, <2>2 DEF Events
  <2>4. Refresh(e).on = TRUE /\ Refresh(e).limit = limit /\ Refresh(e).left = e.left
    BY <2>2 DEF Events
  <2>. QED BY <2>3, <2>4 DEF limit
<1>2. Enable(e) \in Events /\ Enable(e).on = TRUE /\ Enable(e).limit = e.limit
  BY DEF Enable, Events
<1>. QED BY <1>1, <1>2

LEMMA Becoming ==
  ASSUME NEW t \in Tasks, NEW e \in Events, NEW n \in 0 .. 1, NEW r \in TaskRecords,
         th \in [Tasks -> TaskRecords], Becomes(t, e, n, r)
  PROVE  /\ th' \in [Tasks -> TaskRecords]
         /\ \A u \in Tasks : u # t => th'[u] = th[u]
         /\ th'[t].pc = r.pc /\ th'[t].hand = r.hand /\ th'[t].fd = r.fd /\ th'[t].raced = r.raced
         /\ th'[t].sig <=> r.sig \/ (e.async /\ Overflows(e, n))
<1>. DEFINE b == r.sig \/ (e.async /\ Overflows(e, n))
<1>1. b \in BOOLEAN BY DEF Events, TaskRecords
<1>. HIDE DEF b
<1>2. th' = [th EXCEPT ![t] = [r EXCEPT !.sig = b]] BY DEF Becomes, b
<1>3. [r EXCEPT !.sig = b] \in TaskRecords BY <1>1 DEF TaskRecords
<1>4. th'[t] = [r EXCEPT !.sig = b] /\ \A u \in Tasks : u # t => th'[u] = th[u] BY <1>2
<1>5. th' \in [Tasks -> TaskRecords] BY <1>2, <1>3
<1>6. /\ th'[t].pc = r.pc /\ th'[t].hand = r.hand /\ th'[t].fd = r.fd /\ th'[t].raced = r.raced
      /\ th'[t].sig = b
  BY <1>4 DEF TaskRecords
<1>. QED BY <1>4, <1>5, <1>6 DEF b

LEMMA Working ==
  ASSUME NEW t \in Tasks, NEW e \in Events, NEW n \in 0 .. 1, NEW r \in TaskRecords,
         th \in [Tasks -> TaskRecords], ev \in [Tasks -> Events], Works(t, e, n, r)
  PROVE  /\ th' \in [Tasks -> TaskRecords]
         /\ \A u \in Tasks : u # t => th'[u] = th[u]
         /\ th'[t].pc = r.pc /\ th'[t].hand = r.hand /\ th'[t].fd = r.fd /\ th'[t].raced = r.raced
         /\ th'[t].sig <=> r.sig \/ (e.async /\ Overflows(e, n))
         /\ ev' \in [Tasks -> Events]
         /\ \A u \in Tasks : u # t => ev'[u] = ev[u]
         /\ ev'[t] = Count1(e, n)
<1>1. Becomes(t, e, n, r) /\ ev' = [ev EXCEPT ![t] = Count1(e, n)] BY DEF Works
<1>2. Count1(e, n) \in Events BY Counting
<1>3. /\ ev' \in [Tasks -> Events] /\ ev'[t] = Count1(e, n)
      /\ \A u \in Tasks : u # t => ev'[u] = ev[u]
  BY <1>1, <1>2
<1>. QED BY <1>1, <1>3, Becoming

-----------------------------------------------------------------------------
(* A step of one task that opens and closes nothing. *)
LEMMA OwnStep ==
  ASSUME IInv, NEW t \in Tasks, UNCHANGED <<exp, disable, todo, main, g_counters, fds, now, data>>,
         th' \in [Tasks -> TaskRecords], ev' \in [Tasks -> Events],
         \A u \in Tasks : u # t => th'[u] = th[u] /\ ev'[u] = ev[u],
         th'[t].fd = th[t].fd,
         Holds(t)' <=> Holds(t),
         t \in Threads => (th'[t].pc \in Past <=> th[t].pc \in Past),
         \/ th'[t].pc = th[t].pc
         \/ t \in Threads /\ th[t].pc \notin {"none", "ended"}
         \/ t = 0 /\ th[0].pc \notin {"none", "done"} /\ th'[0].pc \in {"open", "refresh", "enable", "close", "done"},
         ~Threaded => th'[t].hand = "out",
         Threaded => t \in Threads /\ CounterInv(t)'
  PROVE  IInv'
<1>. USE PerfUserAssumption
<1>1. Tasks = {0} \cup Threads /\ 0 \notin Threads
  BY DEF Tasks, Threads
<1>2. Threaded' = Threaded /\ Dry' = Dry /\ Jobs' = Jobs
  BY DEF Threaded, Dry, Job, Jobs
<1>3. \A u \in Tasks : u # t => (Holds(u)' <=> Holds(u))
  BY <1>2 DEF Holds
<1>4. TypeOK'
  BY <1>2 DEF IInv, TypeOK
<1>5. MainInv'
  <2>1. MainInv BY DEF IInv
  <2>2. ~Threaded => \A u \in Tasks : th'[u].hand = "out" BY <2>1 DEF MainInv
  <2>3. CASE th'[t].pc = th[t].pc
    <3>1. (\A u \in Tasks : th'[u].pc = th[u].pc) /\ 0 \in Tasks /\ Threads \subseteq Tasks BY <1>1, <2>3
    <3>. QED BY <1>2, <2>1, <2>2, <3>1 DEF MainInv
  <2>4. CASE t \in Threads /\ th[t].pc \notin {"none", "ended"}
    <3>1. Threaded /\ main \notin {"calibrate", "next"} BY <2>1, <2>4 DEF MainInv
    <3>. QED BY <1>1, <1>2, <2>1, <2>4, <3>1 DEF MainInv
  <2>5. CASE t = 0 /\ th[0].pc \notin {"none", "done"}
             /\ th'[0].pc \in {"open", "refresh", "enable", "close", "done"}
    <3>1. ~Threaded /\ main = "return" /\ exp = "perf_event_open" BY <2>1, <2>5 DEF MainInv
    <3>2. \A u \in Threads : th'[u] = th[u] BY <1>1, <2>5
    <3>. QED BY <1>2, <2>1, <2>2, <2>5, <3>1, <3>2 DEF MainInv
  <2>. QED BY <2>3, <2>4, <2>5
<1>6. IoctlInv'
  BY DEF IInv, IoctlInv
<1>7. FdInv'
  <2>1. \A u \in Tasks : th'[u].fd = th[u].fd /\ (Holds(u)' <=> Holds(u)) BY <1>3
  <2>2. \A f \in 1 .. nr_thread : fds[f] # Closed => fds[f] \in Tasks BY DEF IInv, TypeOK
  <2>. HIDE DEF Holds
  <2>. QED BY <2>1, <2>2 DEF IInv, FdInv
<1>8. BarrierInv'
  BY <1>1, <1>2 DEF IInv, BarrierInv
<1>9. ThreadInv'
  <2>1. ASSUME NEW u \in Threads, u # t, Threaded PROVE CounterInv(u)'
    <3>1. th'[u] = th[u] /\ ev'[u] = ev[u] /\ CounterInv(u) BY <1>1, <2>1 DEF IInv, ThreadInv
    <3>. QED BY <1>2, <3>1 DEF CounterInv
  <2>. QED BY <1>2, <2>1 DEF ThreadInv
<1>10. MainQuiet'
  BY <1>1, <1>2 DEF IInv, MainQuiet
<1>. QED BY <1>4, <1>5, <1>6, <1>7, <1>8, <1>9, <1>10 DEF IInv

(* The tasks that can be interrupted, and those that can go on. *)
LEMMA Actors ==
  ASSUME IInv, NEW t \in Tasks
  PROVE  /\ th[t].hand = "hog" \/ (th[t].sig /\ g_counters = "live") => Threaded /\ t \in Threads
         /\ Threaded /\ t \in Threads /\ th[t].pc \notin {"none", "ended"} => todo # <<>>
         /\ Threaded /\ todo # <<>> => Job \in OneJobs
         /\ th[t] \in TaskRecords /\ ev[t] \in Events
         /\ Threaded /\ t \in Threads => CounterInv(t)
         /\ Threaded /\ th[t].pc # "none" => t \in Threads
         /\ ~Threaded /\ th[t].pc # "none" => t = 0
<1>1. Tasks = {0} \cup Threads /\ 0 \notin Threads
  BY PerfUserAssumption DEF Tasks, Threads
<1>2. th[t] \in TaskRecords /\ ev[t] \in Events
  BY DEF IInv, TypeOK
<1>3. th[t].hand = "hog" \/ (th[t].sig /\ g_counters = "live") => Threaded /\ t \in Threads
  BY <1>1, <1>2 DEF IInv, MainInv, MainQuiet, TypeOK
<1>4. Threaded /\ t \in Threads /\ th[t].pc \notin {"none", "ended"} => todo # <<>>
  BY DEF IInv, MainInv, TypeOK
<1>5. Threaded /\ todo # <<>> => Job \in OneJobs
  BY DEF IInv, TypeOK, Job, Jobs
<1>6. Threaded /\ t \in Threads => CounterInv(t)
  BY DEF IInv, ThreadInv
<1>7. (Threaded /\ th[t].pc # "none" => t \in Threads) /\ (~Threaded /\ th[t].pc # "none" => t = 0)
  BY <1>1 DEF IInv, MainInv
<1>. QED BY <1>2, <1>3, <1>4, <1>5, <1>6, <1>7

LEMMA HandlerKeeps ==
  ASSUME IInv, NEW t \in Tasks, Handler(t)
  PROVE  IInv'
<1>1. th[t] \in TaskRecords /\ ev[t] \in Events /\ th \in [Tasks -> TaskRecords] /\ ev \in [Tasks -> Events]
  BY DEF IInv, TypeOK
<1>2. CASE SignalHandler(t) /\ g_counters = "null"
  <2>1. /\ th' = [th EXCEPT ![t].sig = FALSE]
        /\ UNCHANGED <<exp, disable, todo, main, g_counters, ev, fds, now, data>>
        /\ th[t].sig /\ th[t].hand = "out"
    BY <1>2 DEF SignalHandler
  <2>2. [th[t] EXCEPT !.sig = FALSE] \in TaskRecords BY <1>1 DEF TaskRecords
  <2>3. /\ th' \in [Tasks -> TaskRecords] /\ \A u \in Tasks : u # t => th'[u] = th[u]
        /\ th'[t] = [th[t] EXCEPT !.sig = FALSE]
    BY <1>1, <2>1, <2>2
  <2>4. /\ th'[t].pc = th[t].pc /\ th'[t].hand = th[t].hand /\ th'[t].fd = th[t].fd
        /\ th'[t].raced = th[t].raced /\ ~th'[t].sig
    BY <1>1, <2>3 DEF TaskRecords
  <2>5. Dry' = Dry BY <2>1 DEF Dry, Job
  <2>6. Holds(t)' <=> Holds(t) BY <2>4, <2>5 DEF Holds
  <2>7. Threaded => t \in Threads /\ CounterInv(t)'
    <3>1. SUFFICES ASSUME Threaded PROVE t \in Threads /\ CounterInv(t)' OBVIOUS
    <3>2. t \in Threads
      BY <2>1, <3>1, PerfUserAssumption DEF IInv, MainQuiet, Tasks, Threads
    <3>3. CounterInv(t) BY <3>1, <3>2, Actors
    <3>. QED BY <2>1, <2>4, <2>5, <3>2, <3>3 DEF CounterInv
  <2>. QED BY <1>1, <2>1, <2>3, <2>4, <2>6, <2>7, OwnStep
<1>3. CASE SignalHandler(t) /\ g_counters # "null"
  <2>1. /\ th' = [th EXCEPT ![t].sig = FALSE, ![t].hand = "hog", ![t].extra = Job.overhead]
        /\ UNCHANGED <<exp, disable, todo, main, g_counters, ev, fds, now, data>>
        /\ th[t].sig /\ th[t].hand = "out"
    BY <1>3 DEF SignalHandler
  <2>2. Threaded /\ t \in Threads /\ g_counters = "live"
    BY <1>3, <2>1, Actors DEF IInv, TypeOK
  <2>3. CounterInv(t) BY <2>2, Actors
  <2>4. th[t].pc \notin {"none", "ended"} BY <2>1, <2>3 DEF CounterInv
  <2>5. Job.overhead \in Nat BY <2>2, <2>4, Actors DEF OneJobs
  <2>. DEFINE r == [th[t] EXCEPT !.sig = FALSE, !.hand = "hog", !.extra = Job.overhead]
  <2>6. r \in TaskRecords
    <3>. DEFINE x == Job.overhead
    <3>1. x \in Int BY <2>5
    <3>. HIDE DEF x
    <3>2. [th[t] EXCEPT !.sig = FALSE, !.hand = "hog", !.extra = x] \in TaskRecords
      BY <1>1, <3>1 DEF TaskRecords
    <3>. QED BY <3>2 DEF x
  <2>7. th' \in [Tasks -> TaskRecords] /\ (\A u \in Tasks : u # t => th'[u] = th[u]) /\ th'[t] = r
    BY <1>1, <2>1, <2>6
  <2>8. /\ th'[t].pc = th[t].pc /\ th'[t].hand = "hog" /\ th'[t].fd = th[t].fd
        /\ th'[t].raced = th[t].raced /\ ~th'[t].sig
    BY <1>1, <2>7 DEF TaskRecords
  <2>9. Dry' = Dry BY <2>1 DEF Dry, Job
  <2>10. Holds(t)' <=> Holds(t) BY <2>8, <2>9 DEF Holds
  <2>11. CounterInv(t)' BY <2>1, <2>3, <2>8, <2>9 DEF CounterInv
  <2>. QED BY <1>1, <2>1, <2>2, <2>7, <2>8, <2>10, <2>11, OwnStep
<1>4. CASE HandlerHog(t)
  <2>1. /\ th[t].hand = "hog" /\ Works(t, ev[t], 1, [th[t] EXCEPT !.extra = @ - 1])
        /\ UNCHANGED <<exp, disable, todo, main, g_counters, fds, now, data>>
    BY <1>4 DEF HandlerHog, Kept
  <2>. DEFINE r == [th[t] EXCEPT !.extra = @ - 1]
  <2>2. /\ r \in TaskRecords /\ r.pc = th[t].pc /\ r.hand = "hog" /\ r.fd = th[t].fd
        /\ r.raced = th[t].raced /\ r.sig = th[t].sig
    BY <1>1, <2>1 DEF TaskRecords
  <2>3. Threaded /\ t \in Threads BY <2>1, Actors
  <2>4. CounterInv(t) BY <2>3, Actors
  <2>. HIDE DEF r
  <2>5. Works(t, ev[t], 1, r) BY <2>1 DEF r
  <2>6. /\ th' \in [Tasks -> TaskRecords] /\ ev' \in [Tasks -> Events]
        /\ \A u \in Tasks : u # t => th'[u] = th[u] /\ ev'[u] = ev[u]
        /\ th'[t].pc = r.pc /\ th'[t].hand = r.hand /\ th'[t].fd = r.fd /\ th'[t].raced = r.raced
        /\ th'[t].sig <=> r.sig \/ (ev[t].async /\ Overflows(ev[t], 1))
        /\ ev'[t] = Count1(ev[t], 1)
    BY <1>1, <2>2, <2>5, Working
  <2>7. ~ev[t].on => ~Overflows(ev[t], 1) /\ ~ev'[t].on /\ ev'[t].limit = ev[t].limit
    <3>1. 1 \in 0 .. 1 OBVIOUS
    <3>. QED BY <1>1, <2>6, <3>1, Counting
  <2>8. Dry' = Dry BY <2>1 DEF Dry, Job
  <2>9. Holds(t)' <=> Holds(t) BY <2>2, <2>6, <2>8 DEF Holds
  <2>10. CounterInv(t)'
    <3>1. /\ ~Dry /\ th[t].pc \notin {"none", "start", "open", "refresh", "enable", "ended"}
          /\ ~th[t].raced => ~th[t].sig /\ (th[t].pc # "done" => ev[t].limit = 0) /\ ~ev[t].on
          /\ th[t].pc = "done" => ~ev[t].on /\ th[t].fd \in 1 .. nr_thread /\ fds[th[t].fd] = Closed
      BY <1>1, <2>1, <2>4 DEF CounterInv, TaskRecords, Pcs
    <3>2. th'[t].pc = th[t].pc /\ th'[t].hand = "hog" /\ th'[t].fd = th[t].fd /\ th'[t].raced = th[t].raced
      BY <2>2, <2>6
    <3>3. ~th[t].raced => ~th'[t].sig BY <2>2, <2>6, <2>7, <3>1
    <3>. QED BY <2>1, <2>7, <2>8, <3>1, <3>2, <3>3 DEF CounterInv
  <2>. QED BY <1>1, <2>1, <2>2, <2>3, <2>6, <2>9, <2>10, OwnStep
<1>5. CASE HandlerRefresh(t)
  <2>. DEFINE back == [th[t] EXCEPT !.hand = "out"]
  <2>1. /\ th[t].hand = "hog"
        /\ UNCHANGED <<exp, disable, todo, main, g_counters, fds, now, data>>
        /\ \/ fds[th[t].fd] = t /\ \E n \in 0 .. 1 : Works(t, Refresh(ev[t]), n, back)
           \/ fds[th[t].fd] = Closed /\ Works(t, ev[t], 0, back)
    BY <1>5 DEF HandlerRefresh, Kept
  <2>2. /\ back \in TaskRecords /\ back.pc = th[t].pc /\ back.hand = "out" /\ back.fd = th[t].fd
        /\ back.raced = th[t].raced /\ back.sig = th[t].sig
    BY <1>1 DEF TaskRecords
  <2>. HIDE DEF back
  <2>3. Threaded /\ t \in Threads BY <2>1, Actors
  <2>4. CounterInv(t) BY <2>3, Actors
  <2>5. /\ ~Dry /\ th[t].pc \notin {"none", "start", "open", "refresh", "enable", "ended"}
        /\ ~th[t].raced => ~th[t].sig /\ (th[t].pc # "done" => ev[t].limit = 0) /\ ~ev[t].on
        /\ th[t].pc = "done" => ~ev[t].on /\ th[t].fd \in 1 .. nr_thread /\ fds[th[t].fd] = Closed
    BY <1>1, <2>1, <2>4 DEF CounterInv, TaskRecords, Pcs
  <2>6. Dry' = Dry BY <2>1 DEF Dry, Job
  <2>7. t # Closed BY PerfUserAssumption DEF Closed, Tasks
  <2>8. CASE fds[th[t].fd] = t /\ \E n \in 0 .. 1 : Works(t, Refresh(ev[t]), n, back)
    <3>1. PICK n \in 0 .. 1 : Works(t, Refresh(ev[t]), n, back) BY <2>8
    <3>. DEFINE e == Refresh(ev[t])
    <3>2. e \in Events /\ e.on /\ e.limit = ev[t].limit + 1 BY <1>1, Refreshing
    <3>. HIDE DEF e
    <3>3. /\ th' \in [Tasks -> TaskRecords] /\ ev' \in [Tasks -> Events]
          /\ \A u \in Tasks : u # t => th'[u] = th[u] /\ ev'[u] = ev[u]
          /\ th'[t].pc = th[t].pc /\ th'[t].hand = "out" /\ th'[t].fd = th[t].fd
          /\ th'[t].raced = th[t].raced
          /\ th'[t].sig <=> th[t].sig \/ (e.async /\ Overflows(e, n))
          /\ ev'[t] = Count1(e, n)
      BY <1>1, <2>2, <3>1, <3>2, Working DEF e
    <3>4. e.limit = 1 =>
            IF Overflows(e, n) THEN ~ev'[t].on /\ ev'[t].limit = 0 ELSE ev'[t].on /\ ev'[t].limit = 1
      <4>1. e.limit = 1 => IF Overflows(e, n) THEN ~Count1(e, n).on /\ Count1(e, n).limit = 0
                                              ELSE Count1(e, n).on /\ Count1(e, n).limit = 1
        BY <3>2, Counting
      <4>. QED BY <3>3, <4>1
    <3>5. Holds(t)' <=> Holds(t) BY <2>6, <3>3 DEF Holds
    <3>6. th[t].pc # "done" BY <2>5, <2>7, <2>8
    <3>7. ~th[t].raced => IF ev'[t].on THEN ev'[t].limit = 1 /\ ~th'[t].sig ELSE ev'[t].limit = 0
      BY <2>5, <3>2, <3>3, <3>4, <3>6
    <3>8. CounterInv(t)' BY <2>1, <2>5, <2>6, <3>3, <3>6, <3>7 DEF CounterInv
    <3>. QED BY <1>1, <2>1, <2>3, <3>3, <3>5, <3>8, OwnStep
  <2>9. CASE fds[th[t].fd] = Closed /\ Works(t, ev[t], 0, back)
    <3>1. th[t].pc = "done"
      BY <1>1, <2>3, <2>5, <2>7, <2>9 DEF IInv, FdInv, Holds, TaskRecords, Pcs, Threaded
    <3>2. 0 \in 0 .. 1 OBVIOUS
    <3>3. /\ th' \in [Tasks -> TaskRecords] /\ ev' \in [Tasks -> Events]
          /\ \A u \in Tasks : u # t => th'[u] = th[u] /\ ev'[u] = ev[u]
          /\ th'[t].pc = th[t].pc /\ th'[t].hand = "out" /\ th'[t].fd = th[t].fd
          /\ th'[t].raced = th[t].raced
          /\ ev'[t] = Count1(ev[t], 0)
      BY <1>1, <2>2, <2>9, <3>2, Working
    <3>4. ~ev'[t].on
      <4>1. ~ev[t].on BY <2>5, <3>1
      <4>2. ~Count1(ev[t], 0).on BY <1>1, <3>2, <4>1, Counting
      <4>. QED BY <3>3, <4>2
    <3>5. Holds(t)' <=> Holds(t) BY <2>6, <3>3 DEF Holds
    <3>6. CounterInv(t)' BY <2>1, <2>5, <2>6, <3>1, <3>3, <3>4 DEF CounterInv
    <3>. QED BY <1>1, <2>1, <2>3, <3>3, <3>5, <3>6, OwnStep
  <2>. QED BY <2>1, <2>8, <2>9
<1>6. SignalHandler(t) => g_counters = "null" \/ g_counters # "null"
  OBVIOUS
<1>. QED BY <1>2, <1>3, <1>4, <1>5, <1>6 DEF Handler

(* A step of the task itself: it is out of the handler and no signal is    *)
(* pending; and it is in this experiment that there is such a task.        *)
LEMMA ReadyTask ==
  ASSUME IInv, NEW t \in Tasks, NEW pc \in Pcs \ {"none", "ended"}, Ready(t, pc)
  PROVE  /\ th[t].pc = pc /\ th[t].hand = "out" /\ ~th[t].sig
         /\ Threaded => t \in Threads /\ CounterInv(t) /\ todo # <<>> /\ Job \in OneJobs
         /\ t \in Threads => Threaded
         /\ t \notin Threads => t = 0 /\ ~Threaded
         /\ ~Threaded /\ pc # "done" => t = 0 /\ exp = "perf_event_open"
BY Actors, PerfUserAssumption DEF Ready, Tasks, Threads, IInv, MainInv

LEMMA OpenRefreshKeeps ==
  ASSUME IInv, NEW t \in Tasks, OpenRefresh(t)
  PROVE  IInv'
<1>. DEFINE r == [th[t] EXCEPT !.pc = "enable"]
            e == Refresh(ev[t])
<1>1. th[t] \in TaskRecords /\ ev[t] \in Events /\ th \in [Tasks -> TaskRecords] /\ ev \in [Tasks -> Events]
  BY DEF IInv, TypeOK
<1>2. PICK n \in 0 .. 1 : Works(t, e, n, r)
  BY DEF OpenRefresh
<1>3. Ready(t, "refresh") /\ UNCHANGED <<exp, disable, todo, main, g_counters, fds, now, data>>
  BY DEF OpenRefresh, Kept
<1>4. /\ th[t].pc = "refresh" /\ th[t].hand = "out" /\ ~th[t].sig
      /\ Threaded => t \in Threads /\ CounterInv(t)
      /\ t \in Threads \/ t = 0
  BY <1>3, ReadyTask DEF Pcs
<1>5. /\ r \in TaskRecords /\ r.pc = "enable" /\ r.hand = "out" /\ r.fd = th[t].fd
      /\ r.raced = th[t].raced /\ r.sig = th[t].sig
  BY <1>1, <1>4 DEF TaskRecords, Pcs
<1>6. e \in Events /\ e.on /\ e.limit = ev[t].limit + 1 /\ e.left = ev[t].left
  BY <1>1, Refreshing
<1>. HIDE DEF r, e
<1>7. /\ th' \in [Tasks -> TaskRecords] /\ ev' \in [Tasks -> Events]
      /\ \A u \in Tasks : u # t => th'[u] = th[u] /\ ev'[u] = ev[u]
      /\ th'[t].pc = "enable" /\ th'[t].hand = "out" /\ th'[t].fd = th[t].fd
      /\ th'[t].raced = th[t].raced
      /\ th'[t].sig <=> th[t].sig \/ (e.async /\ Overflows(e, n))
      /\ ev'[t] = Count1(e, n)
  BY <1>1, <1>2, <1>5, <1>6, Working
<1>8. Dry' = Dry BY <1>3 DEF Dry, Job
<1>9. Holds(t)' <=> Holds(t) BY <1>4, <1>7 DEF Holds
<1>10. ASSUME Threaded PROVE CounterInv(t)'
  <2>1. ~Dry /\ ev[t].limit = 0 /\ ev[t].left > 1 BY <1>4, <1>10 DEF CounterInv
  <2>2. ~Overflows(e, n)
    <3>1. e.left # 1 BY <1>6, <2>1
    <3>. QED BY <1>6, <3>1, Counting
  <2>3. e.limit = 1 BY <1>6, <2>1
  <2>4. Count1(e, n).on /\ Count1(e, n).limit = 1 BY <1>6, <2>2, <2>3, Counting
  <2>5. ev'[t].on /\ ev'[t].limit = 1 /\ ~th'[t].sig BY <1>4, <1>7, <2>2, <2>4
  <2>. QED BY <1>7, <1>8, <2>1, <2>5 DEF CounterInv
<1>11. th[t].pc \notin {"none", "ended", "done"} /\ th[t].pc \notin Past /\ th'[t].pc \notin Past
  BY <1>4, <1>7 DEF Past
<1>. QED BY <1>1, <1>3, <1>4, <1>7, <1>9, <1>10, <1>11, OwnStep

LEMMA OpenEnableKeeps ==
  ASSUME IInv, NEW t \in Tasks, OpenEnable(t)
  PROVE  IInv'
<1>1. th[t] \in TaskRecords /\ ev[t] \in Events /\ th \in [Tasks -> TaskRecords] /\ ev \in [Tasks -> Events]
  BY DEF IInv, TypeOK
<1>2. PICK n \in 0 .. 1 :
        /\ ev' = [ev EXCEPT ![t] = Enable(Count1(ev[t], n))]
        /\ Becomes(t, ev[t], n, [th[t] EXCEPT !.pc = IF t = 0 THEN "close" ELSE "barrier",
                                              !.raced = Count1(ev[t], n).limit = 0])
  BY DEF OpenEnable
<1>3. Ready(t, "enable") /\ UNCHANGED <<exp, disable, todo, main, g_counters, fds, now, data>>
  BY DEF OpenEnable, Kept
<1>4. /\ th[t].pc = "enable" /\ th[t].hand = "out" /\ ~th[t].sig
      /\ Threaded => t \in Threads /\ CounterInv(t)
      /\ t \in Threads \/ t = 0
      /\ Threaded => t # 0
      /\ t \in Threads => Threaded
  BY <1>3, ReadyTask, PerfUserAssumption DEF Pcs, Threads
<1>. DEFINE pc == IF t = 0 THEN "close" ELSE "barrier"
            b == Count1(ev[t], n).limit = 0
            r == [th[t] EXCEPT !.pc = pc, !.raced = b]
            c == Count1(ev[t], n)
<1>5. pc \in {"close", "barrier"} /\ b \in BOOLEAN /\ (t # 0 => pc = "barrier") /\ (t = 0 => pc = "close")
  OBVIOUS
<1>6. c \in Events BY <1>1, Counting
<1>7. Enable(c) \in Events /\ Enable(c).on /\ Enable(c).limit = c.limit BY <1>6, Refreshing
<1>8. Becomes(t, ev[t], n, r) /\ ev' = [ev EXCEPT ![t] = Enable(c)] BY <1>2
<1>9. b <=> c.limit = 0 OBVIOUS
<1>. HIDE DEF pc, b, c
<1>10. /\ r \in TaskRecords /\ r.pc = pc /\ r.hand = "out" /\ r.fd = th[t].fd
       /\ r.raced = b /\ r.sig = th[t].sig
  BY <1>1, <1>4, <1>5 DEF TaskRecords, Pcs
<1>. HIDE DEF r
<1>11. /\ th' \in [Tasks -> TaskRecords] /\ ev' \in [Tasks -> Events]
       /\ \A u \in Tasks : u # t => th'[u] = th[u] /\ ev'[u] = ev[u]
       /\ th'[t].pc = pc /\ th'[t].hand = "out" /\ th'[t].fd = th[t].fd
       /\ th'[t].raced = b
       /\ th'[t].sig <=> th[t].sig \/ (ev[t].async /\ Overflows(ev[t], n))
       /\ ev'[t] = Enable(c)
  BY <1>1, <1>7, <1>8, <1>10, Becoming
<1>12. Dry' = Dry BY <1>3 DEF Dry, Job
<1>13. Threaded => ~Dry /\ ev[t].on /\ ev[t].limit = 1 BY <1>4 DEF CounterInv
<1>14. Holds(t)' <=> Holds(t)
  <2>1. CASE t = 0 BY <1>4, <1>5, <1>11, <2>1 DEF Holds
  <2>2. CASE t # 0 BY <1>4, <1>5, <1>11, <1>12, <1>13, <2>2 DEF Holds
  <2>. QED BY <2>1, <2>2
<1>15. ASSUME Threaded PROVE CounterInv(t)'
  <2>1. IF Overflows(ev[t], n) THEN c.limit = 0 ELSE c.limit = 1
    BY <1>1, <1>13, <1>15, Counting DEF c
  <2>2. ~b => ~th'[t].sig /\ ev'[t].limit = 1 BY <1>4, <1>7, <1>9, <1>11, <2>1
  <2>3. th'[t].pc = "barrier" /\ ev'[t].on BY <1>4, <1>5, <1>7, <1>11, <1>15
  <2>. QED BY <1>11, <1>12, <1>13, <1>15, <2>2, <2>3 DEF CounterInv
<1>16. th[t].pc \notin {"none", "ended", "done"} /\ th[t].pc \notin Past
  BY <1>4 DEF Past
<1>17. t \in Threads => th'[t].pc \notin Past
  BY <1>4, <1>5, <1>11 DEF Past
<1>18. t = 0 => th'[0].pc = "close"
  BY <1>5, <1>11
<1>. QED BY <1>1, <1>3, <1>4, <1>11, <1>14, <1>15, <1>16, <1>17, <1>18, OwnStep

(* The steps of a thread between the barrier and its end. *)
LEMMA WorkKeeps ==
  ASSUME IInv, NEW t \in Tasks, DoWork(t) \/ EndWork(t) \/ ThreadEnds(t)
  PROVE  IInv'
<1>1. th[t] \in TaskRecords /\ ev[t] \in Events /\ th \in [Tasks -> TaskRecords] /\ ev \in [Tasks -> Events]
  BY DEF IInv, TypeOK
<1>2. PICK pc \in {"start", "work", "done"} :
        /\ Ready(t, pc) /\ (pc = "done" => t # 0)
        /\ DoWork(t) => pc = "start"
        /\ EndWork(t) => pc = "work"
        /\ ThreadEnds(t) => pc = "done"
  BY DEF DoWork, EndWork, ThreadEnds, Ready
<1>3. /\ th[t].pc = pc /\ th[t].hand = "out" /\ ~th[t].sig
      /\ Threaded => t \in Threads /\ CounterInv(t) /\ todo # <<>> /\ Job \in OneJobs
  BY <1>2, ReadyTask DEF Pcs
<1>4. Threaded /\ t \in Threads
  BY <1>2, <1>3, ReadyTask DEF IInv, MainInv, Pcs
<1>5. Job.dryrun <=> Dry
  BY <1>3, <1>4 DEF Dry, OneJobs
<1>6. PICK to \in Pcs :
        /\ th' = [th EXCEPT ![t].pc = to]
        /\ pc = "start" => to = IF Job.dryrun THEN "barrier" ELSE "open"
        /\ pc = "work" => to = IF Job.dryrun THEN "done" ELSE "close"
        /\ pc = "done" => to = "ended"
  BY <1>2 DEF DoWork, EndWork, ThreadEnds, Pcs
<1>7. UNCHANGED <<exp, disable, todo, main, g_counters, ev, fds, now, data>>
  BY DEF DoWork, EndWork, ThreadEnds, Kept
<1>8. /\ th' \in [Tasks -> TaskRecords] /\ \A u \in Tasks : u # t => th'[u] = th[u]
      /\ th'[t] = [th[t] EXCEPT !.pc = to]
  BY <1>1, <1>6 DEF TaskRecords
<1>9. /\ th'[t].pc = to /\ th'[t].hand = "out" /\ th'[t].fd = th[t].fd
      /\ th'[t].raced = th[t].raced /\ ~th'[t].sig
  BY <1>1, <1>3, <1>8 DEF TaskRecords
<1>10. Dry' = Dry BY <1>7 DEF Dry, Job
<1>11. Holds(t)' <=> Holds(t) BY <1>2, <1>3, <1>5, <1>6, <1>9, <1>10 DEF Holds
<1>12. CounterInv(t)'
  BY <1>2, <1>3, <1>4, <1>5, <1>6, <1>7, <1>9, <1>10 DEF CounterInv
<1>13. th'[t].pc \in Past <=> th[t].pc \in Past
  BY <1>2, <1>3, <1>6, <1>9 DEF Past
<1>14. th[t].pc \notin {"none", "ended"} BY <1>2, <1>3
<1>. QED BY <1>1, <1>4, <1>7, <1>8, <1>9, <1>11, <1>12, <1>13, <1>14, OwnStep

(* A thread that waits or works is counted for one unit and becomes r. *)
LEMMA UnitKeeps ==
  ASSUME IInv, NEW t \in Tasks, NEW pc \in {"wait", "work"}, Ready(t, pc),
         NEW r \in TaskRecords, r.pc = pc, r.hand = th[t].hand, r.fd = th[t].fd,
         r.raced = th[t].raced, r.sig = th[t].sig,
         Works(t, ev[t], 1, r), UNCHANGED <<fds, Kept>>
  PROVE  IInv'
<1>1. th[t] \in TaskRecords /\ ev[t] \in Events /\ th \in [Tasks -> TaskRecords] /\ ev \in [Tasks -> Events]
  BY DEF IInv, TypeOK
<1>2. 1 \in 0 .. 1 /\ UNCHANGED <<exp, disable, todo, main, g_counters, fds, now, data>>
  BY DEF Kept
<1>3. /\ th[t].pc = pc /\ th[t].hand = "out" /\ ~th[t].sig
      /\ Threaded => t \in Threads /\ CounterInv(t)
  BY <1>2, ReadyTask DEF Pcs
<1>4. Threaded
  BY <1>2, <1>3, ReadyTask DEF IInv, MainInv, Pcs
<1>5. /\ th' \in [Tasks -> TaskRecords] /\ ev' \in [Tasks -> Events]
      /\ \A u \in Tasks : u # t => th'[u] = th[u] /\ ev'[u] = ev[u]
      /\ th'[t].pc = pc /\ th'[t].hand = "out" /\ th'[t].fd = th[t].fd
      /\ th'[t].raced = th[t].raced
      /\ th'[t].sig <=> th[t].sig \/ (ev[t].async /\ Overflows(ev[t], 1))
      /\ ev'[t] = Count1(ev[t], 1)
  BY <1>1, <1>2, <1>3, Working
<1>6. Dry' = Dry BY <1>2 DEF Dry, Job
<1>7. Holds(t)' <=> Holds(t) BY <1>3, <1>5, <1>6 DEF Holds
<1>8. /\ ~ev[t].on => ~Overflows(ev[t], 1) /\ ~Count1(ev[t], 1).on /\ Count1(ev[t], 1).limit = ev[t].limit
      /\ ev[t].on /\ ev[t].limit = 1 =>
           IF Overflows(ev[t], 1) THEN ~Count1(ev[t], 1).on /\ Count1(ev[t], 1).limit = 0
                                  ELSE Count1(ev[t], 1).on /\ Count1(ev[t], 1).limit = 1
  BY <1>1, <1>2, Counting
<1>9. CounterInv(t)'
  <2>1. CASE Dry
    <3>1. ~ev[t].on BY <1>3, <1>4, <2>1 DEF CounterInv
    <3>2. ~ev'[t].on /\ ~th'[t].sig BY <1>3, <1>5, <1>8, <3>1
    <3>. QED BY <1>5, <1>6, <2>1, <3>2 DEF CounterInv
  <2>2. CASE ~Dry
    <3>1. ~th[t].raced => IF ev[t].on THEN ev[t].limit = 1 ELSE ev[t].limit = 0
      BY <1>3, <1>4, <2>2 DEF CounterInv
    <3>2. ~th[t].raced => IF ev'[t].on THEN ev'[t].limit = 1 /\ ~th'[t].sig ELSE ev'[t].limit = 0
      BY <1>3, <1>5, <1>8, <3>1
    <3>. QED BY <1>5, <1>6, <2>2, <3>2 DEF CounterInv
  <2>. QED BY <2>1, <2>2
<1>. QED BY <1>1, <1>2, <1>3, <1>4, <1>5, <1>7, <1>9, OwnStep

LEMMA HogKeeps ==
  ASSUME IInv, NEW t \in Tasks, Hog(t) \/ InBarrier(t)
  PROVE  IInv'
<1>1. th[t] \in TaskRecords BY DEF IInv, TypeOK
<1>2. CASE Hog(t)
  <2>. DEFINE r == [th[t] EXCEPT !.left = @ - 1]
  <2>1. Ready(t, "work") /\ th[t].left > 0 /\ Works(t, ev[t], 1, r) /\ UNCHANGED <<fds, Kept>>
    BY <1>2 DEF Hog
  <2>2. /\ r \in TaskRecords /\ r.pc = "work" /\ r.hand = th[t].hand /\ r.fd = th[t].fd
        /\ r.raced = th[t].raced /\ r.sig = th[t].sig
    BY <1>1, <2>1 DEF TaskRecords, Ready
  <2>. HIDE DEF r
  <2>. QED BY <2>1, <2>2, UnitKeeps
<1>3. CASE InBarrier(t)
  <2>1. Ready(t, "wait") /\ Works(t, ev[t], 1, th[t]) /\ UNCHANGED <<fds, Kept>> /\ th[t].pc = "wait"
    BY <1>3 DEF InBarrier, Ready
  <2>. QED BY <1>1, <2>1, UnitKeeps
<1>. QED BY <1>2, <1>3

-----------------------------------------------------------------------------
(* Opening and closing *)

(* If a descriptor is free, open takes the lowest that is. *)
LEMMA LowestIsFree ==
  ASSUME fds \in [1 .. nr_thread -> Tasks \cup {Closed}],
         \E f \in 1 .. nr_thread : fds[f] = Closed
  PROVE  Lowest \in 1 .. nr_thread /\ fds[Lowest] = Closed
<1>. DEFINE T == {f \in 1 .. nr_thread : fds[f] = Closed}
<1>1. T \subseteq Nat /\ T # {}
  <2>1. \A f \in T : f \in Nat BY PerfUserAssumption
  <2>2. PICK f \in 1 .. nr_thread : fds[f] = Closed OBVIOUS
  <2>3. f \in T BY <2>2
  <2>. QED BY <2>1, <2>3
<1>2. PICK m \in T : \A k \in T : m <= k BY <1>1, Smallest
<1>3. \A g \in 1 .. m - 1 : g \in 1 .. nr_thread /\ ~(m <= g) BY <1>2, PerfUserAssumption
<1>4. \A g \in 1 .. m - 1 : fds[g] # Closed BY <1>2, <1>3
<1>5. DOMAIN fds = 1 .. nr_thread OBVIOUS
<1>6. \E f \in DOMAIN fds : fds[f] = Closed /\ \A g \in 1 .. f - 1 : fds[g] # Closed
  BY <1>2, <1>4, <1>5
<1>7. Lowest \in DOMAIN fds /\ fds[Lowest] = Closed BY <1>6 DEF Lowest
<1>. QED BY <1>5, <1>7

(* There are as many descriptors as threads, so one is left for the thread *)
(* that opens.                                                             *)
LEMMA OneIsFree ==
  ASSUME IInv, NEW t \in Tasks, th[t].pc = "open"
  PROVE  Lowest \in 1 .. nr_thread /\ fds[Lowest] = Closed
<1>. USE PerfUserAssumption
<1>1. /\ fds \in [1 .. nr_thread -> Tasks \cup {Closed}]
      /\ exp # "perf_ioctl" /\ ~Holds(t)
      /\ Threaded => t \in Threads
      /\ ~Threaded => t = 0
  BY Actors DEF IInv, TypeOK, MainInv, Holds, Tasks, Threads, Threaded
<1>2. SUFFICES ASSUME \A f \in 1 .. nr_thread : fds[f] # Closed PROVE FALSE
  BY <1>1, LowestIsFree
<1>3. \A f \in 1 .. nr_thread : fds[f] \in Tasks \ {t} /\ Holds(fds[f]) /\ th[fds[f]].fd = f
  <2>. HIDE DEF Holds
  <2>1. \A f \in 1 .. nr_thread : Holds(fds[f]) /\ th[fds[f]].fd = f BY <1>1, <1>2 DEF IInv, FdInv
  <2>2. \A f \in 1 .. nr_thread : fds[f] \in Tasks BY <1>1, <1>2
  <2>. QED BY <1>1, <2>1, <2>2
<1>4. CASE Threaded
  <2>1. \A u \in Tasks : Holds(u) => u \in Threads
    BY <1>4 DEF IInv, MainInv, Holds, Tasks, Threads
  <2>2. fds \in [1 .. nr_thread -> Threads \ {t}] BY <1>1, <1>3, <2>1
  <2>3. IsFiniteSet(1 .. nr_thread) /\ Cardinality(1 .. nr_thread) = nr_thread
    <3>1. 1 \in Int /\ nr_thread \in Int /\ ~(1 > nr_thread) /\ nr_thread - 1 + 1 = nr_thread OBVIOUS
    <3>. QED BY <3>1, FS_Interval
  <2>4. IsFiniteSet(Threads \ {t}) /\ Cardinality(Threads \ {t}) = nr_thread - 1
    <3>1. t \in 1 .. nr_thread BY <1>1, <1>4 DEF Threads
    <3>2. /\ IsFiniteSet((1 .. nr_thread) \ {t})
          /\ Cardinality((1 .. nr_thread) \ {t}) =
               IF t \in 1 .. nr_thread THEN Cardinality(1 .. nr_thread) - 1 ELSE Cardinality(1 .. nr_thread)
      BY <2>3, FS_RemoveElement, Zenon
    <3>. QED BY <2>3, <3>1, <3>2 DEF Threads
  <2>5. Cardinality(Threads \ {t}) < Cardinality(1 .. nr_thread) BY <2>3, <2>4
  <2>6. \E x, y \in 1 .. nr_thread : x # y /\ fds[x] = fds[y]
    <3>. DEFINE D == 1 .. nr_thread
                R == Threads \ {t}
    <3>1. IsFiniteSet(D) /\ IsFiniteSet(R) /\ Cardinality(R) < Cardinality(D) /\ fds \in [D -> R]
      BY <2>2, <2>3, <2>4, <2>5
    <3>. HIDE DEF D, R
    <3>2. \E x, y \in D : x # y /\ fds[x] = fds[y] BY <3>1, FS_PigeonHole
    <3>. QED BY <3>2 DEF D
  <2>. QED BY <1>3, <2>6
<1>5. CASE ~Threaded
  <2>1. 1 \in 1 .. nr_thread OBVIOUS
  <2>2. fds[1] \in Tasks \ {0} /\ Holds(fds[1]) BY <1>1, <1>3, <1>5, <2>1
  <2>3. fds[1] \in Threads BY <2>2 DEF Tasks, Threads
  <2>. QED BY <1>5, <2>2, <2>3 DEF IInv, MainInv, Holds
<1>. QED BY <1>4, <1>5

LEMMA OpenCounterKeeps ==
  ASSUME IInv, NEW t \in Tasks, OpenCounter(t)
  PROVE  IInv'
<1>. USE PerfUserAssumption
<1>. DEFINE f == Lowest
            pc == IF disable = "early" THEN "refresh" ELSE "enable"
            e == [on |-> FALSE, limit |-> 0, left |-> Attr, period |-> Attr, async |-> TRUE]
<1>1. /\ th[t] \in TaskRecords /\ ev[t] \in Events /\ th \in [Tasks -> TaskRecords]
      /\ ev \in [Tasks -> Events] /\ fds \in [1 .. nr_thread -> Tasks \cup {Closed}]
  BY DEF IInv, TypeOK
<1>2. /\ Ready(t, "open") /\ UNCHANGED <<exp, disable, todo, main, g_counters, now, data>>
      /\ fds' = [fds EXCEPT ![f] = t]
      /\ ev' = [ev EXCEPT ![t] = e]
      /\ th' = [th EXCEPT ![t].fd = f, ![t].pc = pc]
  BY DEF OpenCounter, Kept
<1>3. /\ th[t].pc = "open" /\ th[t].hand = "out" /\ ~th[t].sig
      /\ Threaded => t \in Threads /\ CounterInv(t) /\ todo # <<>> /\ Job \in OneJobs
      /\ t \in Threads \/ t = 0
      /\ t \in Threads => Threaded
      /\ ~Threaded => t = 0 /\ exp = "perf_event_open"
      /\ exp # "perf_ioctl"
  BY <1>2, ReadyTask DEF Pcs, Threaded
<1>4. f \in 1 .. nr_thread /\ fds[f] = Closed BY <1>3, OneIsFree
<1>5. Attr \in Int /\ (Threaded => Attr > 1)
  <2>1. Periods[1] \in Nat OBVIOUS
  <2>2. Threaded => Attr = Job.period /\ Job.period \in Nat \ {0, 1} BY <1>3 DEF Attr, OneJobs
  <2>3. ~Threaded => Attr = Periods[1]
    BY <1>3 DEF IInv, TypeOK, MainInv, Attr, Job, Jobs, Threaded, Prof
  <2>. QED BY <2>1, <2>2, <2>3
<1>6. e \in Events /\ ~e.on /\ e.limit = 0 /\ (Threaded => e.left > 1) BY <1>5 DEF Events
<1>7. pc \in {"refresh", "enable"} /\ (Threaded => pc = "refresh") BY DEF IInv, MainInv
<1>. HIDE DEF f, pc, e
<1>8. /\ th' \in [Tasks -> TaskRecords] /\ \A u \in Tasks : u # t => th'[u] = th[u]
      /\ th'[t] = [th[t] EXCEPT !.fd = f, !.pc = pc]
  <2>1. f \in Int /\ pc \in Pcs BY <1>4, <1>7 DEF Pcs
  <2>2. [th[t] EXCEPT !.fd = f, !.pc = pc] \in TaskRecords BY <1>1, <2>1 DEF TaskRecords
  <2>. QED BY <1>1, <1>2, <2>2
<1>9. /\ th'[t].pc = pc /\ th'[t].hand = "out" /\ th'[t].fd = f
      /\ th'[t].raced = th[t].raced /\ ~th'[t].sig
  BY <1>1, <1>3, <1>8 DEF TaskRecords
<1>10. /\ ev' \in [Tasks -> Events] /\ ev'[t] = e /\ \A u \in Tasks : u # t => ev'[u] = ev[u]
  BY <1>1, <1>2, <1>6
<1>11. /\ fds' \in [1 .. nr_thread -> Tasks \cup {Closed}] /\ fds'[f] = t
       /\ \A g \in 1 .. nr_thread : g # f => fds'[g] = fds[g]
  BY <1>1, <1>2, <1>4
<1>12. Threaded' = Threaded /\ Dry' = Dry /\ Jobs' = Jobs /\ Tasks = {0} \cup Threads /\ 0 \notin Threads
  BY <1>2 DEF Threaded, Dry, Job, Jobs, Tasks, Threads
<1>13. \A u \in Tasks : u # t => (Holds(u)' <=> Holds(u))
  BY <1>8, <1>12 DEF Holds
<1>14. Holds(t)' /\ ~Holds(t)
  BY <1>3, <1>7, <1>9 DEF Holds
<1>15. TypeOK'
  BY <1>2, <1>8, <1>10, <1>11, <1>12 DEF IInv, TypeOK
<1>16. MainInv'
  BY <1>2, <1>3, <1>7, <1>8, <1>9, <1>12 DEF IInv, MainInv
<1>17. IoctlInv'
  BY <1>2, <1>3 DEF IoctlInv
<1>18. FdInv'
  <2>. HIDE DEF Holds
  <2>1. ASSUME NEW u \in Tasks, Holds(u)' PROVE th'[u].fd \in 1 .. nr_thread /\ fds'[th'[u].fd] = u
    <3>1. CASE u = t BY <1>4, <1>9, <1>11, <3>1
    <3>2. CASE u # t
      <4>1. th[u].fd \in 1 .. nr_thread /\ fds[th[u].fd] = u /\ u # Closed
        BY <1>3, <1>13, <2>1, <3>2 DEF IInv, FdInv, Tasks, Closed
      <4>. QED BY <1>4, <1>8, <1>11, <3>2, <4>1
    <3>. QED BY <3>1, <3>2
  <2>2. ASSUME NEW g \in 1 .. nr_thread, fds'[g] # Closed
        PROVE  Holds(fds[g])' /\ th'[fds'[g]].fd = g
    <3>1. CASE g = f
      <4>1. fds'[g] = t BY <1>11, <3>1
      <4>2. \A u : u = t => Holds(u)' BY <1>14
      <4>. QED BY <1>9, <3>1, <4>1, <4>2 DEF Holds
    <3>2. CASE g # f
      <4>1. fds'[g] = fds[g] /\ fds[g] \in Tasks BY <1>1, <1>11, <2>2, <3>2
      <4>2. Holds(fds[g]) /\ th[fds[g]].fd = g BY <1>3, <2>2, <4>1 DEF IInv, FdInv
      <4>3. fds[g] # t BY <1>14, <4>2
      <4>. QED BY <1>8, <1>12, <4>1, <4>2, <4>3 DEF Holds
    <3>. QED BY <3>1, <3>2
  <2>. QED BY <2>1, <2>2 DEF FdInv
<1>19. BarrierInv'
  <2>1. ASSUME Threaded, NEW u \in Threads PROVE th[u].pc \notin Past
    BY <1>3, <2>1 DEF IInv, BarrierInv, Past
  <2>. QED BY <1>3, <1>7, <1>8, <1>9, <1>12, <2>1 DEF BarrierInv, Past
<1>20. ThreadInv'
  <2>1. ASSUME NEW u \in Threads, Threaded PROVE CounterInv(u)'
    <3>1. CASE u = t
      BY <1>3, <1>6, <1>7, <1>9, <1>10, <1>12, <2>1, <3>1 DEF CounterInv
    <3>2. CASE u # t
      <4>1. th'[u] = th[u] /\ ev'[u] = ev[u] /\ CounterInv(u)
        BY <1>8, <1>10, <1>12, <2>1, <3>2 DEF IInv, ThreadInv
      <4>2. th[u].pc # "done" BY <1>3, <2>1 DEF IInv, BarrierInv, Past
      <4>. QED BY <1>12, <4>1, <4>2 DEF CounterInv
    <3>. QED BY <3>1, <3>2
  <2>. QED BY <1>12, <2>1 DEF ThreadInv
<1>21. MainQuiet'
  BY <1>3, <1>8, <1>12 DEF IInv, MainQuiet
<1>. QED BY <1>15, <1>16, <1>17, <1>18, <1>19, <1>20, <1>21 DEF IInv

LEMMA CloseCounterKeeps ==
  ASSUME IInv, NEW t \in Tasks, CloseCounter(t)
  PROVE  IInv'
<1>. USE PerfUserAssumption
<1>. DEFINE f == th[t].fd
            r == [th[t] EXCEPT !.pc = "done"]
            e == [ev[t] EXCEPT !.on = FALSE]
<1>1. /\ th[t] \in TaskRecords /\ ev[t] \in Events /\ th \in [Tasks -> TaskRecords]
      /\ ev \in [Tasks -> Events] /\ fds \in [1 .. nr_thread -> Tasks \cup {Closed}]
  BY DEF IInv, TypeOK
<1>2. PICK n \in 0 .. 1 : Becomes(t, ev[t], n, r)
  BY DEF CloseCounter
<1>3. /\ Ready(t, "close") /\ UNCHANGED <<exp, disable, todo, main, g_counters, now, data>>
      /\ fds' = [fds EXCEPT ![f] = Closed]
      /\ ev' = [ev EXCEPT ![t].on = FALSE]
  BY DEF CloseCounter, Kept
<1>4. /\ th[t].pc = "close" /\ th[t].hand = "out" /\ ~th[t].sig
      /\ Threaded => t \in Threads /\ CounterInv(t)
      /\ t \in Threads \/ t = 0
      /\ t \in Threads => Threaded
      /\ ~Threaded => t = 0 /\ exp = "perf_event_open"
      /\ exp # "perf_ioctl"
  BY <1>3, ReadyTask DEF Pcs, Threaded
<1>5. /\ r \in TaskRecords /\ r.pc = "done" /\ r.hand = "out" /\ r.fd = f /\ r.raced = th[t].raced
      /\ e \in Events /\ ~e.on
  BY <1>1, <1>4 DEF TaskRecords, Events, Pcs
<1>6. Holds(t) /\ f \in 1 .. nr_thread /\ fds[f] = t
  BY <1>4 DEF Holds, IInv, FdInv
<1>. HIDE DEF r, f, e
<1>7. /\ th' \in [Tasks -> TaskRecords] /\ \A u \in Tasks : u # t => th'[u] = th[u]
      /\ th'[t].pc = "done" /\ th'[t].hand = "out" /\ th'[t].fd = f /\ th'[t].raced = th[t].raced
  BY <1>1, <1>2, <1>5, Becoming
<1>8. /\ ev' \in [Tasks -> Events] /\ ev'[t] = e /\ \A u \in Tasks : u # t => ev'[u] = ev[u]
  BY <1>1, <1>3, <1>5 DEF e
<1>9. /\ fds' \in [1 .. nr_thread -> Tasks \cup {Closed}] /\ fds'[f] = Closed
      /\ \A g \in 1 .. nr_thread : g # f => fds'[g] = fds[g]
  BY <1>1, <1>3, <1>6
<1>10. Threaded' = Threaded /\ Dry' = Dry /\ Jobs' = Jobs /\ Tasks = {0} \cup Threads /\ 0 \notin Threads
  BY <1>3 DEF Threaded, Dry, Job, Jobs, Tasks, Threads
<1>11. \A u \in Tasks : u # t => (Holds(u)' <=> Holds(u))
  BY <1>7, <1>10 DEF Holds
<1>12. ~Holds(t)'
  BY <1>7 DEF Holds
<1>13. TypeOK'
  BY <1>3, <1>7, <1>8, <1>9, <1>10 DEF IInv, TypeOK
<1>14. MainInv'
  BY <1>3, <1>4, <1>7, <1>10 DEF IInv, MainInv
<1>15. IoctlInv'
  BY <1>3, <1>4 DEF IoctlInv
<1>16. FdInv'
  <2>. HIDE DEF Holds
  <2>1. ASSUME NEW u \in Tasks, Holds(u)' PROVE th'[u].fd \in 1 .. nr_thread /\ fds'[th'[u].fd] = u
    <3>1. u # t BY <1>12, <2>1
    <3>2. th[u].fd \in 1 .. nr_thread /\ fds[th[u].fd] = u
      BY <1>4, <1>11, <2>1, <3>1 DEF IInv, FdInv
    <3>. QED BY <1>6, <1>7, <1>9, <3>1, <3>2
  <2>2. ASSUME NEW g \in 1 .. nr_thread, fds'[g] # Closed
        PROVE  Holds(fds[g])' /\ th'[fds'[g]].fd = g
    <3>1. g # f /\ fds'[g] = fds[g] /\ fds[g] \in Tasks BY <1>1, <1>9, <2>2
    <3>2. Holds(fds[g]) /\ th[fds[g]].fd = g BY <1>4, <2>2, <3>1 DEF IInv, FdInv
    <3>3. fds[g] # t BY <3>1, <3>2 DEF f
    <3>. QED BY <1>7, <1>10, <3>1, <3>2, <3>3 DEF Holds
  <2>. QED BY <2>1, <2>2 DEF FdInv
<1>17. BarrierInv'
  <2>1. Threaded => \A u \in Threads : th'[u].pc \in Past
    <3>1. Threaded => \A u \in Threads : th[u].pc \in Past BY <1>4 DEF IInv, BarrierInv, Past
    <3>. QED BY <1>7, <1>10, <3>1 DEF Past
  <2>. QED BY <1>10, <2>1 DEF BarrierInv
<1>18. ThreadInv'
  <2>1. ASSUME NEW u \in Threads, Threaded PROVE CounterInv(u)'
    <3>1. CASE u = t
      <4>1. ~Dry BY <1>4, <2>1 DEF CounterInv
      <4>2. ~ev'[t].on BY <1>5, <1>8
      <4>. QED BY <1>6, <1>7, <1>9, <1>10, <3>1, <4>1, <4>2 DEF CounterInv
    <3>2. CASE u # t
      <4>1. th'[u] = th[u] /\ ev'[u] = ev[u] /\ CounterInv(u)
        BY <1>7, <1>8, <1>10, <2>1, <3>2 DEF IInv, ThreadInv
      <4>. QED BY <1>9, <1>10, <4>1 DEF CounterInv
    <3>. QED BY <3>1, <3>2
  <2>. QED BY <1>10, <2>1 DEF ThreadInv
<1>19. MainQuiet'
  BY <1>4, <1>7, <1>10 DEF IInv, MainQuiet
<1>. QED BY <1>13, <1>14, <1>15, <1>16, <1>17, <1>18, <1>19 DEF IInv

LEMMA BarrierKeeps ==
  ASSUME IInv, NEW t \in Tasks, Barrier(t)
  PROVE  IInv'
<1>. USE PerfUserAssumption
<1>. DEFINE last == \A u \in Threads \ {t} : th[u].pc = "wait"
<1>1. /\ th[t] \in TaskRecords /\ th \in [Tasks -> TaskRecords]
      /\ ITER_MAIN \in Int /\ \A u \in Tasks : th[u] \in TaskRecords
  BY DEF IInv, TypeOK
<1>2. /\ Ready(t, "barrier") /\ UNCHANGED <<exp, disable, todo, main, g_counters, ev, fds, now, data>>
      /\ th' = IF last THEN [Released EXCEPT ![t].pc = "work", ![t].left = ITER_MAIN]
                       ELSE [th EXCEPT ![t].pc = "wait"]
  BY DEF Barrier, Kept
<1>3. th[t].pc = "barrier" /\ th[t].hand = "out" /\ ~th[t].sig /\ Threaded /\ t \in Threads
  BY <1>2, ReadyTask DEF Pcs, IInv, MainInv
<1>4. Threaded' = Threaded /\ Dry' = Dry /\ Jobs' = Jobs /\ Tasks = {0} \cup Threads /\ 0 \notin Threads
  BY <1>2 DEF Threaded, Dry, Job, Jobs, Tasks, Threads
<1>5. \A u \in Threads : th[u].pc \notin Past
  BY <1>3 DEF IInv, BarrierInv, Past
<1>6. /\ th' \in [Tasks -> TaskRecords]
      /\ \A u \in Tasks :
           /\ th'[u].hand = th[u].hand /\ th'[u].fd = th[u].fd /\ th'[u].raced = th[u].raced
           /\ th'[u].sig = th[u].sig
           /\ th'[u].pc = th[u].pc \/ (th[u].pc \in {"barrier", "wait"} /\ th'[u].pc \in {"wait", "work"})
      /\ last => \A u \in Threads : th'[u].pc = "work"
      /\ ~last => \A u \in Threads : th'[u].pc \notin Past
  <2>1. CASE last
    <3>. DEFINE rel(u) == [th[u] EXCEPT !.pc = "work", !.left = ITER_MAIN]
    <3>1. \A u \in Tasks :
            /\ rel(u) \in TaskRecords /\ rel(u).pc = "work" /\ rel(u).hand = th[u].hand
            /\ rel(u).fd = th[u].fd /\ rel(u).raced = th[u].raced /\ rel(u).sig = th[u].sig
      BY <1>1 DEF TaskRecords, Pcs
    <3>2. /\ Released = [u \in Tasks |-> IF th[u].pc = "wait" THEN rel(u) ELSE th[u]]
          /\ Released[t] = th[t]
      BY <1>3 DEF Released
    <3>3. th' = [u \in Tasks |-> IF u = t \/ th[u].pc = "wait" THEN rel(u) ELSE th[u]]
      BY <1>2, <1>3, <2>1, <3>2
    <3>4. \A u \in Threads : th'[u] = rel(u) BY <1>4, <2>1, <3>3
    <3>. HIDE DEF rel, last
    <3>5. th' \in [Tasks -> TaskRecords] BY <1>1, <3>1, <3>3
    <3>. QED BY <1>3, <1>4, <2>1, <3>1, <3>3, <3>4, <3>5
  <2>2. CASE ~last
    <3>. DEFINE r == [th[t] EXCEPT !.pc = "wait"]
    <3>1. /\ r \in TaskRecords /\ r.pc = "wait" /\ r.hand = th[t].hand
          /\ r.fd = th[t].fd /\ r.raced = th[t].raced /\ r.sig = th[t].sig
      BY <1>1 DEF TaskRecords, Pcs
    <3>2. th' = [th EXCEPT ![t] = r] BY <1>2, <2>2
    <3>. HIDE DEF r, last
    <3>3. th' \in [Tasks -> TaskRecords] /\ th'[t] = r /\ \A u \in Tasks : u # t => th'[u] = th[u]
      BY <1>1, <3>1, <3>2
    <3>. QED BY <1>3, <1>4, <1>5, <2>2, <3>1, <3>3 DEF Past
  <2>. QED BY <2>1, <2>2
<1>. HIDE DEF last
<1>7. \A u \in Tasks : Holds(u)' <=> Holds(u)
  BY <1>4, <1>6 DEF Holds
<1>8. TypeOK'
  BY <1>2, <1>4, <1>6 DEF IInv, TypeOK
<1>9. MainInv'
  BY <1>2, <1>3, <1>4, <1>6 DEF IInv, MainInv
<1>10. IoctlInv'
  BY <1>2 DEF IInv, IoctlInv
<1>11. FdInv'
  <2>1. \A f \in 1 .. nr_thread : fds[f] # Closed => fds[f] \in Tasks BY DEF IInv, TypeOK
  <2>. HIDE DEF Holds
  <2>. QED BY <1>2, <1>6, <1>7, <2>1 DEF IInv, FdInv
<1>12. BarrierInv'
  BY <1>4, <1>6 DEF BarrierInv, Past
<1>13. ThreadInv'
  <2>1. ASSUME NEW u \in Threads PROVE CounterInv(u)'
    <3>1. CounterInv(u) /\ u \in Tasks BY <1>3, <1>4 DEF IInv, ThreadInv
    <3>. QED BY <1>2, <1>4, <1>6, <3>1 DEF CounterInv
  <2>. QED BY <2>1 DEF ThreadInv
<1>14. MainQuiet'
  BY <1>4, <1>6 DEF IInv, MainQuiet
<1>. QED BY <1>8, <1>9, <1>10, <1>11, <1>12, <1>13, <1>14 DEF IInv

-----------------------------------------------------------------------------
(* main *)

(* The steps of main that leave the tasks, their counters and what is to   *)
(* be done alone.                                                          *)
LEMMA MainStep ==
  ASSUME IInv, UNCHANGED <<exp, disable, todo, g_counters, th, ev, fds>>,
         now' \in Nat, data' \in Seq({t \in [tv_sec : Int, tv_nsec : Int] : Normal(t)}),
         \/ main = "calibrate" /\ main' = "next"
         \/ main = "next" /\ main' = "func" /\ ~Threaded /\ todo # <<>> /\ Head(todo).do = "profile"
         \/ main = "return" /\ main' = "func" /\ th[0].pc = "done"
  PROVE  IInv'
<1>1. Threaded' = Threaded /\ Dry' = Dry /\ Jobs' = Jobs
  BY DEF Threaded, Dry, Job, Jobs
<1>2. TypeOK' BY <1>1 DEF IInv, TypeOK
<1>3. MainInv' BY <1>1 DEF IInv, MainInv
<1>4. IoctlInv'
  <2>1. Head(do_perf_ioctl).do = "open" BY DEF do_perf_ioctl
  <2>2. main' # "next" => todo # do_perf_ioctl BY <2>1 DEF IInv, MainInv
  <2>. QED BY <2>2 DEF IInv, IoctlInv
<1>5. FdInv'
  <2>1. \A u : Holds(u)' <=> Holds(u) BY <1>1 DEF Holds
  <2>. HIDE DEF Holds
  <2>. QED BY <2>1 DEF IInv, FdInv
<1>6. BarrierInv' BY <1>1 DEF IInv, BarrierInv
<1>7. ThreadInv' BY <1>1 DEF IInv, ThreadInv, CounterInv
<1>8. MainQuiet' BY <1>1 DEF IInv, MainQuiet
<1>. QED BY <1>2, <1>3, <1>4, <1>5, <1>6, <1>7, <1>8 DEF IInv

(* Between two experiments no thread holds a descriptor. *)
LEMMA NoneHolds ==
  ASSUME IInv, main \in {"calibrate", "next", "func"}, NEW t \in Tasks
  PROVE  ~Holds(t)
<1>1. t = 0 \/ t \in Threads BY PerfUserAssumption DEF Tasks, Threads
<1>2. \A u \in Threads : th[u].pc \in {"none", "ended"} BY DEF IInv, MainInv
<1>3. th[0].pc \in {"none", "done"} BY DEF IInv, MainInv
<1>. QED BY <1>1, <1>2, <1>3 DEF Holds

(* What there is to do in which experiment. *)
LEMMA JobKinds ==
  ASSUME IInv, todo # <<>>
  PROVE  /\ Job.do = "one" => Threaded
         /\ Job.do \in {"open", "close"} => exp = "perf_ioctl"
         /\ Job.do = "profile" => ~Threaded /\ (Job.func = "open" => exp = "perf_event_open")
         /\ Tail(todo) \in Seq(Jobs)
         /\ \A i \in DOMAIN Tail(todo) : i + 1 \in DOMAIN todo /\ Tail(todo)[i] = todo[i + 1]
<1>1. todo \in Seq(Jobs) BY DEF IInv, TypeOK
<1>2. /\ Job \in Jobs /\ Tail(todo) \in Seq(Jobs)
      /\ \A i \in DOMAIN Tail(todo) : i + 1 \in DOMAIN todo /\ Tail(todo)[i] = todo[i + 1]
  BY <1>1 DEF Job
<1>3. CASE Threaded
  <2>1. Job.do = "one" BY <1>2, <1>3 DEF Jobs, OneJobs
  <2>. QED BY <1>2, <1>3, <2>1
<1>4. CASE exp = "perf_event_open"
  <2>1. Job = Prof("open") BY <1>2, <1>4 DEF Jobs, Threaded
  <2>2. Job.do = "profile" BY <2>1 DEF Prof
  <2>. QED BY <1>2, <1>4, <2>2 DEF Threaded
<1>5. CASE exp = "perf_ioctl"
  <2>1. Job \in IoctlJobs BY <1>2, <1>5 DEF Jobs, Threaded
  <2>2. Job.do \in {"open", "close", "profile"} /\ (Job.do = "profile" => Job.func \in {"null", "refresh"})
    BY <2>1 DEF IoctlJobs, Prof
  <2>. QED BY <1>2, <1>5, <2>2 DEF Threaded
<1>6. CASE ~Threaded /\ exp \notin {"perf_event_open", "perf_ioctl"}
  <2>1. Job = Prof("null") BY <1>2, <1>6 DEF Jobs
  <2>2. Job.do = "profile" /\ Job.func = "null" BY <2>1 DEF Prof
  <2>. QED BY <1>2, <1>6, <2>2
<1>. QED BY <1>3, <1>4, <1>5, <1>6

LEMMA DoOneKeeps ==
  ASSUME IInv, DoOne
  PROVE  IInv'
<1>. USE PerfUserAssumption
<1>1. /\ main = "next" /\ todo # <<>> /\ Job.do = "one" /\ main' = "spawn" /\ g_counters' = "live"
      /\ th' = [t \in Tasks |-> Idle]
      /\ UNCHANGED <<exp, disable, todo, ev, fds, now, data>>
  BY DEF DoOne
<1>2. Threaded
  BY <1>1, JobKinds
<1>3. Threaded' = Threaded /\ Dry' = Dry /\ Jobs' = Jobs /\ Tasks = {0} \cup Threads /\ 0 \notin Threads
  BY <1>1 DEF Threaded, Dry, Job, Jobs, Tasks, Threads
<1>4. /\ Idle \in TaskRecords
      /\ \A t \in Tasks : th'[t].pc = "none" /\ th'[t].hand = "out" /\ ~th'[t].sig
  BY <1>1 DEF Idle, TaskRecords, Pcs
<1>5. th' \in [Tasks -> TaskRecords] BY <1>1, <1>4
<1>6. \A f \in 1 .. nr_thread : fds[f] = Closed
  <2>1. \A f \in 1 .. nr_thread : fds[f] # Closed => fds[f] \in Tasks /\ Holds(fds[f])
    BY <1>2 DEF IInv, TypeOK, FdInv, Threaded
  <2>. QED BY <1>1, <2>1, NoneHolds
<1>7. TypeOK' BY <1>1, <1>3, <1>5 DEF IInv, TypeOK
<1>8. MainInv' BY <1>1, <1>2, <1>3, <1>4 DEF IInv, MainInv
<1>9. IoctlInv' BY <1>1, <1>2 DEF IoctlInv, Threaded
<1>10. FdInv' BY <1>1, <1>4, <1>6 DEF FdInv, Holds
<1>11. BarrierInv' BY <1>3, <1>4 DEF BarrierInv, Past
<1>12. ThreadInv'
  <2>1. ASSUME NEW t \in Threads PROVE CounterInv(t)'
    <3>1. th[t].pc \in {"none", "ended"} /\ CounterInv(t) BY <1>1, <1>2 DEF IInv, MainInv, ThreadInv
    <3>2. ~ev[t].on BY <3>1 DEF CounterInv
    <3>. QED BY <1>1, <1>3, <1>4, <3>2 DEF CounterInv
  <2>. QED BY <2>1 DEF ThreadInv
<1>13. MainQuiet' BY <1>3, <1>4 DEF MainQuiet
<1>. QED BY <1>7, <1>8, <1>9, <1>10, <1>11, <1>12, <1>13 DEF IInv

LEMMA SpawnKeeps ==
  ASSUME IInv, Spawn
  PROVE  IInv'
<1>. USE PerfUserAssumption
<1>1. PICK t \in Threads :
        /\ th[t].pc = "none" /\ th' = [th EXCEPT ![t].pc = "start"]
        /\ main' \in {"spawn", "join"}
  BY DEF Spawn
<1>2. main = "spawn" /\ UNCHANGED <<exp, disable, todo, g_counters, ev, fds, now, data>>
  BY DEF Spawn
<1>3. Threaded' = Threaded /\ Dry' = Dry /\ Jobs' = Jobs /\ Tasks = {0} \cup Threads /\ 0 \notin Threads
  BY <1>2 DEF Threaded, Dry, Job, Jobs, Tasks, Threads
<1>4. Threaded /\ CounterInv(t) BY <1>2 DEF IInv, MainInv, ThreadInv
<1>5. th[t] \in TaskRecords /\ th \in [Tasks -> TaskRecords] BY <1>3 DEF IInv, TypeOK
<1>6. [th[t] EXCEPT !.pc = "start"] \in TaskRecords BY <1>5 DEF TaskRecords, Pcs
<1>7. /\ th' \in [Tasks -> TaskRecords] /\ \A u \in Tasks : u # t => th'[u] = th[u]
      /\ th'[t] = [th[t] EXCEPT !.pc = "start"]
  BY <1>1, <1>3, <1>5, <1>6
<1>8. /\ th'[t].pc = "start" /\ th'[t].hand = th[t].hand /\ th'[t].sig = th[t].sig
      /\ th'[t].raced = th[t].raced /\ th'[t].fd = th[t].fd
  BY <1>5, <1>7 DEF TaskRecords
<1>9. TypeOK' BY <1>1, <1>2, <1>3, <1>7 DEF IInv, TypeOK
<1>10. MainInv' BY <1>1, <1>2, <1>3, <1>4, <1>7 DEF IInv, MainInv
<1>11. IoctlInv' BY <1>2, <1>4 DEF IoctlInv, Threaded
<1>12. FdInv'
  <2>1. \A u \in Tasks : (Holds(u)' <=> Holds(u)) /\ th'[u].fd = th[u].fd
    BY <1>1, <1>3, <1>7, <1>8 DEF Holds
  <2>2. \A f \in 1 .. nr_thread : fds[f] # Closed => fds[f] \in Tasks BY DEF IInv, TypeOK
  <2>. HIDE DEF Holds
  <2>. QED BY <1>2, <2>1, <2>2 DEF IInv, FdInv
<1>13. BarrierInv'
  <2>1. \A u \in Threads : th[u].pc \notin Past BY <1>1, <1>4 DEF IInv, BarrierInv, Past
  <2>. QED BY <1>3, <1>7, <1>8, <2>1 DEF BarrierInv, Past
<1>14. ThreadInv'
  <2>1. ASSUME NEW u \in Threads PROVE CounterInv(u)'
    <3>1. CASE u = t BY <1>1, <1>2, <1>3, <1>4, <1>8, <3>1 DEF CounterInv
    <3>2. CASE u # t
      <4>1. th'[u] = th[u] /\ CounterInv(u) BY <1>3, <1>4, <1>7, <3>2 DEF IInv, ThreadInv
      <4>. QED BY <1>2, <1>3, <4>1 DEF CounterInv
    <3>. QED BY <3>1, <3>2
  <2>. QED BY <2>1 DEF ThreadInv
<1>15. MainQuiet' BY <1>3, <1>7 DEF IInv, MainQuiet
<1>. QED BY <1>9, <1>10, <1>11, <1>12, <1>13, <1>14, <1>15 DEF IInv

LEMMA JoinKeeps ==
  ASSUME IInv, Join
  PROVE  IInv'
<1>. USE PerfUserAssumption
<1>1. /\ main = "join" /\ \A t \in Threads : th[t].pc = "ended"
      /\ g_counters' = "null" /\ todo' = Tail(todo) /\ main' = "next"
      /\ UNCHANGED <<exp, disable, th, ev, fds, now, data>>
  BY DEF Join
<1>2. Threaded /\ todo # <<>> BY <1>1 DEF IInv, MainInv
<1>3. Threaded' = Threaded /\ Jobs' = Jobs /\ Tasks = {0} \cup Threads /\ 0 \notin Threads
  BY <1>1 DEF Threaded, Jobs, Tasks, Threads
<1>4. \A t \in Tasks : ~Holds(t) /\ ~Holds(t)'
  BY <1>1, <1>2, <1>3 DEF IInv, MainInv, Holds
<1>5. \A f \in 1 .. nr_thread : fds[f] = Closed
  <2>1. \A f \in 1 .. nr_thread : fds[f] # Closed => fds[f] \in Tasks /\ Holds(fds[f])
    BY <1>2 DEF IInv, TypeOK, FdInv, Threaded
  <2>. QED BY <1>4, <2>1
<1>6. todo' \in Seq(Jobs) BY <1>1, <1>2 DEF IInv, TypeOK
<1>7. TypeOK' BY <1>1, <1>3, <1>6 DEF IInv, TypeOK
<1>8. MainInv' BY <1>1, <1>2, <1>3 DEF IInv, MainInv
<1>9. IoctlInv' BY <1>1, <1>2 DEF IoctlInv, Threaded
<1>10. FdInv' BY <1>1, <1>4, <1>5 DEF FdInv
<1>11. BarrierInv' BY <1>1, <1>3 DEF IInv, BarrierInv
<1>12. ThreadInv'
  <2>1. ASSUME NEW t \in Threads PROVE CounterInv(t)'
    <3>1. CounterInv(t) /\ th[t].pc = "ended" BY <1>1, <1>2 DEF IInv, ThreadInv
    <3>2. th[t].hand = "out" /\ ~th[t].sig /\ ~ev[t].on BY <3>1 DEF CounterInv
    <3>. QED BY <1>1, <3>1, <3>2 DEF CounterInv
  <2>. QED BY <2>1 DEF ThreadInv
<1>13. MainQuiet' BY <1>1, <1>3 DEF IInv, MainQuiet
<1>. QED BY <1>7, <1>8, <1>9, <1>10, <1>11, <1>12, <1>13 DEF IInv

(* The experiments without threads. *)
LEMMA PlainStep ==
  ASSUME IInv, ~Threaded, UNCHANGED exp, TypeOK', MainInv', IoctlInv', FdInv'
  PROVE  IInv'
BY DEF IInv, BarrierInv, ThreadInv, MainQuiet, Threaded

LEMMA PerfOpenKeeps ==
  ASSUME IInv, PerfOpen
  PROVE  IInv'
<1>. USE PerfUserAssumption
<1>. DEFINE f == Lowest
            e == [on |-> FALSE, limit |-> 0, left |-> Attr, period |-> Attr, async |-> FALSE]
<1>1. /\ main = "next" /\ todo # <<>> /\ Job.do = "open"
      /\ fds' = [fds EXCEPT ![f] = 0]
      /\ th' = [th EXCEPT ![0].fd = f]
      /\ ev' = [ev EXCEPT ![0] = e]
      /\ todo' = Tail(todo)
      /\ UNCHANGED <<exp, disable, main, g_counters, now, data>>
  BY DEF PerfOpen
<1>2. exp = "perf_ioctl" /\ ~Threaded BY <1>1, JobKinds DEF Threaded
<1>3. todo = do_perf_ioctl /\ \A g \in 1 .. nr_thread : fds[g] = Closed
  <2>1. 1 \in DOMAIN todo /\ todo[1] = Job BY <1>1 DEF IInv, TypeOK, Job
  <2>. QED BY <1>1, <1>2, <2>1 DEF IInv, IoctlInv
<1>4. /\ th \in [Tasks -> TaskRecords] /\ ev \in [Tasks -> Events] /\ 0 \in Tasks /\ 0 \notin Threads
      /\ fds \in [1 .. nr_thread -> Tasks \cup {Closed}] /\ th[0] \in TaskRecords
  BY DEF IInv, TypeOK, Tasks, Threads
<1>5. f \in 1 .. nr_thread
  <2>1. 1 \in 1 .. nr_thread OBVIOUS
  <2>. QED BY <1>3, <1>4, <2>1, LowestIsFree
<1>6. e \in Events
  <2>1. Periods[1] \in Nat /\ Attr = Periods[1] BY <1>1 DEF Attr
  <2>. QED BY <2>1 DEF Events
<1>. HIDE DEF f, e
<1>7. [th[0] EXCEPT !.fd = f] \in TaskRecords
  <2>1. f \in Int BY <1>5
  <2>. QED BY <1>4, <2>1 DEF TaskRecords
<1>8. th' \in [Tasks -> TaskRecords] /\ th'[0] = [th[0] EXCEPT !.fd = f] /\ \A t \in Tasks : t # 0 => th'[t] = th[t]
  BY <1>1, <1>4, <1>7
<1>9. th'[0].pc = th[0].pc /\ th'[0].hand = th[0].hand BY <1>4, <1>8 DEF TaskRecords
<1>10. Threaded' = Threaded /\ Jobs' = Jobs /\ Tasks = {0} \cup Threads
  BY <1>1 DEF Threaded, Jobs, Tasks, Threads
<1>11. ev' \in [Tasks -> Events] /\ fds' \in [1 .. nr_thread -> Tasks \cup {Closed}]
  BY <1>1, <1>4, <1>5, <1>6
<1>12. todo' \in Seq(Jobs) BY <1>1, JobKinds
<1>13. TypeOK' BY <1>1, <1>8, <1>10, <1>11, <1>12 DEF IInv, TypeOK
<1>14. MainInv' BY <1>1, <1>2, <1>8, <1>9, <1>10 DEF IInv, MainInv
<1>15. IoctlInv'
  <2>1. todo' = <<Prof("null"), Prof("refresh"), [do |-> "close"]>>
    BY <1>1, <1>3 DEF do_perf_ioctl
  <2>2. \A i \in DOMAIN todo' : todo'[i].do # "open" BY <2>1 DEF Prof
  <2>. QED BY <2>2 DEF IoctlInv
<1>16. FdInv' BY <1>1, <1>2 DEF FdInv
<1>. QED BY <1>1, <1>2, <1>13, <1>14, <1>15, <1>16, PlainStep

LEMMA PerfCloseKeeps ==
  ASSUME IInv, PerfClose
  PROVE  IInv'
<1>. USE PerfUserAssumption
<1>1. /\ main = "next" /\ todo # <<>> /\ Job.do = "close"
      /\ fds' = [fds EXCEPT ![th[0].fd] = Closed]
      /\ ev' = [ev EXCEPT ![0].on = FALSE]
      /\ todo' = Tail(todo)
      /\ UNCHANGED <<exp, disable, main, g_counters, th, now, data>>
  BY DEF PerfClose
<1>2. exp = "perf_ioctl" /\ ~Threaded BY <1>1, JobKinds DEF Threaded
<1>3. /\ ev \in [Tasks -> Events] /\ 0 \in Tasks /\ ev[0] \in Events
      /\ fds \in [1 .. nr_thread -> Tasks \cup {Closed}]
  BY DEF IInv, TypeOK, Tasks
<1>4. [ev[0] EXCEPT !.on = FALSE] \in Events BY <1>3 DEF Events
<1>5. ev' \in [Tasks -> Events] /\ fds' \in [1 .. nr_thread -> Tasks \cup {Closed}]
  BY <1>1, <1>3, <1>4
<1>6. Threaded' = Threaded /\ Jobs' = Jobs BY <1>1 DEF Threaded, Jobs
<1>7. todo' \in Seq(Jobs) BY <1>1, JobKinds
<1>8. TypeOK' BY <1>1, <1>5, <1>6, <1>7 DEF IInv, TypeOK
<1>9. MainInv' BY <1>1, <1>2, <1>6 DEF IInv, MainInv
<1>10. IoctlInv'
  <2>1. todo # do_perf_ioctl
    <3>1. todo[1].do = "close" BY <1>1 DEF Job, IInv, TypeOK
    <3>2. do_perf_ioctl[1].do = "open" BY DEF do_perf_ioctl
    <3>. QED BY <3>1, <3>2
  <2>2. \A i \in DOMAIN todo : todo[i].do # "open" BY <1>2, <2>1 DEF IInv, IoctlInv
  <2>3. \A i \in DOMAIN todo' : todo'[i].do # "open" BY <1>1, <2>2, JobKinds
  <2>. QED BY <2>3 DEF IoctlInv
<1>11. FdInv' BY <1>1, <1>2 DEF FdInv
<1>. QED BY <1>1, <1>2, <1>8, <1>9, <1>10, <1>11, PlainStep

LEMMA FuncKeeps ==
  ASSUME IInv, Func
  PROVE  IInv'
<1>. USE PerfUserAssumption
<1>. DEFINE pc == IF Job.func = "open" THEN "open" ELSE "done"
<1>1. /\ main = "func" /\ main' = "return" /\ th' = [th EXCEPT ![0].pc = pc]
      /\ ev' = IF Job.func = "refresh" THEN [ev EXCEPT ![0] = Refresh(@)] ELSE ev
      /\ UNCHANGED <<exp, disable, todo, g_counters, fds, now, data>>
  BY DEF Func
<1>2. ~Threaded /\ todo # <<>> BY <1>1 DEF IInv, MainInv
<1>3. Job.do = "profile" BY <1>1 DEF IInv, MainInv, Job
<1>4. /\ th \in [Tasks -> TaskRecords] /\ ev \in [Tasks -> Events] /\ 0 \in Tasks /\ 0 \notin Threads
      /\ th[0] \in TaskRecords /\ ev[0] \in Events
  BY DEF IInv, TypeOK, Tasks, Threads
<1>5. pc \in {"open", "done"} /\ (pc = "open" => exp = "perf_event_open")
  BY <1>2, <1>3, JobKinds
<1>6. Refresh(ev[0]) \in Events BY <1>4, Refreshing
<1>7. ev' \in [Tasks -> Events] BY <1>1, <1>4, <1>6
<1>. HIDE DEF pc
<1>8. [th[0] EXCEPT !.pc = pc] \in TaskRecords BY <1>4, <1>5 DEF TaskRecords, Pcs
<1>9. th' \in [Tasks -> TaskRecords] /\ th'[0] = [th[0] EXCEPT !.pc = pc] /\ \A t \in Tasks : t # 0 => th'[t] = th[t]
  BY <1>1, <1>4, <1>8
<1>10. th'[0].pc = pc /\ th'[0].hand = th[0].hand BY <1>4, <1>9 DEF TaskRecords
<1>11. Threaded' = Threaded /\ Jobs' = Jobs /\ Tasks = {0} \cup Threads
  BY <1>1 DEF Threaded, Jobs, Tasks, Threads
<1>12. TypeOK' BY <1>1, <1>7, <1>9, <1>11 DEF IInv, TypeOK
<1>13. MainInv' BY <1>1, <1>2, <1>4, <1>5, <1>9, <1>10, <1>11 DEF IInv, MainInv
<1>14. IoctlInv' BY <1>1 DEF IInv, IoctlInv
<1>15. FdInv'
  <2>1. \A t \in Tasks : ~Holds(t)' /\ ~Holds(t)
    <3>1. \A t \in Threads : th'[t].pc = "none" BY <1>2, <1>4, <1>9, <1>11 DEF IInv, MainInv
    <3>2. \A t \in Tasks : ~Holds(t) BY <1>1, NoneHolds
    <3>. QED BY <1>5, <1>10, <1>11, <3>1, <3>2 DEF Holds
  <2>2. \A f \in 1 .. nr_thread : fds[f] # Closed => fds[f] \in Tasks BY DEF IInv, TypeOK
  <2>. HIDE DEF Holds
  <2>. QED BY <1>1, <2>1, <2>2 DEF IInv, FdInv
<1>. QED BY <1>1, <1>2, <1>12, <1>13, <1>14, <1>15, PlainStep

LEMMA EndProfileKeeps ==
  ASSUME IInv, EndProfile
  PROVE  IInv'
<1>. USE PerfUserAssumption
<1>1. /\ main = "return" /\ th[0].pc = "done" /\ todo' = Tail(todo) /\ main' = "next"
      /\ UNCHANGED <<exp, disable, g_counters, th, ev, fds, now, data>>
  BY DEF EndProfile, Ready
<1>2. ~Threaded /\ todo # <<>> BY <1>1 DEF IInv, MainInv
<1>3. Threaded' = Threaded /\ Jobs' = Jobs /\ Tasks = {0} \cup Threads
  BY <1>1 DEF Threaded, Jobs, Tasks, Threads
<1>4. todo' \in Seq(Jobs) BY <1>1, <1>2, JobKinds
<1>5. TypeOK' BY <1>1, <1>3, <1>4 DEF IInv, TypeOK
<1>6. MainInv' BY <1>1, <1>2, <1>3 DEF IInv, MainInv
<1>7. IoctlInv'
  <2>1. exp = "perf_ioctl" => \A i \in DOMAIN todo : todo[i].do # "open" BY <1>1 DEF IInv, IoctlInv
  <2>2. exp = "perf_ioctl" => \A i \in DOMAIN todo' : todo'[i].do # "open" BY <1>1, <1>2, <2>1, JobKinds
  <2>. QED BY <1>1, <2>2 DEF IoctlInv
<1>8. FdInv'
  <2>1. \A t \in Tasks : ~Holds(t)' /\ ~Holds(t) BY <1>1, <1>2, <1>3 DEF IInv, MainInv, Holds
  <2>2. \A f \in 1 .. nr_thread : fds[f] # Closed => fds[f] \in Tasks BY DEF IInv, TypeOK
  <2>. HIDE DEF Holds
  <2>. QED BY <1>1, <2>1, <2>2 DEF IInv, FdInv
<1>. QED BY <1>1, <1>2, <1>5, <1>6, <1>7, <1>8, PlainStep

LEMMA MainKeeps ==
  ASSUME IInv, Main
  PROVE  IInv'
<1>1. CASE Calibrated
  BY <1>1, MainStep DEF Calibrated, IInv, TypeOK
<1>2. CASE profile_init
  <2>1. ~Threaded BY <1>2, JobKinds DEF profile_init
  <2>2. <<>> \in Seq({t \in [tv_sec : Int, tv_nsec : Int] : Normal(t)}) OBVIOUS
  <2>. QED BY <1>2, <2>1, <2>2, MainStep DEF profile_init, Job, IInv, TypeOK
<1>3. CASE Stamp
  <2>1. now \in Nat /\ data \in Seq({t \in [tv_sec : Int, tv_nsec : Int] : Normal(t)}) BY DEF IInv, TypeOK
  <2>2. now' \in Nat /\ data' = Append(data, timespec(now')) BY <1>3, <2>1, PerfUserAssumption DEF Stamp
  <2>3. timespec(now') \in {t \in [tv_sec : Int, tv_nsec : Int] : Normal(t)}
    BY <2>2, NormalTime, ProfileAssumption DEF timespec
  <2>4. data' \in Seq({t \in [tv_sec : Int, tv_nsec : Int] : Normal(t)}) BY <2>1, <2>2, <2>3
  <2>. QED BY <1>3, <2>2, <2>4, MainStep DEF Stamp, Ready
<1>. QED BY <1>1, <1>2, <1>3, DoOneKeeps, SpawnKeeps, JoinKeeps, PerfOpenKeeps, PerfCloseKeeps, FuncKeeps,
            EndProfileKeeps DEF Main

-----------------------------------------------------------------------------
LEMMA ListOfLength ==
  ASSUME NEW S, NEW n \in Nat, NEW f \in [1 .. n -> S]
  PROVE  f \in Seq(S)
OBVIOUS

LEMMA ExperimentJobs ==
  ASSUME exp \in DOMAIN exps
  PROVE  exps[exp] \in Seq(Jobs) /\ (exp = "perf_ioctl" => exps[exp] = do_perf_ioctl)
<1>. USE PerfUserAssumption
<1>1. CASE exp = "handler_work"
  <2>1. exps[exp] = do_handler_work /\ Jobs = OneJobs BY <1>1 DEF exps, Jobs, Threaded
  <2>2. Len(Overheads) \in Nat /\ DOMAIN Overheads = 1 .. Len(Overheads) /\ Periods[1] \in Nat \ {0, 1}
    OBVIOUS
  <2>3. \A i \in DOMAIN Overheads : One(Overheads[i], Periods[1], FALSE) \in OneJobs
    BY <2>2 DEF One, OneJobs
  <2>4. do_handler_work \in [1 .. Len(Overheads) -> OneJobs] BY <2>2, <2>3 DEF do_handler_work
  <2>. QED BY <1>1, <2>1, <2>2, <2>4, ListOfLength
<1>2. CASE exp = "sampling"
  <2>1. exps[exp] = do_sampling_overhead /\ Jobs = OneJobs BY <1>2 DEF exps, Jobs, Threaded
  <2>2. Len(Periods) \in Nat /\ 2 * Len(Periods) \in Nat OBVIOUS
  <2>3. ASSUME NEW i \in 1 .. 2 * Len(Periods)
        PROVE  One(0, Periods[(i + 1) \div 2], i % 2 = 0) \in OneJobs
    <3>. DEFINE b == i % 2 = 0
                p == Periods[(i + 1) \div 2]
    <3>1. (i + 1) \div 2 \in 1 .. Len(Periods) BY <2>2
    <3>2. p \in Nat \ {0, 1} /\ b \in BOOLEAN BY <3>1
    <3>. HIDE DEF p, b
    <3>3. One(0, p, b) \in OneJobs BY <3>2 DEF One, OneJobs
    <3>. QED BY <3>3 DEF p, b
  <2>4. do_sampling_overhead \in [1 .. 2 * Len(Periods) -> OneJobs] BY <2>3 DEF do_sampling_overhead
  <2>. QED BY <1>2, <2>1, <2>2, <2>4, ListOfLength
<1>3. CASE exp = "unwind"
  <2>1. exps[exp] = <<Prof("null")>> /\ Jobs = {Prof("null")}
    BY <1>3 DEF exps, Jobs, Threaded, do_unwind_overhead_one
  <2>. QED BY <1>3, <2>1
<1>4. CASE exp = "unwind_all"
  <2>1. exps[exp] = <<Prof("null")>> \o <<Prof("null")>> /\ Jobs = {Prof("null")}
    BY <1>4 DEF exps, Jobs, Threaded, do_unwind_overhead_all, do_unwind_overhead_one
  <2>2. <<Prof("null")>> \in Seq(Jobs) BY <2>1
  <2>. QED BY <1>4, <2>1, <2>2
<1>5. CASE exp = "perf_event_open"
  <2>1. exps[exp] = <<Prof("open")>> /\ Jobs = {Prof("open")}
    BY <1>5 DEF exps, Jobs, Threaded, do_perf_event_open_overhead
  <2>. QED BY <1>5, <2>1
<1>6. CASE exp = "perf_ioctl"
  <2>1. exps[exp] = do_perf_ioctl /\ Jobs = IoctlJobs BY <1>6 DEF exps, Jobs, Threaded
  <2>2. do_perf_ioctl \in Seq(IoctlJobs) BY DEF do_perf_ioctl, IoctlJobs
  <2>. QED BY <2>1, <2>2
<1>. QED BY <1>1, <1>2, <1>3, <1>4, <1>5, <1>6 DEF exps

LEMMA InvInitial == Init => IInv
<1>. SUFFICES ASSUME Init PROVE IInv
  OBVIOUS
<1>. USE PerfUserAssumption
<1>1. /\ exp \in DOMAIN exps /\ todo = exps[exp] /\ main = "calibrate" /\ g_counters = "null"
      /\ th = [t \in Tasks |-> Idle] /\ fds = [f \in 1 .. nr_thread |-> Closed]
      /\ ev = [t \in Tasks |-> [on |-> FALSE, limit |-> 0, left |-> 0, period |-> 0, async |-> FALSE]]
      /\ now = 0 /\ data = <<>>
      /\ Threaded => disable = "early"
  BY DEF Init, Threaded
<1>2. todo \in Seq(Jobs) /\ (exp = "perf_ioctl" => todo = do_perf_ioctl) BY <1>1, ExperimentJobs
<1>3. /\ Idle \in TaskRecords /\ 0 \in Tasks /\ Threads \subseteq Tasks
      /\ \A t \in Tasks : th[t].pc = "none" /\ th[t].hand = "out" /\ ~th[t].sig
  BY <1>1 DEF Idle, TaskRecords, Pcs, Tasks, Threads
<1>4. /\ ev \in [Tasks -> Events] /\ \A t \in Tasks : ~ev[t].on
  BY <1>1 DEF Events
<1>5. TypeOK BY <1>1, <1>2, <1>3, <1>4 DEF TypeOK
<1>6. MainInv BY <1>1, <1>3 DEF MainInv
<1>7. IoctlInv BY <1>1, <1>2 DEF IoctlInv
<1>8. FdInv BY <1>1, <1>3 DEF FdInv, Holds
<1>9. BarrierInv /\ MainQuiet BY <1>3 DEF BarrierInv, MainQuiet, Past
<1>10. ThreadInv BY <1>3, <1>4 DEF ThreadInv, CounterInv
<1>. QED BY <1>5, <1>6, <1>7, <1>8, <1>9, <1>10 DEF IInv

LEMMA InvInductive == IInv /\ [Next]_vars => IInv'
<1>. SUFFICES ASSUME IInv, [Next]_vars PROVE IInv'
  OBVIOUS
<1>1. CASE UNCHANGED userVars \/ \E t \in Tasks : OpenFails(t)
  <2>1. UNCHANGED <<exp, disable, todo, main, g_counters, th, ev, fds, now, data>>
    BY <1>1 DEF userVars, OpenFails
  <2>2. Threaded' = Threaded /\ Dry' = Dry /\ Jobs' = Jobs /\ \A t : Holds(t)' <=> Holds(t)
    BY <2>1 DEF Threaded, Dry, Job, Jobs, Holds
  <2>3. TypeOK' BY <2>1, <2>2 DEF IInv, TypeOK
  <2>4. MainInv' /\ IoctlInv' BY <2>1, <2>2 DEF IInv, MainInv, IoctlInv
  <2>5. FdInv' BY <2>1, <2>2 DEF IInv, FdInv
  <2>6. BarrierInv' /\ MainQuiet' BY <2>1, <2>2 DEF IInv, BarrierInv, MainQuiet
  <2>7. ThreadInv' BY <2>1, <2>2 DEF IInv, ThreadInv, CounterInv
  <2>. QED BY <2>3, <2>4, <2>5, <2>6, <2>7 DEF IInv
<1>2. ASSUME NEW t \in Tasks, Task(t) PROVE IInv'
  BY <1>1, <1>2, HandlerKeeps, OpenCounterKeeps, OpenRefreshKeeps, OpenEnableKeeps, CloseCounterKeeps,
     WorkKeeps, BarrierKeeps, HogKeeps DEF Task, Counter0, Work
<1>. QED BY <1>1, <1>2, MainKeeps DEF Next, vars

LEMMA InvHolds == FairSpec => []IInv
BY InvInitial, InvInductive, PTL DEF FairSpec

(* Whatever the threads, the periods and the overheads, no run of          *)
(* signal_handler refreshes the counter of another thread, although it may *)
(* use a descriptor that is already closed.                                *)
THEOREM RefreshesItsOwn == FairSpec => []OwnCounterOnly
<1>1. IInv => OwnCounterOnly
  <2>1. SUFFICES ASSUME IInv, NEW t \in Tasks, th[t].hand = "hog"
                 PROVE  fds[th[t].fd] \in {t, Closed}
    BY DEF OwnCounterOnly
  <2>2. Threaded /\ t \in Threads /\ CounterInv(t) /\ th[t] \in TaskRecords BY <2>1, Actors
  <2>3. CASE th[t].pc = "done" BY <2>1, <2>2, <2>3 DEF CounterInv
  <2>4. CASE th[t].pc # "done"
    <3>1. Holds(t) BY <2>1, <2>2, <2>4 DEF CounterInv, Holds, TaskRecords, Pcs
    <3>. QED BY <2>1, <2>2, <3>1 DEF IInv, FdInv, Threaded
  <2>. QED BY <2>3, <2>4
<1>. QED BY <1>1, InvHolds, PTL

(* DISABLE_EARLY for every period of at least two: the work of             *)
(* signal_handler is counted only in a thread whose counter overflowed     *)
(* between the REFRESH and the ENABLE of open_counter.                     *)
THEOREM HandlerIsNotCounted == FairSpec => []HandlerUncounted
<1>1. IInv => HandlerUncounted
  <2>1. SUFFICES ASSUME IInv, NEW t \in Threads, th[t].hand = "hog", ev[t].on
                 PROVE  th[t].raced
    BY DEF HandlerUncounted
  <2>2. t \in Tasks BY PerfUserAssumption DEF Tasks, Threads
  <2>3. CounterInv(t) /\ th[t] \in TaskRecords BY <2>1, <2>2, Actors
  <2>. QED BY <2>1, <2>3 DEF CounterInv, TaskRecords, Pcs
<1>. QED BY <1>1, InvHolds, PTL

(* For every length of a second, every number of repetitions and every     *)
(* clock, the total that profile_stats adds up from the differences is the *)
(* time between the first and the last call, and it is normalised.         *)
THEOREM StatsAddUp == FairSpec => []DeltasAddUp
<1>1. IInv => DeltasAddUp
  <2>1. SUFFICES ASSUME IInv, Len(data) = REPEAT
                 PROVE  LET total == profile_stats(data)
                        IN  /\ timespec_to_double_ns(total)
                                 = timespec_to_double_ns(data[REPEAT]) - timespec_to_double_ns(data[1])
                            /\ total.tv_nsec \in 0 .. NSEC - 1
    BY DEF DeltasAddUp
  <2>. DEFINE n == REPEAT - 1
  <2>2. n \in Nat /\ n + 1 = REPEAT /\ n \in 0 .. n /\ Len(data) - 1 = n BY <2>1, PerfUserAssumption
  <2>3. \A i \in 1 .. n + 1 : Normal(data[i]) BY <2>1, <2>2 DEF IInv, TypeOK
  <2>. HIDE DEF n
  <2>4. PICK f : Totals(f, data, n) /\ profile_stats(data) = f[n] BY <2>2, StatsAreTotals
  <2>5. /\ Normal(f[n])
        /\ timespec_to_double_ns(f[n]) = timespec_to_double_ns(data[n + 1]) - timespec_to_double_ns(data[1])
    BY <2>2, <2>3, <2>4, Telescope
  <2>. QED BY <2>2, <2>4, <2>5 DEF Normal
<1>. QED BY <1>1, InvHolds, PTL

(* What calibrate.c measures for perfuser, before any experiment begins,   *)
(* covers no more than one interval, whatever perfuser does afterwards.    *)
THEOREM MeasuredInOneInterval == FairSpec => []AtMostOneInterval
<1>1. Init => CalInv BY CalInitial DEF Init
<1>2. CalInv /\ [Next]_vars => CalInv'
  <2>1. [Next]_vars => [calibrate]_calVars BY DEF Next, vars
  <2>. QED BY <2>1, CalInductive
<1>3. CalInv => AtMostOneInterval BY CalibrateAssumption DEF CalInv, AtMostOneInterval
<1>. QED BY <1>1, <1>2, <1>3, PTL DEF FairSpec

=============================================================================
