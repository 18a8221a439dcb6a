----------------------------- MODULE SpinProofs -----------------------------
(***************************************************************************)
(* Proofs about the spin library (Spin) and its two users (SpinUsers) for  *)
(* any number of workers, any arguments and any number of calls: between   *)
(* two calls the library is quiet, a burst ends by the alarm of its own    *)
(* round, and nothing is freed under a worker.                             *)
(***************************************************************************)
EXTENDS SpinUsers, TLAPS

SpinTypeOK ==
  /\ run \in {0, 1} /\ cont \in {0, 1}
  /\ heap \in {"none", "live", "freed"}
  /\ sem_start \in [Threads -> Nat] /\ sem_done \in [Threads -> Nat]
  /\ timer \in {"off", "armed"}
  /\ wpc \in [Threads -> WorkerLabels]
  /\ api \in ApiLabels
  /\ todo \in 0 .. nr_thread
  /\ rounds \in Nat /\ fired \in Nat
  /\ spun \in [Threads -> Nat]

(* What the thread that makes the calls knows of its own state. *)
CallInv ==
  /\ api \in {"idle", "arm", "exited"} => todo = 0
  /\ api \in {"create", "arm", "start", "finish", "exited"} => cont = 1
  /\ api \in {"stop", "join"} => cont = 0
  /\ cont = 1 \/ api # "idle" => heap = "live"
  /\ cont = 0 /\ api = "idle" => heap # "live"

(* The alarm of a round is the only one under way: from the arming of the  *)
(* timer to the alarm, run is set and the round is one alarm ahead.        *)
AlarmInv ==
  /\ api \notin {"start", "finish"} => timer = "off" /\ fired = rounds
  /\ api \in {"arm", "exited"} => run = 1
  /\ api \in {"start", "finish"} =>
       \/ run = 1 /\ rounds = fired + 1
       \/ run = 0 /\ timer = "off" /\ rounds = fired

(* Where worker t can be between two rounds: started and not yet posted. *)
AtRest(t) ==
  /\ sem_start[t] = 0 /\ sem_done[t] = 0
  /\ wpc[t] \in {"init", "wait"}

(* Where it can be in a round: the token it was given is its semaphore     *)
(* sem_start, then its own program counter, then its semaphore sem_done.   *)
InRound(t) ==
  \/ /\ sem_start[t] = 1 /\ sem_done[t] = 0
     /\ wpc[t] \in {"init", "wait"} /\ spun[t] + 1 = rounds
  \/ /\ sem_start[t] = 0 /\ sem_done[t] = 0
     /\ wpc[t] \in {"check", "spin"} /\ spun[t] + 1 = rounds
  \/ /\ sem_start[t] = 0 /\ sem_done[t] = 0 /\ wpc[t] = "post"
     /\ spun[t] = rounds /\ run = 0
  \/ /\ sem_start[t] = 0 /\ sem_done[t] = 1 /\ wpc[t] = "wait"
     /\ spun[t] = rounds /\ run = 0

(* Where it can be once spin_exit has posted it. *)
Leaving(t) ==
  \/ sem_start[t] = 1 /\ wpc[t] \in {"init", "wait"}
  \/ sem_start[t] = 0 /\ wpc[t] \in {"check", "returned"}

WorkerInv(t) ==
  /\ api = "idle" /\ cont = 0 => wpc[t] \in {"none", "returned"} /\ spun[t] = rounds
  /\ api = "create" =>
       /\ spun[t] = rounds
       /\ IF t < todo THEN AtRest(t)
                      ELSE sem_start[t] = 0 /\ sem_done[t] = 0 /\ wpc[t] = "none"
  /\ (api = "idle" /\ cont = 1) \/ api \in {"arm", "exited"} => AtRest(t) /\ spun[t] = rounds
  /\ api = "start" => IF t < todo THEN InRound(t) ELSE AtRest(t) /\ spun[t] + 1 = rounds
  /\ api = "finish" => IF t < todo THEN AtRest(t) /\ spun[t] = rounds /\ run = 0 ELSE InRound(t)
  /\ api = "stop" => spun[t] = rounds /\ IF t < todo THEN Leaving(t) ELSE AtRest(t)
  /\ api = "join" => /\ spun[t] = rounds /\ Leaving(t)
                     /\ t < todo => wpc[t] = "returned"

(* The inductive invariant of the library. *)
SpinInv ==
  /\ SpinTypeOK
  /\ CallInv
  /\ Threads # {} => AlarmInv
  /\ \A t \in Threads : WorkerInv(t)

-----------------------------------------------------------------------------
(* One lemma per step: it keeps SpinInv. *)

LEMMA SpinInit == Init => SpinInv
BY SpinAssumption DEF Init, SpinInv, SpinTypeOK, CallInv, AlarmInv, WorkerInv, AtRest, Threads,
   WorkerLabels, ApiLabels

LEMMA SpinStutter == SpinInv /\ UNCHANGED vars => SpinInv'
BY DEF SpinInv, vars, SpinTypeOK, CallInv, AlarmInv, WorkerInv, AtRest, InRound, Leaving

LEMMA SignalKeeps ==
  ASSUME SpinInv, signalhandler
  PROVE  SpinInv'
<1> USE DEF SpinInv, SpinTypeOK, signalhandler
<1>1. SpinTypeOK' /\ CallInv'
  BY DEF CallInv
<1>2. ASSUME NEW t \in Threads PROVE AlarmInv' /\ WorkerInv(t)'
  <2>1. api \in {"start", "finish"} /\ run = 1 /\ rounds = fired + 1
    BY DEF AlarmInv, ApiLabels
  <2>2. AlarmInv'
    BY <2>1 DEF AlarmInv
  <2>3. WorkerInv(t)'
    BY <2>1 DEF WorkerInv, AtRest, InRound
  <2> QED BY <2>2, <2>3
<1> QED BY <1>1, <1>2

LEMMA WorkerKeeps ==
  ASSUME SpinInv, NEW w \in Threads, worker(w)
  PROVE  SpinInv'
<1> USE DEF SpinInv, SpinTypeOK, WorkerStep
<1>1. SpinTypeOK' /\ CallInv' /\ AlarmInv'
  BY DEF worker, WorkerInit, WorkerWait, WorkerCheck, WorkerSpin, WorkerPost, CallInv, AlarmInv,
     WorkerLabels
<1>2. ASSUME NEW t \in Threads, t # w PROVE WorkerInv(t)'
  BY <1>2 DEF worker, WorkerInit, WorkerWait, WorkerCheck, WorkerSpin, WorkerPost, WorkerInv,
     AtRest, InRound, Leaving
<1>3. WorkerInv(w)'
  <2> USE DEF WorkerInv, AtRest, InRound, Leaving
  <2>1. CASE WorkerInit(w)
    BY <2>1 DEF WorkerInit
  <2>2. CASE WorkerWait(w)
    BY <2>2 DEF WorkerWait
  <2>3. CASE WorkerCheck(w)
    BY <2>3 DEF WorkerCheck, CallInv
  <2>4. CASE WorkerSpin(w)
    BY <2>4 DEF WorkerSpin
  <2>5. CASE WorkerPost(w)
    BY <2>5 DEF WorkerPost
  <2> QED BY <2>1, <2>2, <2>3, <2>4, <2>5 DEF worker
<1> QED BY <1>1, <1>2, <1>3

LEMMA BeginKeeps ==
  ASSUME SpinInv, NEW u, spin_init \/ spin_run(u) \/ spin_exit
  PROVE  SpinInv'
<1> USE SpinAssumption DEF SpinInv, SpinTypeOK, CallInv, AlarmInv, WorkerInv, AtRest, InRound,
        Leaving, history, Threads, WorkerLabels, ApiLabels
<1>1. CASE InitAlloc
  BY <1>1 DEF InitAlloc
<1>2. CASE InitAllocFails
  BY <1>2 DEF InitAllocFails
<1>3. CASE RunBegin(u)
  BY <1>3 DEF RunBegin
<1>4. CASE ExitBegin
  BY <1>4 DEF ExitBegin
<1>5. CASE UNCHANGED vars
  BY <1>5, SpinStutter
<1> QED BY <1>1, <1>2, <1>3, <1>4, <1>5 DEF spin_init, spin_run, spin_exit, Ignored

LEMMA InCallKeeps ==
  ASSUME SpinInv, InCall
  PROVE  SpinInv'
<1> USE SpinAssumption DEF SpinInv, SpinTypeOK, CallInv, AlarmInv, WorkerInv, AtRest, InRound,
        Leaving, history, Threads, WorkerLabels, ApiLabels
<1>0. todo \in 0 .. nr_thread /\ nr_thread \in Nat
  OBVIOUS
<1>1. CASE InitCreate
  BY <1>1 DEF InitCreate
<1>2. CASE InitReturn
  BY <1>2 DEF InitReturn
<1>3. CASE RunSetitimer
  BY <1>3 DEF RunSetitimer
<1>4. CASE RunSetitimerFails
  BY <1>4 DEF RunSetitimerFails
<1>5. CASE RunStart
  <2>1. CASE todo < nr_thread
    <3>1. SpinTypeOK' /\ CallInv' /\ (Threads # {} => AlarmInv)'
      <4>1. SpinTypeOK'
        <5>1. todo' \in 0 .. nr_thread
          BY <1>5, <2>1 DEF RunStart, PostStart
        <5>2. sem_start' \in [Threads -> Nat]
          BY <1>5, <2>1 DEF RunStart, PostStart
        <5> QED BY <1>5, <2>1, <5>1, <5>2 DEF RunStart, PostStart
      <4>2. CallInv'
        BY <1>5, <2>1 DEF RunStart, PostStart
      <4>3. (Threads # {} => AlarmInv)'
        BY <1>5, <2>1 DEF RunStart, PostStart
      <4> QED BY ONLY <4>1, <4>2, <4>3
    <3>2. ASSUME NEW t \in Threads, t = todo PROVE WorkerInv(t)'
      BY <1>5, <2>1, <3>2 DEF RunStart, PostStart
    <3>3. ASSUME NEW t \in Threads, t # todo PROVE WorkerInv(t)'
      BY <1>5, <2>1, <3>3, SMTT(20) DEF RunStart, PostStart
    <3> QED BY ONLY <3>1, <3>2, <3>3 DEF SpinInv
  <2>2. CASE todo = nr_thread
    <3>1. SpinTypeOK' /\ CallInv'
      BY <1>5, <2>2 DEF RunStart, PostStart
    <3>2. (Threads # {} => AlarmInv)'
      BY <1>5, <2>2 DEF RunStart, PostStart
    <3>3. ASSUME NEW t \in Threads PROVE WorkerInv(t)'
      BY <1>5, <2>2 DEF RunStart, PostStart
    <3> QED BY ONLY <3>1, <3>2, <3>3 DEF SpinInv
  <2>3. todo < nr_thread \/ todo = nr_thread
    BY ONLY <1>0
  <2> QED BY ONLY <2>1, <2>2, <2>3
<1>6. CASE RunWaitDone
  <2>1. SpinTypeOK' /\ CallInv' /\ (Threads # {} => AlarmInv)'
    BY <1>6 DEF RunWaitDone
  <2>2. ASSUME NEW t \in Threads, t = todo PROVE WorkerInv(t)'
    BY <1>6, <2>2 DEF RunWaitDone
  <2>3. ASSUME NEW t \in Threads, t # todo PROVE WorkerInv(t)'
    BY <1>6, <2>3 DEF RunWaitDone
  <2> QED BY ONLY <2>1, <2>2, <2>3 DEF SpinInv
<1>7. CASE RunReturn
  BY <1>7 DEF RunReturn
<1>8. CASE ExitStop
  <2>1. CASE todo < nr_thread
    <3>1. SpinTypeOK' /\ CallInv' /\ (Threads # {} => AlarmInv)'
      <4>1. SpinTypeOK'
        <5>1. todo' \in 0 .. nr_thread
          BY <1>8, <2>1 DEF ExitStop, PostStart
        <5>2. sem_start' \in [Threads -> Nat]
          BY <1>8, <2>1 DEF ExitStop, PostStart
        <5> QED BY <1>8, <2>1, <5>1, <5>2 DEF ExitStop, PostStart
      <4>2. CallInv'
        BY <1>8, <2>1 DEF ExitStop, PostStart
      <4>3. (Threads # {} => AlarmInv)'
        BY <1>8, <2>1 DEF ExitStop, PostStart
      <4> QED BY ONLY <4>1, <4>2, <4>3
    <3>2. ASSUME NEW t \in Threads, t = todo PROVE WorkerInv(t)'
      BY <1>8, <2>1, <3>2 DEF ExitStop, PostStart
    <3>3. ASSUME NEW t \in Threads, t # todo PROVE WorkerInv(t)'
      BY <1>8, <2>1, <3>3, SMTT(20) DEF ExitStop, PostStart
    <3> QED BY ONLY <3>1, <3>2, <3>3 DEF SpinInv
  <2>2. CASE todo = nr_thread
    <3>1. SpinTypeOK' /\ CallInv'
      BY <1>8, <2>2 DEF ExitStop, PostStart
    <3>2. (Threads # {} => AlarmInv)'
      BY <1>8, <2>2 DEF ExitStop, PostStart
    <3>3. ASSUME NEW t \in Threads PROVE WorkerInv(t)'
      BY <1>8, <2>2 DEF ExitStop, PostStart
    <3> QED BY ONLY <3>1, <3>2, <3>3 DEF SpinInv
  <2>3. todo < nr_thread \/ todo = nr_thread
    BY ONLY <1>0
  <2> QED BY ONLY <2>1, <2>2, <2>3
<1>9. CASE ExitJoin
  BY <1>9 DEF ExitJoin
<1>10. CASE ExitFree
  BY <1>10 DEF ExitFree
<1> QED BY <1>1, <1>2, <1>3, <1>4, <1>5, <1>6, <1>7, <1>8, <1>9, <1>10 DEF InCall

-----------------------------------------------------------------------------
(* Whichever user the library has, SpinInv holds. *)
LEMMA UsersKeep == UsersSpec => []SpinInv
<1>1. UsersInit => SpinInv
  BY SpinInit DEF UsersInit, ClientInit, PulseInit
<1>2. SpinInv /\ [UsersNext]_allVars => SpinInv'
  <2> SUFFICES ASSUME SpinInv, [UsersNext]_allVars PROVE SpinInv'
    OBVIOUS
  <2>1. CASE Any(ClientNext)
    <3>1. CASE Call
      BY <3>1, BeginKeeps DEF Call
    <3>2. CASE Step(InCall)
      BY <3>2, InCallKeeps DEF Step
    <3>3. CASE Step(signalhandler)
      BY <3>3, SignalKeeps DEF Step
    <3>4. CASE \E t \in Threads : Step(worker(t))
      BY <3>4, WorkerKeeps DEF Step
    <3>5. CASE UNCHANGED clientVars
      BY <3>5, SpinStutter DEF clientVars
    <3> QED BY <2>1, <3>1, <3>2, <3>3, <3>4, <3>5 DEF Any, ClientNext
  <2>2. CASE Timed(PulseNext)
    <3>1. CASE Main
      BY <3>1, BeginKeeps, SpinStutter DEF Main, ParseOpts, Sleep, Burst, Exit, Return
    <3>2. CASE Alarm
      BY <3>2, SignalKeeps DEF Alarm, InLibrary
    <3>3. CASE InLibrary(InCall)
      BY <3>3, InCallKeeps DEF InLibrary
    <3>4. CASE \E t \in Threads : InLibrary(worker(t))
      BY <3>4, WorkerKeeps DEF InLibrary
    <3>5. CASE UNCHANGED pulseVars
      BY <3>5, SpinStutter DEF pulseVars
    <3> QED BY <2>2, <3>1, <3>2, <3>3, <3>4, <3>5 DEF Timed, PulseNext
  <2>3. CASE UNCHANGED allVars
    BY <2>3, SpinStutter DEF allVars
  <2> QED BY <2>1, <2>2, <2>3 DEF UsersNext
<1> QED BY <1>1, <1>2, PTL DEF UsersSpec

(* spin_run returns to a library at rest, however the workers were         *)
(* interleaved and whenever the alarm came: no alarm, no token and no      *)
(* worker is left over that would disturb the next call.                   *)
THEOREM LibraryQuiet == UsersSpec => []QuietBetweenCalls
<1>1. SpinInv => QuietBetweenCalls
  BY DEF SpinInv, SpinTypeOK, AlarmInv, WorkerInv, AtRest, QuietBetweenCalls
<1> QED BY <1>1, UsersKeep, PTL

(* A worker leaves its busy loop by the alarm of its own round, never by   *)
(* one left over from an earlier spin_run.                                 *)
THEOREM BurstsEnd == UsersSpec => []BurstEndsByAlarm
<1>1. SpinInv => BurstEndsByAlarm
  BY DEF SpinInv, SpinTypeOK, AlarmInv, WorkerInv, AtRest, InRound, Leaving,
     BurstEndsByAlarm, ApiLabels
<1> QED BY <1>1, UsersKeep, PTL

(* spin_exit frees the semaphores when every worker has returned. *)
THEOREM NothingFreedUnderAWorker == UsersSpec => []NoUseAfterFree
<1>1. SpinInv => NoUseAfterFree
  BY DEF SpinInv, SpinTypeOK, CallInv, WorkerInv, NoUseAfterFree
<1> QED BY <1>1, UsersKeep, PTL

-----------------------------------------------------------------------------
(* wk-pulse: the time and the number of its bursts.  A second is a whole   *)
(* number of periods, as with the default of 4 bursts per second; for any  *)
(* other frequency the last period of each second is cut short.            *)
WholePeriods ==
  /\ Starts \subseteq Nat /\ LATE \in Nat
  /\ \A e \in Experiments : /\ e.spin \in Nat /\ e.duration \in Nat
                            /\ e.freq \in Nat \ {0} /\ USEC_PER_SEC % e.freq = 0

PulseTypeOK ==
  /\ exp \in Experiments
  /\ phase \in {"parse", "loop", "burst", "exit", "end"}
  /\ i \in Nat /\ now \in Nat /\ usec \in Nat /\ began \in Int

(* main sleeps, then begins the burst, with no call in progress.  Once the *)
(* alarm of a burst has come, the burst began in the past.                 *)
Past == api \in {"idle", "create", "stop", "join"} \/ (api \in {"start", "finish"} /\ run = 0)

OnTimeInv ==
  /\ began <= now
  /\ timer = "armed" => usec > 0
  /\ phase \in {"parse", "loop"} /\ Past => began < now
  /\ phase = "burst" => api = "idle" /\ now % period <= LATE /\ began < now - (now % period)

(* Every iteration of main's loop is one round of the library, unless      *)
(* spin_init failed.                                                       *)
NoWorkers == \A t \in Threads : wpc[t] = "none"

CountInv ==
  /\ phase = "parse" => api = "idle" /\ cont = 0 /\ rounds = 0 /\ i = 0 /\ NoWorkers
  /\ phase \in {"loop", "burst"} =>
       /\ api \notin {"stop", "join"} /\ i <= nr_iter
       /\ cont = 1 => i = IF api \in {"arm", "exited"} THEN rounds + 1 ELSE rounds
       /\ cont = 0 => rounds = 0 /\ api = "idle" /\ NoWorkers
  /\ phase = "burst" => api = "idle" /\ i < nr_iter
  /\ phase \in {"exit", "end"} =>
       /\ api \in {"idle", "stop", "join"} /\ cont = 0
       /\ \/ rounds = 0 /\ NoWorkers
          \/ rounds = nr_iter /\ \A t \in Threads : wpc[t] # "none"
  /\ phase = "end" => api = "idle"
  /\ api = "create" => rounds = 0

UserInv ==
  \/ user = "any" /\ began = -1 /\ phase = "none"
  \/ user = "pulse" /\ PulseTypeOK /\ CountInv /\ (Threads # {} => OnTimeInv)

(* The quotient and the remainder of a time. *)
LEMMA DivMod ==
  ASSUME NEW N \in Nat \ {0}, NEW x \in Nat
  PROVE  x % N \in 0 .. N - 1 /\ x \div N \in Nat /\ x = N * (x \div N) + (x % N)
OBVIOUS

(* If q exceeds p, N * q exceeds N * p by at least N. *)
LEMMA MultiplesApart ==
  ASSUME NEW N \in Nat \ {0}, NEW p \in Int, NEW q \in Int, p < q
  PROVE  N * q >= N * p + N
<1>1. PICK d \in Nat : q = p + 1 + d
  <2> q - p - 1 \in Nat
    OBVIOUS
  <2> WITNESS q - p - 1 \in Nat
  <2> QED OBVIOUS
<1>2. N * q = N * p + N + N * d
  BY <1>1
<1>3. N * d >= 0
  OBVIOUS
<1> QED BY <1>2, <1>3

(* The remainder is determined by any way of writing x as a multiple of N  *)
(* plus less than N.                                                       *)
LEMMA ModIs ==
  ASSUME NEW N \in Nat \ {0}, NEW q \in Nat, NEW r \in 0 .. N - 1,
         NEW x \in Nat, x = N * q + r
  PROVE  x % N = r
<1>1. PICK p \in Nat, m \in 0 .. N - 1 : x = N * p + m /\ m = x % N
  BY DivMod
<1>2. ~ (p < q)
  BY <1>1, MultiplesApart
<1>3. ~ (q < p)
  BY <1>1, MultiplesApart
<1>4. p = q
  BY <1>2, <1>3
<1>5. N * p = N * q
  BY <1>4
<1> QED BY <1>1, <1>5

(* A second is freq periods. *)
LEMMA SecondIsPeriods ==
  ASSUME WholePeriods, exp \in Experiments
  PROVE  /\ period \in Nat \ {0} /\ exp.freq \in Nat \ {0}
         /\ USEC_PER_SEC = exp.freq * period
         /\ nr_iter \in Nat
         /\ exp.duration - nr_iter * period \in 0 .. USEC_PER_SEC - 1
<1> DEFINE U == USEC_PER_SEC  f == exp.freq  d == exp.duration
<1>1. U \in Nat \ {0} /\ f \in Nat \ {0} /\ U % f = 0 /\ d \in Nat
  BY SpinAssumption DEF WholePeriods
<1>2. period = U \div f /\ nr_iter = (d \div U) * f
  BY DEF period, nr_iter
<1> HIDE DEF U, f, d
<1>3. period \in Nat /\ U = f * period
  BY <1>1, <1>2, DivMod
<1>4. period # 0
  BY <1>1, <1>3
<1> DEFINE q == d \div U
<1>5. q \in Nat /\ d % U \in 0 .. U - 1 /\ d = U * q + (d % U)
  BY <1>1, DivMod
<1>6. nr_iter = q * f
  BY <1>2
<1> HIDE DEF q
<1>7. nr_iter \in Nat
  BY <1>1, <1>5, <1>6
<1>8. nr_iter * period = U * q
  <2>1. nr_iter * period = (q * f) * period
    BY <1>6
  <2>2. (q * f) * period = q * (f * period)
    BY <1>1, <1>3, <1>5
  <2> QED BY <1>1, <1>3, <1>5, <2>1, <2>2
<1>9. d - nr_iter * period \in 0 .. U - 1
  BY <1>1, <1>5, <1>8
<1> QED BY <1>1, <1>3, <1>4, <1>7, <1>9 DEF U, f, d

(* Where the sleep ends: at a multiple of the period, plus the delay. *)
LEMMA SleepLands ==
  ASSUME WholePeriods, exp \in Experiments, now \in Nat, NEW late \in 0 .. LATE
  PROVE  /\ sync < USEC_PER_SEC =>
              LET x == now + sync + late
              IN  x \in Nat /\ x % period <= LATE /\ now < x - (x % period)
         /\ ~(sync < USEC_PER_SEC) => now % period <= LATE /\ now % period = 0
<1> DEFINE U == USEC_PER_SEC  p == period  f == exp.freq
<1>1. U \in Nat \ {0} /\ p \in Nat \ {0} /\ f \in Nat \ {0} /\ U = f * p /\ LATE \in Nat
  BY SecondIsPeriods, SpinAssumption DEF WholePeriods
<1> DEFINE b == now % U  a == now \div U  c == b \div p  d == b % p
<1>3. sync = p - d
  BY DEF sync
<1> HIDE DEF U, p, f
<1>2. /\ a \in Nat /\ b \in 0 .. U - 1 /\ now = U * a + b
      /\ c \in Nat /\ d \in 0 .. p - 1 /\ b = p * c + d
  <2>1. a \in Nat /\ b \in 0 .. U - 1 /\ now = U * a + b
    BY <1>1, DivMod
  <2> HIDE DEF a, b
  <2>2. b \in Nat
    BY <1>1, <2>1
  <2>3. c \in Nat /\ d \in 0 .. p - 1 /\ b = p * c + d
    BY <1>1, <2>2, DivMod
  <2> QED BY <2>1, <2>3
<1> HIDE DEF a, b, c, d
<1>4. PICK k \in Nat : now = p * k + d /\ k = f * a + c
  <2>1. f * a + c \in Nat
    BY <1>1, <1>2
  <2>2. U * a = p * (f * a)
    BY <1>1, <1>2
  <2>3. now = p * (f * a + c) + d
    <3>1. f * a \in Nat /\ now = p * (f * a) + (p * c + d)
      BY <1>1, <1>2, <2>2
    <3>2. p * (f * a + c) = p * (f * a) + p * c
      BY <1>1, <1>2, <3>1
    <3> QED BY <1>1, <1>2, <2>1, <3>1, <3>2
  <2> QED BY <2>1, <2>3
<1> DEFINE x == now + sync + late
<1>5. x \in Nat /\ x = p * (k + 1) + late /\ late \in Nat
  BY <1>1, <1>2, <1>3, <1>4
<1>6. now < p * (k + 1)
  <2>1. p * (k + 1) = p * k + p
    BY <1>1, <1>4
  <2> QED BY <1>1, <1>2, <1>4, <2>1
<1>7. x % p <= LATE /\ now < x - (x % p)
  <2> HIDE DEF x
  <2>1. CASE late < p
    <3>1. x % p = late
      BY <1>1, <1>5, <2>1, ModIs
    <3>2. p * (k + 1) \in Nat
      BY <1>1, <1>4
    <3> QED BY <1>1, <1>5, <1>6, <3>1, <3>2
  <2>2. CASE ~(late < p)
    <3>1. x % p \in 0 .. p - 1
      BY <1>1, <1>5, DivMod
    <3>2. p * (k + 1) \in Nat
      BY <1>1, <1>4
    <3>3. x % p \in Nat /\ x % p < p
      BY <1>1, <3>1
    <3>4. x % p <= late
      BY <1>1, <1>5, <2>2, <3>3
    <3> QED BY <1>1, <1>5, <1>6, <3>2, <3>3, <3>4
  <2> QED BY <2>1, <2>2
<1>8. ~(sync < U) => now % p <= LATE /\ now % p = 0
  <2> SUFFICES ASSUME ~(sync < U) PROVE now % p <= LATE /\ now % p = 0
    OBVIOUS
  <2>1. d = 0 /\ p >= U
    BY <1>1, <1>2, <1>3
  <2>2. now % p = 0
    BY <1>1, <1>4, <2>1, ModIs
  <2> QED BY <1>1, <2>2
<1> QED BY <1>5, <1>7, <1>8 DEF U, p

(* Steps inside the library: only the alarm changes the time, and none     *)
(* comes between the sleep and the burst.                                  *)
LEMMA LibraryKeepsPulse ==
  ASSUME WholePeriods, SpinInv, UserInv, user = "pulse", UNCHANGED user,
         \/ Alarm
         \/ InLibrary(InCall) /\ UNCHANGED now
         \/ \E t \in Threads : InLibrary(worker(t)) /\ UNCHANGED now
  PROVE  UserInv'
<1> USE DEF UserInv, InLibrary, period, nr_iter
<1>1. CASE Alarm
  <2>1. PulseTypeOK'
    BY <1>1 DEF PulseTypeOK, Alarm, signalhandler, WholePeriods
  <2>2. CountInv'
    BY <1>1 DEF CountInv, NoWorkers, Alarm, signalhandler
  <2>3. Threads # {} => OnTimeInv'
    <3> SUFFICES ASSUME Threads # {} PROVE OnTimeInv'
      OBVIOUS
    <3>1. PICK late \in 0 .. LATE : now' = now + usec + late
      BY <1>1 DEF Alarm
    <3>2. usec > 0 /\ usec \in Nat /\ now \in Nat /\ began \in Int /\ late \in Nat /\ began <= now
      BY <1>1, <3>1 DEF OnTimeInv, PulseTypeOK, Alarm, signalhandler, WholePeriods
    <3>3. began < now' /\ began' = began /\ timer' = "off" /\ UNCHANGED <<api, phase>>
      BY <1>1, <3>1, <3>2 DEF Alarm, signalhandler
    <3>4. now' \in Nat
      BY <3>1, <3>2
    <3>5. phase # "burst"
      BY <1>1 DEF OnTimeInv, Alarm, signalhandler, SpinInv, AlarmInv
    <3> QED BY <3>2, <3>3, <3>4, <3>5 DEF OnTimeInv
  <2> QED BY <2>1, <2>2, <2>3
<1>2. CASE InLibrary(InCall) /\ UNCHANGED now
  <2>1. PulseTypeOK'
    BY <1>2 DEF PulseTypeOK, InCall, InitCreate, InitReturn, RunSetitimer, RunSetitimerFails,
       RunStart, PostStart, RunWaitDone, RunReturn, ExitStop, ExitJoin, ExitFree
  <2>2. CountInv'
    <3> USE DEF CountInv, NoWorkers, SpinInv, CallInv, history
    <3>1. CASE InitCreate \/ InitReturn
      BY <1>2, <3>1 DEF InitCreate, InitReturn
    <3>2. CASE RunSetitimer
      <4>1. \A t \in Threads : wpc[t] # "none"
        BY <3>2 DEF RunSetitimer, WorkerInv, AtRest
      <4> QED BY <1>2, <3>2, <4>1 DEF RunSetitimer, SpinTypeOK
    <3>3. CASE RunSetitimerFails
      BY <1>2, <3>3 DEF RunSetitimerFails
    <3>4. CASE RunStart \/ ExitStop
      BY <1>2, <3>4 DEF RunStart, ExitStop, PostStart
    <3>5. CASE RunWaitDone \/ RunReturn
      BY <1>2, <3>5 DEF RunWaitDone, RunReturn
    <3>6. CASE ExitJoin \/ ExitFree
      BY <1>2, <3>6 DEF ExitJoin, ExitFree
    <3> QED BY <1>2, <3>1, <3>2, <3>3, <3>4, <3>5, <3>6 DEF InCall
  <2>3. Threads # {} => OnTimeInv'
    <3> SUFFICES ASSUME Threads # {} PROVE OnTimeInv'
      OBVIOUS
    <3> USE DEF OnTimeInv, Past
    <3>1. CASE InitCreate \/ InitReturn
      BY <1>2, <3>1 DEF InitCreate, InitReturn
    <3>2. CASE RunSetitimer \/ RunSetitimerFails
      <4>1. usec \in Nat /\ run = 1
        BY <3>2 DEF PulseTypeOK, SpinInv, AlarmInv, RunSetitimer, RunSetitimerFails
      <4> QED BY <1>2, <3>2, <4>1 DEF RunSetitimer, RunSetitimerFails
    <3>3. CASE RunStart \/ RunWaitDone
      BY <1>2, <3>3 DEF RunStart, PostStart, RunWaitDone
    <3>4. CASE RunReturn
      <4>1. 0 \in Threads /\ 0 < nr_thread
        BY SpinAssumption DEF Threads
      <4>2. run = 0
        BY <3>4, <4>1 DEF RunReturn, SpinInv, WorkerInv
      <4> QED BY <1>2, <3>4, <4>2 DEF RunReturn
    <3>5. CASE ExitStop \/ ExitJoin \/ ExitFree
      BY <1>2, <3>5 DEF ExitStop, PostStart, ExitJoin, ExitFree
    <3> QED BY <1>2, <3>1, <3>2, <3>3, <3>4, <3>5 DEF InCall
  <2> QED BY <2>1, <2>2, <2>3
<1>3. CASE \E t \in Threads : InLibrary(worker(t)) /\ UNCHANGED now
  <2> PICK w \in Threads : InLibrary(worker(w)) /\ UNCHANGED now
    BY <1>3
  <2>1. /\ UNCHANGED <<run, cont, heap, timer, api, usec, todo, rounds, fired>>
        /\ \A t \in Threads : wpc'[t] = "none" <=> wpc[t] = "none"
    BY DEF SpinInv, SpinTypeOK, worker, WorkerStep, WorkerInit, WorkerWait, WorkerCheck,
       WorkerSpin, WorkerPost
  <2>2. PulseTypeOK' /\ CountInv' /\ (Threads # {} => OnTimeInv')
    BY <2>1 DEF PulseTypeOK, CountInv, NoWorkers, OnTimeInv, Past
  <2> QED BY <2>2
<1> QED BY <1>1, <1>2, <1>3

LEMMA MainKeepsPulse ==
  ASSUME WholePeriods, SpinInv, UserInv, user = "pulse", UNCHANGED user, Main
  PROVE  UserInv'
<1> USE DEF UserInv, PulseTypeOK
<1>1. nr_iter \in Nat
  BY SecondIsPeriods
<1>2. CASE ParseOpts
  <2>1. PulseTypeOK' /\ (Threads # {} => OnTimeInv') /\ UNCHANGED <<rounds, i, exp>>
    BY <1>2 DEF ParseOpts, OnTimeInv, Past, period, spin_init, InitAlloc, InitAllocFails, Ignored,
       vars, history
  <2>2. CountInv'
    BY <1>1, <1>2, <2>1 DEF ParseOpts, CountInv, NoWorkers, nr_iter, spin_init, InitAlloc, InitAllocFails,
       Ignored, vars, history
  <2> QED BY <2>1, <2>2
<1>3. CASE Sleep
  <2>1. PICK late \in 0 .. LATE : now' = IF sync < USEC_PER_SEC THEN now + sync + late ELSE now
    BY <1>3 DEF Sleep
  <2>2. now' \in Nat /\ now' % period <= LATE /\ now <= now' - (now' % period) /\ now <= now'
    <3>1. CASE sync < USEC_PER_SEC
      <4>1. /\ now' \in Nat /\ now' % period <= LATE /\ now < now' - (now' % period)
            /\ period \in Nat \ {0}
        BY <2>1, <3>1, SleepLands, SecondIsPeriods
      <4>2. now' % period \in 0 .. period - 1
        BY <4>1, DivMod
      <4> QED BY <4>1, <4>2
    <3>2. CASE ~(sync < USEC_PER_SEC)
      BY <2>1, <3>2, SleepLands
    <3> QED BY <3>1, <3>2
  <2>3. PulseTypeOK' /\ CountInv'
    BY <1>3, <2>2 DEF Sleep, vars, CountInv, NoWorkers, nr_iter
  <2>4. Threads # {} => OnTimeInv'
    <3> SUFFICES ASSUME Threads # {} PROVE OnTimeInv'
      OBVIOUS
    <3>1. /\ began < now /\ api = "idle" /\ phase' = "burst" /\ (timer = "armed" => usec > 0)
          /\ UNCHANGED <<began, api, timer, usec, exp>>
      BY <1>3 DEF Sleep, vars, OnTimeInv, Past
    <3>2. period' = period /\ period \in Nat \ {0}
      BY <3>1, SecondIsPeriods DEF period
    <3>3. now' % period \in 0 .. period - 1
      BY <2>2, <3>2, DivMod
    <3>4. began < now' - (now' % period) /\ began <= now'
      BY <2>2, <3>1, <3>2, <3>3
    <3> QED BY <2>2, <3>1, <3>2, <3>4 DEF OnTimeInv
  <2> QED BY <2>3, <2>4
<1>4. CASE Burst
  <2>1. PulseTypeOK'
    BY <1>4 DEF Burst, spin_run, RunBegin, Ignored, vars, WholePeriods
  <2>3. Threads # {} => OnTimeInv'
    <3> SUFFICES ASSUME Threads # {} PROVE OnTimeInv'
      OBVIOUS
    <3>1. timer = "off" /\ timer' = timer /\ now' = now /\ phase' = "loop" /\ cont \in {0, 1}
      BY <1>4 DEF Burst, spin_run, RunBegin, Ignored, vars, SpinInv, SpinTypeOK, AlarmInv
    <3>2. CASE cont = 1
      BY <1>4, <3>1, <3>2 DEF Burst, spin_run, RunBegin, Ignored, OnTimeInv, Past
    <3>3. CASE cont = 0
      <4>1. began < now
        <5>1. period \in Nat \ {0}
          BY SecondIsPeriods
        <5>2. now % period \in 0 .. period - 1
          BY <5>1, DivMod
        <5> QED BY <1>4, <5>1, <5>2 DEF Burst, OnTimeInv
      <4> QED BY <1>4, <3>1, <3>3, <4>1 DEF Burst, OnTimeInv, Past
    <3> QED BY <3>1, <3>2, <3>3
  <2>2. CountInv'
    BY <1>1, <1>4 DEF Burst, spin_run, RunBegin, Ignored, vars, history, CountInv, NoWorkers, nr_iter,
       SpinInv, SpinTypeOK
  <2> QED BY <2>1, <2>2, <2>3
<1>5. CASE Exit
  <2>1. PulseTypeOK' /\ (Threads # {} => OnTimeInv')
    BY <1>5 DEF Exit, spin_exit, ExitBegin, Ignored, vars, OnTimeInv, Past, period
  <2>2. CountInv'
    <3>1. cont = 1 => \A t \in Threads : wpc[t] # "none"
      BY <1>5 DEF Exit, SpinInv, WorkerInv, AtRest
    <3>2. wpc' = wpc
      BY <1>5 DEF Exit, spin_exit, ExitBegin, Ignored, vars
    <3> QED BY <1>1, <1>5, <3>1, <3>2 DEF Exit, spin_exit, ExitBegin, Ignored, vars, history, CountInv,
              NoWorkers, nr_iter, SpinInv, SpinTypeOK
  <2> QED BY <2>1, <2>2
<1>6. CASE Return
  BY <1>6 DEF Return, vars, OnTimeInv, Past, CountInv, NoWorkers, period, nr_iter
<1> QED BY <1>2, <1>3, <1>4, <1>5, <1>6 DEF Main

LEMMA UsersKeepPulse ==
  ASSUME WholePeriods
  PROVE  UsersSpec => []UserInv
<1>1. UsersInit => UserInv
  <2>1. PulseInit => PulseTypeOK
    BY DEF PulseInit, Init, PulseTypeOK, WholePeriods
  <2>2. PulseInit => OnTimeInv /\ CountInv
    BY DEF PulseInit, Init, OnTimeInv, CountInv, NoWorkers, WholePeriods
  <2> QED BY <2>1, <2>2 DEF UsersInit, UserInv
<1>2. SpinInv /\ UserInv /\ [UsersNext]_allVars => UserInv'
  <2> SUFFICES ASSUME SpinInv, UserInv, [UsersNext]_allVars PROVE UserInv'
    OBVIOUS
  <2>1. CASE Any(ClientNext)
    BY <2>1 DEF Any, pulseOnly, UserInv
  <2>2. CASE Timed(PulseNext)
    <3>1. user = "pulse" /\ UNCHANGED user
      BY <2>2 DEF Timed
    <3>2. CASE Main
      BY <3>1, <3>2, MainKeepsPulse
    <3>3. CASE UNCHANGED pulseVars
      BY <3>1, <3>3 DEF pulseVars, vars, UserInv, PulseTypeOK, CountInv, NoWorkers, OnTimeInv,
         Past, period,
         nr_iter
    <3> QED BY <2>2, <3>1, <3>2, <3>3, LibraryKeepsPulse DEF Timed, PulseNext
  <2>3. CASE UNCHANGED allVars
    BY <2>3 DEF allVars, vars, pulseOnly, UserInv, PulseTypeOK, CountInv, NoWorkers, OnTimeInv,
         Past, period,
       nr_iter
  <2> QED BY <2>1, <2>2, <2>3 DEF UsersNext
<1> QED BY <1>1, <1>2, UsersKeep, PTL DEF UsersSpec

(* The bursts of wk-pulse begin at the multiples of the period, each in a  *)
(* period of its own and late by the delay of one wake-up at most, however *)
(* many bursts came before and however long they were.  One worker at      *)
(* least is needed: with none, the alarm of a burst would come in the next *)
(* sleep.                                                                  *)
THEOREM PulseOnTime ==
  ASSUME WholePeriods, nr_thread > 0
  PROVE  UsersSpec => BurstsOnTime
<1>1. UserInv /\ [UsersNext]_allVars => [now % period <= LATE /\ began < now - (now % period)]_i
  <2> SUFFICES ASSUME UserInv, [UsersNext]_allVars, i' # i
               PROVE  now % period <= LATE /\ began < now - (now % period)
    OBVIOUS
  <2>1. phase = "burst" /\ user = "pulse"
    BY DEF UsersNext, Any, Timed, PulseNext, Main, ParseOpts, Sleep, Burst, Exit, Return, Alarm,
       InLibrary, allVars, pulseOnly, pulseVars
  <2> QED BY <2>1, SpinAssumption DEF UserInv, OnTimeInv, Threads
<1> QED BY <1>1, UsersKeepPulse, PTL DEF UsersSpec, BurstsOnTime

(* When main of wk-pulse returns, every worker has been joined after freq  *)
(* bursts for each whole second of the duration, or there never was one.   *)
THEOREM PulseCovers ==
  ASSUME WholePeriods
  PROVE  UsersSpec => []BurstsCoverDuration
<1>1. SpinInv /\ UserInv => BurstsCoverDuration
  <2> DEFINE whole == exp.duration - (exp.duration % USEC_PER_SEC)
  <2> SUFFICES ASSUME SpinInv, UserInv, phase = "end", ~(rounds = 0 /\ NoWorkers), NEW t \in Threads
               PROVE  wpc[t] = "returned" /\ spun[t] * USEC_PER_SEC = whole * exp.freq
    BY DEF BurstsCoverDuration, NoWorkers
  <2>1. exp \in Experiments /\ api = "idle" /\ cont = 0 /\ rounds = nr_iter /\ wpc[t] # "none"
    BY DEF UserInv, PulseTypeOK, CountInv
  <2>2. wpc[t] = "returned" /\ spun[t] = nr_iter
    BY <2>1 DEF SpinInv, WorkerInv
  <2>3. nr_iter * USEC_PER_SEC = whole * exp.freq
    <3> DEFINE U == USEC_PER_SEC  f == exp.freq  d == exp.duration  q == d \div U
    <3>1. U \in Nat \ {0} /\ f \in Nat /\ d \in Nat
      BY <2>1, SpinAssumption DEF WholePeriods
    <3>2. nr_iter = q * f /\ whole = d - (d % U)
      BY DEF nr_iter
    <3> HIDE DEF U, f, d, whole
    <3>3. q \in Nat /\ d % U \in Nat /\ d = U * q + (d % U)
      BY <3>1, DivMod
    <3> HIDE DEF q
    <3>4. U * q \in Nat
      BY <3>1, <3>3
    <3>5. whole = U * q
      BY <3>1, <3>2, <3>3, <3>4
    <3>6. (q * f) * U = (U * q) * f
      BY <3>1, <3>3
    <3> QED BY <3>2, <3>5, <3>6 DEF U, f
  <2> QED BY <2>2, <2>3
<1> QED BY <1>1, UsersKeep, UsersKeepPulse, PTL

=============================================================================
