----------------------------- MODULE Workloads ------------------------------
(***************************************************************************)
(* The workloads that are a handful of processes or threads running fixed  *)
(* lists of calls: who waits for whom, and what is still there when it is  *)
(* used.  The loops of the code are unrolled, counting and sleeping are    *)
(* delays of any length, and printing is left out.  A program of several   *)
(* variants is a set: one program for each way its options, or a failure   *)
(* it checks, decide what it does.                                         *)
(***************************************************************************)
EXTENDS Syscalls

CONSTANTS
  THREADS,        \* imbalance.c, bossthread.c, heartbeat.c, burnust.c
  CYCLES,         \* imbalance.c
  NUM_PROCESSES,  \* proclife.c
  NUM_SAMPLES,    \* proclife.c: the parts of a file
  REP             \* heartbeat.c, burnust.c: the largest number of repetitions

ASSUME WorkloadsAssumption ==
  {THREADS, CYCLES, NUM_PROCESSES, NUM_SAMPLES, REP} \subseteq Nat \ {0}

VARIABLE prog   \* the name of the program

hog(units) == Call("hog", units)
sleep == Call("sleep", 0)

(* One call for each element of a sequence of tasks. *)
Each(name, tasks) == [k \in DOMAIN tasks |-> Call(name, tasks[k])]
Times(n, calls) == [j \in 1 .. n * Len(calls) |-> calls[((j - 1) % Len(calls)) + 1]]

-----------------------------------------------------------------------------
(* Process trees *)

(* The unit is measured before the first fork. *)
cpm1 ==
  {<< <<Call("fork", 2), hog(4), Call("wait1", 2), hog(1)>>,
      <<hog(1), Call("fork", 3), Call("wait1", 3), hog(2)>>,
      <<hog(2)>> >>}

cpm2 ==
  {<< <<Call("fork", 2), hog(2), Call("wait1", 2)>>,
      <<hog(1)>> >>}

(* spawn_child decrements the number of children before it tests it, so    *)
(* the process that sees 1 is the last.  From 0 on the recursion goes on   *)
(* until fork fails: the fourth task stands for the first that finds no    *)
(* room for a child.  Without arguments, or when its sleep fails, main     *)
(* forks nobody.                                                           *)
spawn_child(t, children) ==
  IF children = 1 THEN <<>> ELSE <<Call("fork", t + 1), Call("wait", t + 1)>>

do_run(t, children) == <<sleep>> \o spawn_child(t, children - (t - 1))

inception ==
  {[t \in 1 .. children |-> do_run(t, children)] : children \in 1 .. 4} \cup
  {[t \in 1 .. 4 |-> do_run(t, 0)]} \cup {<< <<>> >>, << <<sleep>> >>}

reparent == {<< <<Call("fork", 2)>>, <<sleep>> >>}

(* Process i of proclife is task i + 2; main does what process 0 does, in  *)
(* the same file, and waits for the processes in the order it made them.   *)
write_to_file(i) ==
  <<Call("fopen", i)>> \o [k \in 1 .. NUM_SAMPLES |-> Call("fprintf", <<i, k>>)]

Processes == Reverse([k \in 1 .. NUM_PROCESSES |-> k + 1])
(* Mutant: the last process is not waited for. *)
proclife_leaves_one ==
  {<<Each("spawn", Processes) \o write_to_file(0) \o Each("wait", Front(Processes))>>
     \o [i \in 1 .. NUM_PROCESSES |-> <<sleep>> \o write_to_file(i - 1)]}

proclife ==
  {<<Each("spawn", Processes) \o write_to_file(0) \o Each("wait", Processes)>>
     \o [i \in 1 .. NUM_PROCESSES |-> <<sleep>> \o write_to_file(i - 1)]}

-----------------------------------------------------------------------------
(* cpm3.c: a server and a client process.  A unit is half a buffer.        *)

do_server_run == Each("send", <<2, 1, 1, 2>>) \o <<sleep>>

(* Mutant: the client asks for one more answer than there are. *)
do_client_run_longer == Each("recv", <<2, 2, 1, 1, 1>>) \o <<sleep>>

do_client_run == Each("recv", <<2, 2, 1, 1>>) \o <<sleep>>

make_server_socket == <<Call("listen", 0), Call("accept", 0)>>
make_client_socket == <<Call("connect", 0)>>

server == make_server_socket \o Times(3, do_server_run)
client == make_client_socket \o Times(3, do_client_run)
master == <<Call("spawn", 2), sleep, Call("spawn", 3), Call("wait1", 3), Call("wait1", 2)>>

cpm3 == {<<master, server, client>>}

-----------------------------------------------------------------------------
(* Threads *)

(* main creates and then joins threads 2, 3, ..., which run the scripts    *)
(* given.                                                                  *)
Pool(workers, last) ==
  LET threads == [k \in DOMAIN workers |-> k + 1]
  IN  <<Each("create", threads) \o Each("join", threads) \o last>> \o workers

dthread ==
  {<< <<Call("create", 2), Call("join", 2), Call("join", 3)>>,
      <<sleep, Call("create", 3), sleep>>,
      <<sleep>> >>}

(* Mutant: the mutex is not released. *)
mutex_kept ==
  LET worker == <<Call("lock", "a"), sleep>>
  IN  {<< <<Call("create", 2), sleep, Call("create", 3), Call("join", 2), Call("join", 3)>>,
          worker, worker >>}

mutex ==
  LET worker == <<Call("lock", "a"), sleep, Call("unlock", "a")>>
  IN  {<< <<Call("create", 2), sleep, Call("create", 3), Call("join", 2), Call("join", 3)>>,
          worker, worker >>}

deadlock ==
  LET worker(m, n) == <<Call("lock", m), sleep, Call("lock", n)>>
  IN  {<< <<Call("create", 2), Call("create", 3), sleep, Call("kill", 2), Call("kill", 3)>>,
          worker("a", "b"), worker("b", "a") >>}

(* Two runs of lockfight on one file, or runs with missing options or a    *)
(* file that cannot be opened.                                             *)
lockfight ==
  LET ok == <<Call("flock", "a"), sleep, Call("unlock", "a"), sleep>>
  IN  {<<a, b>> : a, b \in {<<>>, ok}}

(* Mutant: no barrier between the cycles. *)
Cycle_unsynchronised(t, c) == <<hog(((t + c) % THREADS) + 1), sleep>>

(* In cycle c thread t counts to pos + 1 times max. *)
Cycle(t, c) == <<hog(((t + c) % THREADS) + 1), Call("barrier", THREADS)>>

Cycles(t) == [j \in 1 .. 2 * CYCLES |-> Cycle(t, (j - 1) \div 2)[((j - 1) % 2) + 1]]

imbalance == {Pool([k \in 1 .. THREADS |-> Cycles(k - 1)], <<>>)}

bossthread ==
  {Pool([k \in 1 .. THREADS |-> <<Call("emit", 0), hog(k), Call("emit", 0)>>], <<>>)}

(* The options may be refused, and then main goes straight to the end. *)
heartbeat_thread(rep) == <<sleep>> \o Times(rep, <<Call("emit", 0), sleep>>)

heartbeat ==
  {<< <<Call("free", 0)>> >>} \cup
  {Pool([k \in 1 .. n |-> heartbeat_thread(rep)], <<Call("free", 0)>>) :
     n \in 1 .. THREADS - 1, rep \in 1 .. REP}

burnust_thread(rep) == <<sleep>> \o Times(rep, Times(rep, <<Call("emit", 0), sleep>>))

burnust ==
  {<< <<>> >>} \cup {Pool([k \in 1 .. n |-> burnust_thread(rep)], <<>>) :
                       n \in 1 .. THREADS - 1, rep \in 1 .. REP}

-----------------------------------------------------------------------------
Programs ==
  [cpm1 |-> cpm1, cpm2 |-> cpm2, inception |-> inception, reparent |-> reparent,
   proclife |-> proclife, cpm3 |-> cpm3, dthread |-> dthread, mutex |-> mutex,
   deadlock |-> deadlock, lockfight |-> lockfight, imbalance |-> imbalance,
   bossthread |-> bossthread, heartbeat |-> heartbeat, burnust |-> burnust]

Init ==
  /\ prog \in DOMAIN Programs
  /\ Start(Programs[prog], IF prog = "lockfight" THEN {1, 2} ELSE {1})

(* A server of cpm3.c whose client was refused, or never started, waits    *)
(* for a connection for ever, and main may wait for it.                    *)
Unconnected ==
  prog = "cpm3" /\ At(2, "accept") /\ sock.state = "listen" /\ st[3] # "run"

Next ==
  \/ (\E t \in Tasks : Run(t)) /\ UNCHANGED prog
  \/ (Stopped \/ Unconnected) /\ UNCHANGED <<vars, prog>>

(* Every task that can go on does so; which lock waiter is served first is *)
(* left open, since none of the programs locks twice.                      *)
Spec == Init /\ [][Next]_<<vars, prog>>
FairSpec ==
  Spec /\ \A t \in 1 .. Max({4, THREADS + 1, NUM_PROCESSES + 1}) :
            WF_<<vars, prog>>(t \in Tasks /\ Run(t) /\ UNCHANGED prog)

-----------------------------------------------------------------------------
(* What the programs do without a check never goes wrong: the t2 that      *)
(* dthread.c joins has been created by then, the message of heartbeat.c    *)
(* outlives the threads that record it, no recv of cpm3.c meets the end of *)
(* the stream, however the bytes are grouped, and the files of proclife.c  *)
(* are complete when it executes ls, although main and process 0 write the *)
(* same one at the same time.                                              *)
UncheckedCallsHold ==
  \A t \in Tasks :
     /\ At(t, "join") => st[Arg(t)] # "none"
     /\ At(t, "emit") => ~freed
     /\ At(t, "recv") => ~EndOfStream
     /\ prog = "proclife" /\ t = 1 /\ pos[t] > Len(script[t]) =>
          \A i \in 0 .. NUM_PROCESSES - 1 :
             i = 0 \/ st[i + 2] # "none" => file[i] = 1 .. NUM_SAMPLES

(* Only reparent.c leaves a child behind: in the other programs a process  *)
(* outlives the children it forked, whichever forks fail, unless waitpid   *)
(* was called with arguments it did not get.                               *)
NoOrphans ==
  prog # "reparent" /\ ~early =>
    \A t \in Tasks : st[t] \in {"dead", "reaped"} => \A c \in Children(t) : st[c] # "run"

(* imbalance.c, whose comment says "each cycle, the slowest thread is       *)
(* changed in a round-robin fashion": threads that compute at the same     *)
(* time never do the same amount of work, and none repeats an amount of    *)
(* its last THREADS - 1 cycles (two calls each).  So each cycle has one    *)
(* slowest thread, and in THREADS cycles each of them has its turn.        *)
OneSlowest ==
  prog = "imbalance" =>
    \A t \in Tasks : At(t, "hog") =>
      /\ \A u \in Tasks \ {t} : At(u, "hog") => Arg(t) # Arg(u)
      /\ \A k \in 1 .. THREADS - 1 : 2 * k < pos[t] => Arg(t) # script[t][pos[t] - 2 * k].of

(* Every program ends, or is the Unconnected server of cpm3.c.              *)
ProgramsEnd == <>[](Stopped \/ Unconnected)

=============================================================================
