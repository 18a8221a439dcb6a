------------------------------ MODULE Syscalls ------------------------------
(***************************************************************************)
(* The calls that the small workloads of workload-kit are made of.  A      *)
(* program is a tuple of scripts, one per task (process or thread); task 1 *)
(* is the one that runs main.  A script is a sequence of calls, and what   *)
(* happens between two calls is private to the task.  Kernel and libraries *)
(* are external to the repository: they are modelled from how its programs *)
(* use them.                                                               *)
(***************************************************************************)
EXTENDS Integers, Sequences, SequencesExt

VARIABLES
  script,    \* the program: the scripts of its tasks
  st,        \* task -> "none", "run", "dead" (a zombie) or "reaped"
  pos,       \* task -> the position of its next call
  owner,     \* lock -> the task that holds it, or 0
  arrived,   \* the tasks that wait at the barrier
  freed,     \* the memory shared by the threads has been freed
  file,      \* file -> the parts it holds
  sock,      \* [state, sent, got]: the TCP connection of the program
  early      \* a waitpid returned without having waited

vars == <<script, st, pos, owner, arrived, freed, file, sock, early>>

Tasks == DOMAIN script
Locks == {"a", "b"}
Files == 0 .. Len(script)   \* no program has more files than tasks

Call(name, arg) == [do |-> name, of |-> arg]

At(t, name) ==
  st[t] = "run" /\ pos[t] <= Len(script[t]) /\ script[t][pos[t]].do = name

Arg(t) == script[t][pos[t]].of

Step(t) == pos' = [pos EXCEPT ![t] = @ + 1]

(* Init, for a program of the set given. *)
Start(programs, initially) ==
  /\ script \in programs
  /\ st = [t \in Tasks |-> IF t \in initially THEN "run" ELSE "none"]
  /\ pos = [t \in Tasks |-> 1]
  /\ owner = [m \in Locks |-> 0]
  /\ arrived = {}
  /\ freed = FALSE
  /\ file = [f \in Files |-> {}]
  /\ sock = [state |-> "none", sent |-> 0, got |-> 0]
  /\ early = FALSE

(* Sleeping or counting: it takes as long as it takes. *)
Delay(t) ==
  /\ At(t, "sleep") \/ At(t, "hog")
  /\ Step(t)
  /\ UNCHANGED <<script, st, owner, arrived, freed, file, sock, early>>

-----------------------------------------------------------------------------
(* Processes.  fork returns -1 when there is no room for another process.  *)
(* The programs then return from the function ("fork") or go on with the   *)
(* -1 in the place of the pid ("spawn").                                   *)

Forks(t) == At(t, "fork") \/ At(t, "spawn")

Fork(t) ==
  /\ Forks(t)
  /\ Arg(t) \in Tasks
  /\ st' = [st EXCEPT ![Arg(t)] = "run"]
  /\ Step(t)
  /\ UNCHANGED <<script, owner, arrived, freed, file, sock, early>>

ForkFails(t) ==
  /\ Forks(t)
  /\ IF At(t, "fork") THEN pos' = [pos EXCEPT ![t] = Len(script[t]) + 1] ELSE Step(t)
  /\ UNCHANGED <<script, st, owner, arrived, freed, file, sock, early>>

Children(t) ==
  {c \in Tasks : \E k \in 1 .. pos[t] - 1 :
                    script[t][k].do \in {"fork", "spawn"} /\ script[t][k].of = c}

(* waitpid(c, ...) waits for child c, or for any child if the fork of c    *)
(* failed, and returns at once when there is no child it could wait for.   *)
Wait(t) ==
  /\ At(t, "wait") \/ At(t, "wait1")
  /\ Arg(t) \in Tasks
  /\ LET c == Arg(t)
         awaited == {d \in IF st[c] = "none" THEN Children(t) ELSE {c} : st[d] \in {"run", "dead"}}
     IN  \/ awaited = {} /\ UNCHANGED st
         \/ \E d \in awaited : st[d] = "dead" /\ st' = [st EXCEPT ![d] = "reaped"]
  /\ Step(t)
  /\ UNCHANGED <<script, owner, arrived, freed, file, sock, early>>

(* waitpid called with one argument and no prototype: what the kernel      *)
(* takes for the options may be WNOHANG or invalid, and it does not wait.  *)
WaitReturns(t) ==
  /\ At(t, "wait1")
  /\ early' = TRUE
  /\ Step(t)
  /\ UNCHANGED <<script, st, owner, arrived, freed, file, sock>>

-----------------------------------------------------------------------------
(* Threads.  All threads of a program belong to the process of task 1. *)

Threads ==
  {c \in Tasks : \E t \in Tasks : \E k \in DOMAIN script[t] :
                   script[t][k].do = "create" /\ script[t][k].of = c}

pthread_create(t) ==
  /\ At(t, "create")
  /\ st' = [st EXCEPT ![Arg(t)] = "run"]
  /\ Step(t)
  /\ UNCHANGED <<script, owner, arrived, freed, file, sock, early>>

(* The join of a thread that was not created returns an error. *)
pthread_join(t) ==
  /\ At(t, "join")
  /\ st[Arg(t)] # "run"
  /\ st' = [st EXCEPT ![Arg(t)] = IF @ = "dead" THEN "reaped" ELSE @]
  /\ Step(t)
  /\ UNCHANGED <<script, owner, arrived, freed, file, sock, early>>

(* SIGKILL sent to a thread ends the process; sent to a thread that has    *)
(* returned it does nothing.                                               *)
pthread_kill(t) ==
  /\ At(t, "kill")
  /\ IF st[Arg(t)] = "run"
     THEN /\ st' = [c \in Tasks |-> IF c \in Threads \cup {1} /\ st[c] = "run"
                                     THEN "dead" ELSE st[c]]
          /\ UNCHANGED pos
     ELSE Step(t) /\ UNCHANGED st
  /\ UNCHANGED <<script, owner, arrived, freed, file, sock, early>>

(* The end of a script; the end of main takes the threads with it. *)
Exit(t) ==
  /\ st[t] = "run" /\ pos[t] > Len(script[t])
  /\ st' = [c \in Tasks |-> IF c = t \/ (t = 1 /\ c \in Threads /\ st[c] = "run")
                            THEN "dead" ELSE st[c]]
  /\ UNCHANGED <<script, pos, owner, arrived, freed, file, sock, early>>

Lock(t) ==
  /\ At(t, "lock") \/ At(t, "flock")
  /\ owner[Arg(t)] = 0
  /\ owner' = [owner EXCEPT ![Arg(t)] = t]
  /\ Step(t)
  /\ UNCHANGED <<script, st, arrived, freed, file, sock, early>>

(* fcntl(F_SETLKW) may be interrupted or out of locks. *)
LockFails(t) ==
  /\ At(t, "flock")
  /\ Step(t)
  /\ UNCHANGED <<script, st, owner, arrived, freed, file, sock, early>>

Unlock(t) ==
  /\ At(t, "unlock")
  /\ owner' = [owner EXCEPT ![Arg(t)] = IF @ = t THEN 0 ELSE @]
  /\ Step(t)
  /\ UNCHANGED <<script, st, arrived, freed, file, sock, early>>

(* The last of the Arg(t) tasks to arrive releases them all. *)
Barrier(t) ==
  /\ At(t, "barrier") /\ t \notin arrived
  /\ LET here == arrived \cup {t}
     IN  IF Cardinality(here) < Arg(t)
         THEN arrived' = here /\ UNCHANGED pos
         ELSE arrived' = {} /\ pos' = [c \in Tasks |-> IF c \in here THEN pos[c] + 1 ELSE pos[c]]
  /\ UNCHANGED <<script, st, owner, freed, file, sock, early>>

(* A tracepoint that records memory shared with main, and its release. *)
Emit(t) ==
  /\ At(t, "emit")
  /\ Step(t)
  /\ UNCHANGED <<script, st, owner, arrived, freed, file, sock, early>>

Free(t) ==
  /\ At(t, "free")
  /\ freed' = TRUE
  /\ Step(t)
  /\ UNCHANGED <<script, st, owner, arrived, file, sock, early>>

-----------------------------------------------------------------------------
(* Files: fopen(..., "w") truncates, and each writer has its own offset. *)

Fopen(t) ==
  /\ At(t, "fopen")
  /\ file' = [file EXCEPT ![Arg(t)] = {}]
  /\ Step(t)
  /\ UNCHANGED <<script, st, owner, arrived, freed, sock, early>>

Fprintf(t) ==
  /\ At(t, "fprintf")
  /\ file' = [file EXCEPT ![Arg(t)[1]] = @ \cup {Arg(t)[2]}]
  /\ Step(t)
  /\ UNCHANGED <<script, st, owner, arrived, freed, sock, early>>

-----------------------------------------------------------------------------
(* One TCP connection from a client to a server.  Loopback delivers what   *)
(* was sent at once and in order.                                          *)

Listen(t) ==
  /\ At(t, "listen")
  /\ sock' = [sock EXCEPT !.state = "listen"]
  /\ Step(t)
  /\ UNCHANGED <<script, st, owner, arrived, freed, file, early>>

(* A port that is taken ends the server. *)
ListenFails(t) ==
  /\ At(t, "listen")
  /\ pos' = [pos EXCEPT ![t] = Len(script[t]) + 1]
  /\ UNCHANGED <<script, st, owner, arrived, freed, file, sock, early>>

(* A connection that is refused ends the client. *)
Connect(t) ==
  /\ At(t, "connect")
  /\ IF sock.state = "listen"
     THEN sock' = [sock EXCEPT !.state = "open"] /\ Step(t)
     ELSE sock' = sock /\ pos' = [pos EXCEPT ![t] = Len(script[t]) + 1]
  /\ UNCHANGED <<script, st, owner, arrived, freed, file, early>>

Accept(t) ==
  /\ At(t, "accept")
  /\ sock.state = "open"
  /\ Step(t)
  /\ UNCHANGED <<script, st, owner, arrived, freed, file, sock, early>>

Send(t) ==
  /\ At(t, "send")
  /\ sock' = [sock EXCEPT !.sent = @ + Arg(t)]
  /\ Step(t)
  /\ UNCHANGED <<script, st, owner, arrived, freed, file, early>>

Receivers == {t \in Tasks : \E k \in DOMAIN script[t] : script[t][k].do = "recv"}

(* SIGPIPE, once the receiver has gone. *)
SendKills(t) ==
  /\ At(t, "send")
  /\ \A r \in Receivers : st[r] \in {"dead", "reaped"}
  /\ st' = [st EXCEPT ![t] = "dead"]
  /\ UNCHANGED <<script, pos, owner, arrived, freed, file, sock, early>>

(* recv returns what has arrived, up to the size asked for, and nothing at *)
(* the end of the stream.                                                  *)
EndOfStream ==
  /\ sock.sent = sock.got
  /\ \A s \in Tasks \ Receivers : s = 1 \/ st[s] \in {"dead", "reaped"}

Recv(t) ==
  /\ At(t, "recv")
  /\ sock.sent > sock.got \/ EndOfStream
  /\ LET avail == sock.sent - sock.got
     IN  sock' = [sock EXCEPT !.got = @ + IF avail < Arg(t) THEN avail ELSE Arg(t)]
  /\ Step(t)
  /\ UNCHANGED <<script, st, owner, arrived, freed, file, early>>

-----------------------------------------------------------------------------
Run(t) ==
  \/ Delay(t) \/ Fork(t) \/ ForkFails(t) \/ Wait(t) \/ WaitReturns(t)
  \/ pthread_create(t) \/ pthread_join(t) \/ pthread_kill(t) \/ Exit(t)
  \/ Lock(t) \/ LockFails(t) \/ Unlock(t) \/ Barrier(t) \/ Emit(t) \/ Free(t)
  \/ Fopen(t) \/ Fprintf(t)
  \/ Listen(t) \/ ListenFails(t) \/ Connect(t) \/ Accept(t) \/ Send(t) \/ SendKills(t) \/ Recv(t)

Stopped == \A t \in Tasks : st[t] # "run"

=============================================================================
