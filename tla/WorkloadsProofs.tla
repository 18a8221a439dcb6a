-------------------------- MODULE WorkloadsProofs ---------------------------
(***************************************************************************)
(* Proofs about Workloads, for every value of its constants, and about     *)
(* SchedFreq, for any number n > 0 of workers and any repeat.              *)
(*                                                                         *)
(* The programs of Workloads are data, so what they have in common is      *)
(* stated of their scripts (Orderly, Waited, Deaf) and shown once for each *)
(* program.  What the calls do is stated of a step of any task (Effects)   *)
(* and shown once for each call.  From these two alone follows the         *)
(* invariant CallsInv: who exists, who has ended, and why.  Three programs *)
(* need an invariant of their own: imbalance.c on its cycles (CycleInv),   *)
(* proclife.c on its files (FileInv) and cpm3.c on its stream (SockInv).   *)
(***************************************************************************)
EXTENDS Workloads, SchedFreq, FiniteSetTheorems, TLAPS

(* The calls of a task that make another, and those that wait for one. *)
Making  == {"fork", "spawn", "create"}
Forking == {"fork", "spawn"}
Waiting == {"wait", "wait1"}

(* A program is a tuple of scripts, and main runs the first. *)
Scripts(s) ==
  /\ Len(s) \in Nat /\ DOMAIN s = 1 .. Len(s) /\ 1 \in DOMAIN s
  /\ \A t \in DOMAIN s : Len(s[t]) \in Nat /\ DOMAIN s[t] = 1 .. Len(s[t])

(* A task is made once, and main never. *)
MadeOnce(s) ==
  /\ \A t \in DOMAIN s : \A j \in DOMAIN s[t] : s[t][j].do \in Making => s[t][j].of # 1
  /\ \A t, u \in DOMAIN s : \A j \in DOMAIN s[t], m \in DOMAIN s[u] :
       /\ s[t][j].do \in Making /\ s[u][m].do \in Making
       /\ s[t][j].of = s[u][m].of
       => t = u /\ j = m

(* A script that may be left in the middle makes and joins nobody else. *)
LeavesNobody(s) ==
  \A t \in DOMAIN s : \A j, m \in DOMAIN s[t] :
     s[t][j].do \in {"fork", "listen", "connect"} /\ s[t][m].do \in Making \cup {"join"} => j = m

(* A process that has children dies only at the end of its script: it is   *)
(* no thread, gets no SIGPIPE, and nobody is killed.                       *)
ParentsEnd(s) ==
  \A t \in DOMAIN s : \A j \in DOMAIN s[t] : s[t][j].do \in Forking =>
     /\ \A m \in DOMAIN s[t] : s[t][m].do # "send"
     /\ \A u \in DOMAIN s : \A m \in DOMAIN s[u] :
          s[u][m].do # "kill" /\ (s[u][m].do = "create" => s[u][m].of # t)

(* Each child is waited for. *)
Waited(s) ==
  \A t \in DOMAIN s : \A j \in DOMAIN s[t] : s[t][j].do \in Forking =>
     \E m \in DOMAIN s[t] : m > j /\ s[t][m].do \in Waiting /\ s[t][m].of = s[t][j].of

(* main alone joins threads: those that it has created, or that a thread   *)
(* has that it has joined.                                                 *)
JoinsCreated(s) ==
  \A t \in DOMAIN s : \A j \in DOMAIN s[t] : s[t][j].do = "join" =>
     /\ t = 1 /\ s[t][j].of \in DOMAIN s
     /\ \E u \in DOMAIN s : \E m \in DOMAIN s[u] :
          /\ s[u][m].do = "create" /\ s[u][m].of = s[t][j].of
          /\ \A x \in DOMAIN s[u] : s[u][x].do # "send"
          /\ \/ u = 1 /\ m < j
             \/ \E x \in 1 .. j - 1 : s[t][x].do = "join" /\ s[t][x].of = u

(* main alone frees, after it has joined the threads that use the memory. *)
FreesJoined(s) ==
  \A t \in DOMAIN s : \A j \in DOMAIN s[t] : s[t][j].do = "free" =>
     t = 1 /\ \A u \in DOMAIN s : \A m \in DOMAIN s[u] :
                 s[u][m].do = "emit" =>
                   \E x \in 1 .. j - 1 : s[1][x].do = "join" /\ s[1][x].of = u

(* Nobody receives anything. *)
Deaf(s) == \A t \in DOMAIN s : \A j \in DOMAIN s[t] : s[t][j].do # "recv"

(* What every program respects. *)
Orderly(s) ==
  /\ Scripts(s) /\ MadeOnce(s) /\ LeavesNobody(s) /\ ParentsEnd(s) /\ JoinsCreated(s) /\ FreesJoined(s)

-----------------------------------------------------------------------------
(* The states and positions of the tasks; one that has not been made has   *)
(* not moved.                                                              *)
TaskInv ==
  /\ st \in [Tasks -> {"none", "run", "dead", "reaped"}]
  /\ pos \in [Tasks -> Nat \ {0}]
  /\ \A t \in Tasks : pos[t] <= Len(script[t]) + 1 /\ (st[t] = "none" => pos[t] = 1)

(* Who waits at the barrier. *)
ArrivedInv ==
  \A t \in arrived :
     t \in Tasks /\ st[t] # "none" /\ pos[t] \in DOMAIN script[t] /\ script[t][pos[t]].do = "barrier"

(* A task that is yet to be made does not exist. *)
UnbornInv ==
  \A t \in Tasks : \A j \in DOMAIN script[t] :
     script[t][j].do \in Making /\ script[t][j].of \in Tasks /\ j >= pos[t] =>
       st[script[t][j].of] = "none"

(* A child that has not been waited for will be. *)
WaitedInv ==
  ~early /\ Waited(script) =>
  \A t \in Tasks : \A j \in DOMAIN script[t] :
     /\ script[t][j].do \in Forking /\ script[t][j].of \in Tasks /\ j < pos[t]
     /\ st[script[t][j].of] \in {"run", "dead"}
     => \E m \in DOMAIN script[t] :
          m >= pos[t] /\ script[t][m].do \in Waiting /\ script[t][m].of = script[t][j].of

(* Whether the program kills its threads, and whether a task can get       *)
(* SIGPIPE.                                                                *)
Kills == \E t \in Tasks : \E j \in DOMAIN script[t] : script[t][j].do = "kill"
Sends(t) == \E j \in DOMAIN script[t] : script[t][j].do = "send"

(* How a task ends. *)
EndedInv ==
  \A t \in Tasks : st[t] \in {"dead", "reaped"} =>
     \/ pos[t] > Len(script[t])
     \/ Sends(t)
     \/ st[1] # "run" /\ (t \in Threads \/ Kills)

(* A thread exists once its creator has gone on. *)
CreatedInv ==
  \A t \in Tasks : \A j \in DOMAIN script[t] :
     script[t][j].do = "create" /\ script[t][j].of \in Tasks /\ j < pos[t] =>
       st[script[t][j].of] # "none"

(* A thread that main has joined has ended. *)
JoinedInv ==
  \A t \in Tasks : \A j \in DOMAIN script[t] :
     script[t][j].do = "join" /\ j < pos[t] => st[script[t][j].of] \in {"dead", "reaped"}

(* Memory is freed by the free of main. *)
FreedInv ==
  freed => \E j \in DOMAIN script[1] : j < pos[1] /\ script[1][j].do = "free"

(* The invariant of all programs. *)
CallsInv ==
  /\ prog \in DOMAIN Programs /\ script \in Programs[prog]
  /\ TaskInv /\ ArrivedInv /\ UnbornInv /\ WaitedInv /\ EndedInv /\ CreatedInv /\ JoinedInv /\ FreedInv

-----------------------------------------------------------------------------
(* What a step of a task can do to the tasks. *)

(* The next call of a task. *)
Here(t) == script[t][pos[t]]

(* Tasks go on one call, or leave their script. *)
MovesOn ==
  \A t \in Tasks : pos'[t] # pos[t] =>
     /\ pos[t] \in DOMAIN script[t] /\ st[t] # "none"
     /\ \/ pos'[t] = pos[t] + 1
        \/ pos'[t] = Len(script[t]) + 1 /\ Here(t).do \in {"fork", "listen", "connect"}

(* A task is born when its maker goes on, dies at the end of its script or *)
(* of its process, and is reaped when it is dead.                          *)
Lives ==
  \A t \in Tasks : st'[t] # st[t] =>
     \/ /\ st'[t] = "run"
        /\ \E u \in Tasks : /\ pos[u] \in DOMAIN script[u] /\ pos'[u] = pos[u] + 1
                            /\ Here(u).do \in Making /\ Here(u).of = t
     \/ /\ st[t] = "run" /\ st'[t] = "dead"
        /\ \/ pos[t] > Len(script[t])
           \/ Sends(t)
           \/ st'[1] # "run" /\ (t \in Threads \/ Kills)
     \/ st[t] = "dead" /\ st'[t] = "reaped"

(* What a task knows that has gone on. *)
Knows ==
  \A t \in Tasks : pos'[t] # pos[t] /\ Here(t).of \in Tasks =>
     /\ Here(t).do \in Waiting => early' \/ st'[Here(t).of] \notin {"run", "dead"}
     /\ Here(t).do = "create" => st'[Here(t).of] # "none"
     /\ Here(t).do = "join" => st[t] = "run" /\ st[Here(t).of] # "run"

(* A step of any task, as far as the tasks and the freed memory go. *)
Effects ==
  /\ script' = script /\ prog' = prog
  /\ st' \in [Tasks -> {"none", "run", "dead", "reaped"}]
  /\ pos' \in [Tasks -> Nat \ {0}]
  /\ MovesOn /\ Lives /\ Knows
  /\ early => early'
  /\ freed' => freed \/ \E t \in Tasks : pos'[t] > pos[t] /\ Here(t).do = "free" /\ pos[t] \in DOMAIN script[t]

-----------------------------------------------------------------------------
(* Nobody goes back, and nobody lives twice. *)
LEMMA Forward ==
  ASSUME Scripts(script), TaskInv, UnbornInv, Effects
  PROVE  /\ \A t \in Tasks : pos[t] \in Nat /\ pos'[t] \in Nat /\ pos'[t] >= pos[t]
         /\ \A t \in Tasks : st[t] # "none" => st'[t] # "none"
         /\ \A t \in Tasks : st[t] \in {"dead", "reaped"} => st'[t] \in {"dead", "reaped"}
<1> USE DEF Tasks
<1>1. ASSUME NEW t \in Tasks PROVE pos[t] \in Nat /\ pos'[t] \in Nat /\ pos'[t] >= pos[t]
  <2>1. pos[t] \in Nat /\ pos'[t] \in Nat /\ Len(script[t]) \in Nat /\ DOMAIN script[t] = 1 .. Len(script[t])
    BY DEF Scripts, TaskInv, Effects
  <2>2. pos'[t] = pos[t] \/ pos'[t] = pos[t] + 1 \/ (pos'[t] = Len(script[t]) + 1 /\ pos[t] \in DOMAIN script[t])
    BY DEF Effects, MovesOn
  <2> QED BY <2>1, <2>2
<1>2. ASSUME NEW t \in Tasks, st[t] # "none" PROVE st'[t] # "none"
  BY <1>2 DEF Effects, Lives
<1>3. ASSUME NEW t \in Tasks, st[t] \in {"dead", "reaped"} PROVE st'[t] \in {"dead", "reaped"}
  <2>1. st'[t] # "run"
    <3> SUFFICES ASSUME st'[t] = "run" PROVE FALSE
      OBVIOUS
    <3>1. PICK u \in Tasks : pos[u] \in DOMAIN script[u] /\ Here(u).do \in Making /\ Here(u).of = t
      BY <1>3 DEF Effects, Lives
    <3>2. pos[u] >= pos[u]
      BY DEF TaskInv
    <3> QED BY <1>3, <3>1, <3>2 DEF UnbornInv, Here
  <2> QED BY <1>3, <2>1 DEF Effects, Lives
<1> QED BY <1>1, <1>2, <1>3

(* The positions stay in the scripts. *)
LEMMA TaskKept ==
  ASSUME Scripts(script), TaskInv, Effects
  PROVE  TaskInv'
<1>1. ASSUME NEW t \in Tasks PROVE pos'[t] <= Len(script[t]) + 1
  <2>1. pos[t] \in Nat /\ pos[t] <= Len(script[t]) + 1 /\ Len(script[t]) \in Nat
        /\ DOMAIN script[t] = 1 .. Len(script[t])
    BY DEF Scripts, TaskInv, Tasks
  <2>2. \/ pos'[t] = pos[t]
        \/ pos[t] \in DOMAIN script[t] /\ pos'[t] \in {pos[t] + 1, Len(script[t]) + 1}
    BY DEF Effects, MovesOn
  <2> QED BY <2>1, <2>2
<1>2. ASSUME NEW t \in Tasks, st'[t] = "none" PROVE pos'[t] = 1
  <2>1. st[t] = "none"
    BY <1>2 DEF Effects, Lives
  <2> QED BY <2>1 DEF Effects, MovesOn, TaskInv
<1> QED BY <1>1, <1>2 DEF TaskInv, Effects, Tasks

(* A task is born by the one call that makes it. *)
LEMMA UnbornKept ==
  ASSUME Orderly(script), TaskInv, UnbornInv, Effects
  PROVE  UnbornInv'
<1> SUFFICES ASSUME NEW t \in Tasks, NEW j \in DOMAIN script[t], script[t][j].do \in Making,
                    script[t][j].of \in Tasks, j >= pos'[t]
             PROVE  st'[script[t][j].of] = "none"
  BY DEF UnbornInv, Effects, Tasks
<1> DEFINE c == script[t][j].of
<1>1. j >= pos[t] /\ j \in Nat
  <2>1. j \in Nat
    BY DEF Orderly, Scripts, Tasks
  <2> QED BY <2>1, Forward DEF Orderly
<1>2. st[c] = "none"
  BY <1>1 DEF UnbornInv
<1>3. ASSUME st'[c] # st[c] PROVE FALSE
  <2>1. PICK u \in Tasks : /\ pos[u] \in DOMAIN script[u] /\ pos'[u] = pos[u] + 1
                           /\ Here(u).do \in Making /\ Here(u).of = c
    BY <1>2, <1>3 DEF Effects, Lives
  <2>2. t = u /\ j = pos[u]
    BY <2>1 DEF Orderly, MadeOnce, Here, Tasks
  <2> QED BY <1>1, <2>1, <2>2
<1> QED BY <1>2, <1>3

(* waitpid leaves its child reaped, or the child never existed. *)
LEMMA WaitedKept ==
  ASSUME Orderly(script), TaskInv, UnbornInv, WaitedInv, Effects
  PROVE  WaitedInv'
<1> SUFFICES ASSUME ~early', Waited(script), NEW t \in Tasks, NEW j \in DOMAIN script[t],
                    script[t][j].do \in Forking, script[t][j].of \in Tasks, j < pos'[t],
                    st'[script[t][j].of] \in {"run", "dead"}
             PROVE  \E m \in DOMAIN script[t] : /\ m >= pos'[t] /\ script[t][m].do \in Waiting
                                                /\ script[t][m].of = script[t][j].of
  BY DEF WaitedInv, Effects, Tasks
<1> DEFINE c == script[t][j].of
<1>1. j \in Nat /\ pos[t] \in Nat /\ pos'[t] \in Nat /\ pos'[t] >= pos[t] /\ DOMAIN script[t] = 1 .. Len(script[t])
      /\ Len(script[t]) \in Nat
  <2>1. DOMAIN script[t] = 1 .. Len(script[t]) /\ Len(script[t]) \in Nat
    BY DEF Orderly, Scripts, Tasks
  <2> QED BY <2>1, Forward DEF Orderly
<1>2. CASE j >= pos[t]
  <2>1. pos'[t] # pos[t] /\ st[c] = "none"
    BY <1>1, <1>2 DEF UnbornInv, Making, Forking
  <2>2. PICK u \in Tasks : /\ pos[u] \in DOMAIN script[u] /\ pos'[u] = pos[u] + 1
                           /\ Here(u).do \in Making /\ Here(u).of = c
    BY <2>1 DEF Effects, Lives
  <2>3. t = u /\ j = pos[u]
    BY <2>2 DEF Orderly, MadeOnce, Here, Tasks, Making, Forking
  <2>4. PICK m \in DOMAIN script[t] : m > j /\ script[t][m].do \in Waiting /\ script[t][m].of = c
    BY DEF Waited, Tasks
  <2>5. m >= pos'[t]
    BY <1>1, <2>2, <2>3, <2>4
  <2> QED BY <2>4, <2>5
<1>3. CASE j < pos[t]
  <2>1. st[c] \in {"run", "dead"}
    <3>1. st[c] # "reaped"
      BY Forward DEF Effects, Lives, Orderly
    <3>2. st[c] # "none"
      <4> SUFFICES ASSUME st[c] = "none" PROVE FALSE
        OBVIOUS
      <4>1. PICK u \in Tasks : /\ pos[u] \in DOMAIN script[u]
                               /\ Here(u).do \in Making /\ Here(u).of = c
        BY DEF Effects, Lives
      <4>2. t = u /\ j = pos[u]
        BY <4>1 DEF Orderly, MadeOnce, Here, Tasks, Making, Forking
      <4> QED BY <1>1, <1>3, <4>2
    <3> QED BY <3>1, <3>2 DEF TaskInv
  <2>2. ~early
    BY DEF Effects
  <2>3. PICK m \in DOMAIN script[t] : m >= pos[t] /\ script[t][m].do \in Waiting /\ script[t][m].of = c
    BY <1>3, <2>1, <2>2 DEF WaitedInv
  <2>4. CASE pos'[t] = pos[t]
    BY <2>3, <2>4
  <2>5. CASE pos'[t] # pos[t]
    <3>1. m # pos[t]
      BY <2>3, <2>5 DEF Effects, Knows, Here
    <3>2. pos'[t] = pos[t] + 1
      <4> SUFFICES ASSUME Here(t).do \in {"fork", "listen", "connect"} PROVE FALSE
        BY <2>5 DEF Effects, MovesOn
      <4>1. pos[t] \in DOMAIN script[t]
        BY <2>5 DEF Effects, MovesOn
      <4>2. j = pos[t]
        BY <4>1 DEF Orderly, LeavesNobody, Here, Tasks, Making, Forking
      <4> QED BY <1>1, <1>3, <4>2
    <3>3. m >= pos'[t]
      BY <1>1, <2>3, <3>1, <3>2
    <3> QED BY <2>3, <3>3
  <2> QED BY <2>4, <2>5
<1> QED BY <1>1, <1>2, <1>3

(* A task ends at the end of its script, of SIGPIPE, or with its process. *)
LEMMA EndedKept ==
  ASSUME Orderly(script), TaskInv, UnbornInv, EndedInv, Effects
  PROVE  EndedInv'
<1> SUFFICES ASSUME NEW t \in Tasks, st'[t] \in {"dead", "reaped"}
             PROVE  \/ pos'[t] > Len(script[t])
                    \/ Sends(t)
                    \/ st'[1] # "run" /\ (t \in Threads \/ Kills)
  BY DEF EndedInv, Effects, Tasks, Sends, Kills, Threads
<1>1. pos[t] > Len(script[t]) => pos'[t] > Len(script[t])
  <2>1. Len(script[t]) \in Nat
    BY DEF Orderly, Scripts, Tasks
  <2> QED BY <2>1, Forward DEF Orderly
<1>2. st[1] # "run" => st'[1] # "run"
  <2>1. 1 \in Tasks
    BY DEF Orderly, Scripts, Tasks
  <2>2. \A u \in Tasks : pos[u] \in DOMAIN script[u] /\ Here(u).do \in Making => Here(u).of # 1
    BY DEF Orderly, MadeOnce, Here, Tasks
  <2> QED BY <2>1, <2>2 DEF Effects, Lives
<1>3. CASE st[t] \in {"dead", "reaped"}
  BY <1>1, <1>2, <1>3 DEF EndedInv
<1>4. CASE st[t] \notin {"dead", "reaped"}
  BY <1>1, <1>4 DEF Effects, Lives
<1> QED BY <1>3, <1>4

(* Where a task that has gone on was. *)
LEMMA JustPassed ==
  ASSUME Orderly(script), TaskInv, UnbornInv, Effects, NEW t \in Tasks, NEW j \in DOMAIN script[t],
         script[t][j].do \in {"create", "join"}, j < pos'[t], ~(j < pos[t])
  PROVE  j = pos[t] /\ pos'[t] # pos[t]
<1>1. j \in Nat /\ pos[t] \in Nat /\ pos'[t] \in Nat
  <2>1. DOMAIN script[t] = 1 .. Len(script[t]) /\ Len(script[t]) \in Nat
    BY DEF Orderly, Scripts, Tasks
  <2> QED BY <2>1, Forward DEF Orderly
<1>2. pos'[t] # pos[t] /\ pos[t] \in DOMAIN script[t]
  BY <1>1 DEF Effects, MovesOn
<1>3. CASE pos'[t] = pos[t] + 1
  BY <1>1, <1>2, <1>3
<1>4. CASE Here(t).do \in {"fork", "listen", "connect"}
  BY <1>2, <1>4 DEF Orderly, LeavesNobody, Here, Tasks, Making
<1> QED BY <1>2, <1>3, <1>4 DEF Effects, MovesOn

(* No step unmakes a thread. *)
LEMMA CreatedKept ==
  ASSUME Orderly(script), TaskInv, UnbornInv, CreatedInv, Effects
  PROVE  CreatedInv'
<1> SUFFICES ASSUME NEW t \in Tasks, NEW j \in DOMAIN script[t], script[t][j].do = "create",
                    script[t][j].of \in Tasks, j < pos'[t]
             PROVE  st'[script[t][j].of] # "none"
  BY DEF CreatedInv, Effects, Tasks
<1>1. CASE j < pos[t]
  BY <1>1, Forward DEF CreatedInv, Orderly
<1>2. CASE ~(j < pos[t])
  BY <1>2, JustPassed DEF Effects, Knows, Here
<1> QED BY <1>1, <1>2

(* A thread that main is about to join, or has joined, was created. *)
LEMMA JoinIsCreated ==
  ASSUME Orderly(script), TaskInv, EndedInv, CreatedInv, JoinedInv, st[1] = "run",
         pos[1] \in DOMAIN script[1], script[1][pos[1]].do = "join"
  PROVE  st[script[1][pos[1]].of] # "none"
<1>1. 1 \in Tasks
  BY DEF Orderly, Scripts, Tasks
<1> DEFINE c == script[1][pos[1]].of
<1>2. PICK u \in Tasks : \E m \in DOMAIN script[u] :
          /\ script[u][m].do = "create" /\ script[u][m].of = c
          /\ \A x \in DOMAIN script[u] : script[u][x].do # "send"
          /\ \/ u = 1 /\ m < pos[1]
             \/ \E x \in 1 .. pos[1] - 1 : script[1][x].do = "join" /\ script[1][x].of = u
  BY <1>1 DEF Orderly, JoinsCreated, Tasks
<1>3. PICK m \in DOMAIN script[u] :
          /\ script[u][m].do = "create" /\ script[u][m].of = c
          /\ \A x \in DOMAIN script[u] : script[u][x].do # "send"
          /\ \/ u = 1 /\ m < pos[1]
             \/ \E x \in 1 .. pos[1] - 1 : script[1][x].do = "join" /\ script[1][x].of = u
  BY <1>2
<1>4. c \in Tasks
  BY <1>1 DEF Orderly, JoinsCreated, Tasks
<1>5. CASE u = 1 /\ m < pos[1]
  BY <1>3, <1>4, <1>5 DEF CreatedInv
<1>6. CASE \E x \in 1 .. pos[1] - 1 : script[1][x].do = "join" /\ script[1][x].of = u
  <2>1. PICK x \in 1 .. pos[1] - 1 : script[1][x].do = "join" /\ script[1][x].of = u
    BY <1>6
  <2>2. x \in DOMAIN script[1] /\ x < pos[1]
    BY <1>1 DEF Orderly, Scripts, TaskInv, Tasks
  <2>3. st[u] \in {"dead", "reaped"}
    BY <1>1, <2>1, <2>2 DEF JoinedInv
  <2>4. pos[u] > Len(script[u])
    BY <1>3, <2>3 DEF EndedInv, Sends
  <2>5. m < pos[u]
    BY <2>4 DEF Orderly, Scripts, TaskInv, Tasks
  <2> QED BY <1>3, <1>4, <2>5 DEF CreatedInv
<1> QED BY <1>3, <1>5, <1>6

(* What main joins exists, so it had ended. *)
LEMMA JoinedKept ==
  ASSUME Orderly(script), TaskInv, UnbornInv, EndedInv, CreatedInv, JoinedInv, Effects
  PROVE  JoinedInv'
<1> SUFFICES ASSUME NEW t \in Tasks, NEW j \in DOMAIN script[t], script[t][j].do = "join",
                    j < pos'[t]
             PROVE  st'[script[t][j].of] \in {"dead", "reaped"}
  BY DEF JoinedInv, Effects, Tasks
<1> DEFINE c == script[t][j].of
<1>1. t = 1 /\ c \in Tasks
  BY DEF Orderly, JoinsCreated, Tasks
<1>2. CASE j < pos[t]
  BY <1>1, <1>2, Forward DEF JoinedInv, Orderly
<1>3. CASE ~(j < pos[t])
  <2>1. j = pos[t] /\ st[1] = "run" /\ st[c] # "run"
    BY <1>1, <1>3, JustPassed DEF Effects, Knows, Here
  <2>2. st[c] # "none"
    BY <1>1, <2>1, JoinIsCreated DEF Orderly
  <2>3. st[c] \in {"dead", "reaped"}
    BY <1>1, <2>1, <2>2 DEF TaskInv
  <2> QED BY <1>1, <2>3, Forward DEF Orderly
<1> QED BY <1>2, <1>3

(* main does not go back behind its free. *)
LEMMA FreedKept ==
  ASSUME Orderly(script), TaskInv, UnbornInv, FreedInv, Effects
  PROVE  FreedInv'
<1> SUFFICES ASSUME freed' PROVE \E j \in DOMAIN script[1] : j < pos'[1] /\ script[1][j].do = "free"
  BY DEF FreedInv, Effects
<1>1. 1 \in Tasks /\ DOMAIN script[1] \subseteq Nat
  BY DEF Orderly, Scripts, Tasks
<1>2. CASE freed
  <2>1. PICK j \in DOMAIN script[1] : j < pos[1] /\ script[1][j].do = "free"
    BY <1>2 DEF FreedInv
  <2>2. j < pos'[1]
    BY <1>1, <2>1, Forward DEF Orderly
  <2> QED BY <2>1, <2>2
<1>3. CASE ~freed
  <2>1. PICK t \in Tasks : pos'[t] > pos[t] /\ Here(t).do = "free" /\ pos[t] \in DOMAIN script[t]
    BY <1>3 DEF Effects
  <2>2. t = 1
    BY <2>1 DEF Orderly, FreesJoined, Here, Tasks
  <2>3. pos[1] < pos'[1]
    BY <1>1, <2>1, <2>2, Forward DEF Orderly
  <2> QED BY <2>1, <2>2, <2>3 DEF Here
<1> QED BY <1>2, <1>3

-----------------------------------------------------------------------------
(* The steps have these effects. *)

(* What it means that a task is at a call. *)
LEMMA AtIs ==
  ASSUME Scripts(script), TaskInv, NEW t \in Tasks, NEW name, At(t, name)
  PROVE  /\ st[t] = "run" /\ pos[t] \in DOMAIN script[t] /\ Here(t).do = name
         /\ pos[t] \in Nat \ {0} /\ Len(script[t]) \in Nat /\ Arg(t) = Here(t).of
BY DEF At, Arg, Here, Scripts, TaskInv, Tasks

(* A call that leaves the other tasks alone. *)
LEMMA PlainEffects ==
  ASSUME Scripts(script), TaskInv, ArrivedInv, NEW t \in Tasks, st[t] = "run",
         pos[t] \in DOMAIN script[t], Here(t).do \notin Waiting \cup {"create", "join", "barrier"},
         \/ Step(t)
         \/ /\ pos' = [pos EXCEPT ![t] = Len(script[t]) + 1]
            /\ Here(t).do \in {"fork", "listen", "connect"},
         UNCHANGED <<prog, script, st, arrived, early>>,
         freed' => freed \/ (Here(t).do = "free" /\ Step(t))
  PROVE  Effects /\ ArrivedInv'
<1>1. pos[t] \in Nat \ {0} /\ Len(script[t]) \in Nat /\ pos \in [Tasks -> Nat \ {0}]
  BY DEF Scripts, TaskInv, Tasks
<1>2. /\ pos' \in [Tasks -> Nat \ {0}] /\ \A u \in Tasks \ {t} : pos'[u] = pos[u]
      /\ \/ pos'[t] = pos[t] + 1
         \/ pos'[t] = Len(script[t]) + 1 /\ Here(t).do \in {"fork", "listen", "connect"}
  <2>1. CASE Step(t)
    BY <1>1, <2>1 DEF Step
  <2>2. CASE /\ pos' = [pos EXCEPT ![t] = Len(script[t]) + 1]
             /\ Here(t).do \in {"fork", "listen", "connect"}
    BY <1>1, <2>2
  <2> QED BY <2>1, <2>2
<1>3. MovesOn
  BY <1>2 DEF MovesOn
<1>4. Lives
  BY DEF Lives
<1>5. Knows
  BY <1>2 DEF Knows
<1>6. freed' => freed \/ \E u \in Tasks : pos'[u] > pos[u] /\ Here(u).do = "free" /\ pos[u] \in DOMAIN script[u]
  <2>1. Step(t) => pos'[t] > pos[t]
    BY <1>1 DEF Step
  <2> QED BY <2>1
<1>7. Effects
  BY <1>2, <1>3, <1>4, <1>5, <1>6 DEF Effects, TaskInv, Tasks
<1>8. ArrivedInv'
  BY <1>2 DEF ArrivedInv, Here, Tasks
<1> QED BY <1>7, <1>8

(* A call that ends the script. *)
LEMMA LeaveEffects ==
  ASSUME Scripts(script), TaskInv, ArrivedInv, NEW t \in Tasks,
         At(t, "fork") \/ At(t, "listen") \/ At(t, "connect"),
         pos' = [pos EXCEPT ![t] = Len(script[t]) + 1],
         UNCHANGED <<prog, script, st, arrived, early, freed>>
  PROVE  Effects /\ ArrivedInv'
<1>1. st[t] = "run" /\ pos[t] \in DOMAIN script[t] /\ Here(t).do \in {"fork", "listen", "connect"}
  BY AtIs
<1>2. Here(t).do \notin Waiting \cup {"create", "join", "barrier"}
  BY <1>1 DEF Waiting
<1> QED BY <1>1, <1>2, PlainEffects

(* fork and pthread_create make a task. *)
LEMMA ForkEffects ==
  ASSUME Scripts(script), TaskInv, ArrivedInv, UNCHANGED prog, NEW t \in Tasks,
         Fork(t) \/ pthread_create(t)
  PROVE  Effects /\ ArrivedInv'
<1>1. /\ st[t] = "run" /\ pos[t] \in DOMAIN script[t] /\ Here(t).do \in Making
      /\ pos[t] \in Nat \ {0} /\ Arg(t) = Here(t).of
  BY AtIs DEF Fork, Forks, pthread_create, Making
<1>2. /\ st' = [st EXCEPT ![Arg(t)] = "run"] /\ pos' = [pos EXCEPT ![t] = pos[t] + 1]
      /\ UNCHANGED <<script, arrived, freed, early>>
  BY DEF Fork, pthread_create, Step
<1>3. st \in [Tasks -> {"none", "run", "dead", "reaped"}] /\ pos \in [Tasks -> Nat \ {0}]
  BY DEF TaskInv
<1>4. MovesOn
  BY <1>1, <1>2, <1>3 DEF MovesOn
<1>5. Lives
  BY <1>1, <1>2, <1>3 DEF Lives
<1>6. Knows
  <2>1. Here(t).do \notin Waiting \cup {"join"}
    BY <1>1 DEF Making, Waiting
  <2>2. Arg(t) \in Tasks => st'[Arg(t)] = "run"
    BY <1>2, <1>3
  <2> QED BY <1>1, <1>2, <1>3, <2>1, <2>2 DEF Knows
<1>7. Effects
  <2>1. st' \in [Tasks -> {"none", "run", "dead", "reaped"}]
    BY <1>2, <1>3
  <2>2. pos' \in [Tasks -> Nat \ {0}]
    BY <1>1, <1>2, <1>3
  <2> QED BY <1>2, <1>4, <1>5, <1>6, <2>1, <2>2 DEF Effects
<1>8. ArrivedInv'
  BY <1>1, <1>2, <1>3 DEF ArrivedInv, Here, Tasks, Making
<1> QED BY <1>7, <1>8

(* waitpid reaps a child, or says that it did not wait. *)
LEMMA WaitEffects ==
  ASSUME Scripts(script), TaskInv, ArrivedInv, UNCHANGED prog, NEW t \in Tasks,
         Wait(t) \/ WaitReturns(t)
  PROVE  Effects /\ ArrivedInv'
<1>1. /\ st[t] = "run" /\ pos[t] \in DOMAIN script[t] /\ Here(t).do \in Waiting
      /\ pos[t] \in Nat \ {0} /\ Arg(t) = Here(t).of
  BY AtIs DEF Wait, WaitReturns, Waiting
<1>2. /\ pos' = [pos EXCEPT ![t] = pos[t] + 1]
      /\ UNCHANGED <<script, arrived, freed>> /\ (early => early')
  BY DEF Wait, WaitReturns, Step
<1>3. st \in [Tasks -> {"none", "run", "dead", "reaped"}] /\ pos \in [Tasks -> Nat \ {0}]
  BY DEF TaskInv
<1>4. /\ st' = st \/ \E d \in Tasks : st[d] = "dead" /\ st' = [st EXCEPT ![d] = "reaped"]
      /\ Arg(t) \in Tasks => early' \/ st'[Arg(t)] \notin {"run", "dead"}
  <2>1. CASE WaitReturns(t)
    BY <2>1 DEF WaitReturns
  <2>2. CASE Wait(t)
    <3> DEFINE c == Arg(t)
               awaited == {d \in IF st[c] = "none" THEN Children(t) ELSE {c} : st[d] \in {"run", "dead"}}
    <3>1. CASE awaited = {} /\ UNCHANGED st
      BY <1>3, <3>1
    <3>2. ASSUME NEW d \in awaited, st[d] = "dead", st' = [st EXCEPT ![d] = "reaped"]
          PROVE  /\ \E u \in Tasks : st[u] = "dead" /\ st' = [st EXCEPT ![u] = "reaped"]
                 /\ c \in Tasks => st'[c] \notin {"run", "dead"}
      <4>1. c \in Tasks /\ d \in Tasks
        BY <2>2, <3>2 DEF Children, Wait
      <4>2. st[c] = "none" \/ d = c
        BY <3>2
      <4> QED BY <1>3, <3>2, <4>1, <4>2
    <3> QED BY <2>2, <3>1, <3>2 DEF Wait
  <2> QED BY <2>1, <2>2
<1>5. MovesOn
  BY <1>1, <1>2, <1>3 DEF MovesOn
<1>6. Lives
  BY <1>3, <1>4 DEF Lives
<1>7. Knows
  BY <1>1, <1>2, <1>3, <1>4 DEF Knows, Waiting
<1>8. Effects
  BY <1>2, <1>3, <1>4, <1>5, <1>6, <1>7 DEF Effects
<1>9. ArrivedInv'
  BY <1>1, <1>2, <1>3, <1>4 DEF ArrivedInv, Here, Tasks, Waiting
<1> QED BY <1>8, <1>9

(* pthread_join waits for the end of a thread. *)
LEMMA JoinEffects ==
  ASSUME Scripts(script), TaskInv, ArrivedInv, UNCHANGED prog, NEW t \in Tasks, pthread_join(t)
  PROVE  Effects /\ ArrivedInv'
<1>1. /\ st[t] = "run" /\ pos[t] \in DOMAIN script[t] /\ Here(t).do = "join"
      /\ pos[t] \in Nat \ {0} /\ Arg(t) = Here(t).of
  BY AtIs DEF pthread_join
<1>2. /\ pos' = [pos EXCEPT ![t] = pos[t] + 1] /\ st[Arg(t)] # "run"
      /\ st' = [st EXCEPT ![Arg(t)] = IF @ = "dead" THEN "reaped" ELSE @]
      /\ UNCHANGED <<script, arrived, freed, early>>
  BY DEF pthread_join, Step
<1>3. st \in [Tasks -> {"none", "run", "dead", "reaped"}] /\ pos \in [Tasks -> Nat \ {0}]
  BY DEF TaskInv
<1>4. MovesOn /\ Lives /\ Knows
  BY <1>1, <1>2, <1>3 DEF MovesOn, Lives, Knows, Waiting
<1>5. Effects
  <2>1. st' \in [Tasks -> {"none", "run", "dead", "reaped"}]
    BY <1>2, <1>3
  <2>2. pos' \in [Tasks -> Nat \ {0}]
    BY <1>1, <1>2, <1>3
  <2> QED BY <1>2, <1>4, <2>1, <2>2 DEF Effects
<1>6. ArrivedInv'
  BY <1>1, <1>2, <1>3 DEF ArrivedInv, Here, Tasks
<1> QED BY <1>5, <1>6

(* The ends of tasks, in which nobody goes on. *)
LEMMA EndEffects ==
  ASSUME Scripts(script), TaskInv, ArrivedInv, UNCHANGED <<prog, script, pos, arrived, freed, early>>,
         st' \in [Tasks -> {"none", "run", "dead", "reaped"}],
         \A u \in Tasks : st'[u] # st[u] =>
           /\ st[u] = "run" /\ st'[u] = "dead"
           /\ \/ pos[u] > Len(script[u])
              \/ Sends(u)
              \/ st'[1] # "run" /\ (u \in Threads \/ Kills)
  PROVE  Effects /\ ArrivedInv'
<1>1. MovesOn /\ Lives /\ Knows
  BY DEF MovesOn, Lives, Knows
<1>2. Effects
  BY <1>1 DEF Effects, TaskInv
<1>3. ArrivedInv'
  BY DEF ArrivedInv, Tasks
<1> QED BY <1>2, <1>3

(* The last at the barrier moves all that wait there. *)
LEMMA BarrierEffects ==
  ASSUME Scripts(script), TaskInv, ArrivedInv, UNCHANGED prog, NEW t \in Tasks, Barrier(t)
  PROVE  Effects /\ ArrivedInv'
<1>1. /\ st[t] = "run" /\ pos[t] \in DOMAIN script[t] /\ Here(t).do = "barrier"
  BY AtIs DEF Barrier
<1> DEFINE here == arrived \cup {t}
<1>2. \A u \in here : /\ u \in Tasks /\ st[u] # "none" /\ pos[u] \in DOMAIN script[u]
                      /\ Here(u).do = "barrier"
  BY <1>1 DEF ArrivedInv, Here
<1>3. st \in [Tasks -> {"none", "run", "dead", "reaped"}] /\ pos \in [Tasks -> Nat \ {0}]
  BY DEF TaskInv
<1>4. /\ UNCHANGED <<script, st, freed, early>>
      /\ \/ arrived' = here /\ pos' = pos
         \/ arrived' = {} /\ pos' = [c \in Tasks |-> IF c \in here THEN pos[c] + 1 ELSE pos[c]]
  BY DEF Barrier
<1>5. MovesOn /\ Knows
  BY <1>2, <1>3, <1>4 DEF MovesOn, Knows, Waiting
<1>6. Lives
  BY <1>4 DEF Lives
<1>7. Effects
  BY <1>3, <1>4, <1>5, <1>6 DEF Effects
<1>8. ArrivedInv'
  BY <1>2, <1>4 DEF ArrivedInv, Here, Tasks
<1> QED BY <1>7, <1>8

(* Every call of every task has these effects. *)
LEMMA RunEffects ==
  ASSUME Scripts(script), TaskInv, ArrivedInv, UNCHANGED prog, NEW t \in Tasks, Run(t)
  PROVE  Effects /\ ArrivedInv'
<1> USE AtIs
<1>1. CASE Fork(t) \/ pthread_create(t)
  BY <1>1, ForkEffects
<1>2. CASE Wait(t) \/ WaitReturns(t)
  BY <1>2, WaitEffects
<1>3. CASE pthread_join(t)
  BY <1>3, JoinEffects
<1>4. CASE Barrier(t)
  BY <1>4, BarrierEffects
<1>5. CASE Delay(t) \/ Lock(t) \/ LockFails(t) \/ Unlock(t) \/ Emit(t)
  BY <1>5, PlainEffects DEF Delay, Lock, LockFails, Unlock, Emit, Waiting
<1>6. CASE Fopen(t) \/ Fprintf(t) \/ Listen(t) \/ Accept(t) \/ Send(t) \/ Recv(t) \/ Free(t)
  BY <1>6, PlainEffects DEF Fopen, Fprintf, Listen, Accept, Send, Recv, Free, Waiting
<1>7. CASE ForkFails(t)
  <2>1. CASE At(t, "fork")
    BY <1>7, <2>1, LeaveEffects DEF ForkFails
  <2>2. CASE ~At(t, "fork")
    BY <1>7, <2>2, PlainEffects DEF ForkFails, Forks, Waiting
  <2> QED BY <2>1, <2>2
<1>8. CASE ListenFails(t) \/ Connect(t)
  <2>1. CASE Connect(t) /\ sock.state = "listen"
    BY <2>1, PlainEffects DEF Connect, Waiting
  <2>2. CASE Connect(t) /\ sock.state # "listen"
    BY <2>2, LeaveEffects DEF Connect
  <2>3. CASE ListenFails(t)
    BY <2>3, LeaveEffects DEF ListenFails
  <2> QED BY <1>8, <2>1, <2>2, <2>3
<1>9. CASE SendKills(t)
  <2>1. Sends(t) /\ st[t] = "run"
    BY <1>9 DEF SendKills, Sends, Here
  <2> QED BY <1>9, <2>1, EndEffects DEF SendKills, TaskInv
<1>10. CASE Exit(t)
  BY <1>10, EndEffects DEF Exit, TaskInv
<1>11. CASE pthread_kill(t)
  <2>1. At(t, "kill") /\ UNCHANGED <<script, arrived, freed, early>>
    BY <1>11 DEF pthread_kill
  <2>2. Kills
    BY <2>1 DEF Kills, Here
  <2>3. CASE Step(t) /\ UNCHANGED st
    BY <2>1, <2>3, PlainEffects DEF Waiting
  <2>4. CASE /\ st' = [c \in Tasks |-> IF c \in Threads \cup {1} /\ st[c] = "run" THEN "dead" ELSE st[c]]
             /\ UNCHANGED pos
    <3>1. 1 \in Tasks
      BY DEF Scripts, Tasks
    <3> QED BY <2>1, <2>2, <2>4, <3>1, EndEffects DEF TaskInv
  <2> QED BY <1>11, <2>3, <2>4 DEF pthread_kill
<1> QED BY <1>1, <1>2, <1>3, <1>4, <1>5, <1>6, <1>7, <1>8, <1>9, <1>10, <1>11 DEF Run

-----------------------------------------------------------------------------
(* The scripts are sequences of calls. *)

(* The calls of a thread that touch no other task, and those of main. *)
QuietCall == [do : {"sleep", "hog", "emit", "barrier"}, of : Nat]
(* The names of the calls of the long scripts, and such calls. *)
CallNames == {"sleep", "hog", "emit", "barrier", "create", "join", "free",
              "spawn", "wait", "fopen", "fprintf", "listen", "accept", "connect", "send", "recv"}
AnyCall == [do : CallNames, of : Nat \cup (Nat \X Nat)]

(* Concatenation, element by element. *)
LEMMA Concat ==
  ASSUME NEW S, NEW a \in Seq(S), NEW b \in Seq(S)
  PROVE  /\ a \o b \in Seq(S) /\ Len(a \o b) = Len(a) + Len(b)
         /\ \A j \in 1 .. Len(a) : (a \o b)[j] = a[j]
         /\ \A j \in 1 .. Len(b) : (a \o b)[Len(a) + j] = b[j]
OBVIOUS

(* A function on 1 .. L is a sequence of length L. *)
LEMMA Listed ==
  ASSUME NEW S, NEW L \in Nat, NEW f \in [1 .. L -> S]
  PROVE  f \in Seq(S) /\ Len(f) = L /\ DOMAIN f = 1 .. L
<1>1. f \in Seq(S)
  OBVIOUS
<1> QED BY <1>1

(* The parts of a call. *)
LEMMA CallIs ==
  ASSUME NEW name \in CallNames, NEW x \in Nat \cup (Nat \X Nat)
  PROVE  Call(name, x) \in AnyCall /\ Call(name, x).do = name /\ Call(name, x).of = x
BY DEF Call, AnyCall

(* A quiet call is a call. *)
LEMMA QuietIs ==
  ASSUME NEW x \in QuietCall
  PROVE  x \in AnyCall /\ x.do \in {"sleep", "hog", "emit", "barrier"}
BY DEF QuietCall, AnyCall, CallNames

(* Each makes one call per task. *)
LEMMA EachIs ==
  ASSUME NEW name \in CallNames, NEW a \in Seq(Nat)
  PROVE  /\ Each(name, a) \in Seq(AnyCall) /\ Len(Each(name, a)) = Len(a)
         /\ \A j \in 1 .. Len(a) : Each(name, a)[j] = Call(name, a[j])
<1>1. DOMAIN a = 1 .. Len(a) /\ Len(a) \in Nat /\ \A j \in 1 .. Len(a) : a[j] \in Nat
  OBVIOUS
<1>2. \A j \in 1 .. Len(a) : Call(name, a[j]) \in AnyCall
  BY <1>1, CallIs
<1> DEFINE e == Each(name, a)
<1>3. e = [j \in 1 .. Len(a) |-> Call(name, a[j])]
  BY <1>1 DEF Each
<1> HIDE DEF e
<1>4. e \in [1 .. Len(a) -> AnyCall]
  BY <1>2, <1>3
<1>5. e \in Seq(AnyCall) /\ Len(e) = Len(a)
  BY <1>1, <1>4, Listed
<1>6. \A j \in 1 .. Len(a) : e[j] = Call(name, a[j])
  BY <1>3
<1> QED BY <1>5, <1>6 DEF e

(* The range of a remainder. *)
LEMMA Remainder ==
  ASSUME NEW x \in Nat, NEW L \in Nat \ {0}
  PROVE  x % L \in 0 .. L - 1
OBVIOUS

(* Times repeats a list of calls: call j is the one at the position of j   *)
(* modulo the length of the list.                                          *)
LEMMA TimesIs ==
  ASSUME NEW S, NEW times \in Nat, NEW a \in Seq(S), a # <<>>
  PROVE  /\ Times(times, a) \in Seq(S) /\ Len(Times(times, a)) = times * Len(a)
         /\ \A j \in 1 .. times * Len(a) : Times(times, a)[j] = a[((j - 1) % Len(a)) + 1]
<1>1. Len(a) \in Nat \ {0} /\ \A j \in 1 .. Len(a) : a[j] \in S
  OBVIOUS
<1> DEFINE L == Len(a)
           M == times * L
<1>2. M \in Nat
  BY <1>1
<1> HIDE DEF M
<1>3. ASSUME NEW j \in 1 .. M PROVE a[((j - 1) % L) + 1] \in S
  <2>1. j - 1 \in Nat
    BY <1>2
  <2>2. (j - 1) % L \in 0 .. L - 1
    BY <1>1, <2>1, Remainder
  <2> HIDE DEF L
  <2>3. ((j - 1) % L) + 1 \in 1 .. L
    BY <1>1, <2>2 DEF L
  <2> QED BY <1>1, <2>3 DEF L
<1>4. Times(times, a) = [j \in 1 .. M |-> a[((j - 1) % L) + 1]]
  BY DEF Times, M
<1>5. Times(times, a) \in Seq(S) /\ Len(Times(times, a)) = M
  BY <1>2, <1>3, <1>4
<1> QED BY <1>4, <1>5 DEF M

(* The scripts of a pool: main creates the threads, joins them and makes   *)
(* the last call; the threads run what they were given.                    *)
LEMMA PoolIs ==
  ASSUME NEW w \in Seq(Seq(QuietCall)), NEW last \in {<<>>, <<Call("free", 0)>>}
  PROVE  LET s == Pool(w, last)
             N == Len(w)
         IN  /\ s \in Seq(Seq(AnyCall)) /\ Len(s) = N + 1
             /\ \A t \in 1 .. N : s[t + 1] = w[t]
             /\ Len(s[1]) = 2 * N + Len(last)
             /\ \A j \in 1 .. N : s[1][j] = Call("create", j + 1) /\ s[1][N + j] = Call("join", j + 1)
             /\ Len(last) \in {0, 1} /\ (Len(last) = 1 => s[1][2 * N + 1] = Call("free", 0))
<1> DEFINE N == Len(w)
           threads == [j \in DOMAIN w |-> j + 1]
           c == Each("create", threads)
           d == Each("join", threads)
<1>1. N \in Nat /\ DOMAIN w = 1 .. N
  OBVIOUS
<1>a. threads \in [1 .. N -> Nat]
  BY <1>1
<1>b. threads \in Seq(Nat) /\ Len(threads) = N
  BY <1>1, <1>a, Listed
<1>2. \A j \in 1 .. N : threads[j] = j + 1
  BY <1>1
<1>3. w \in Seq(Seq(AnyCall))
  <2>1. QuietCall \subseteq AnyCall
    BY QuietIs
  <2>2. Seq(QuietCall) \subseteq Seq(AnyCall)
    BY <2>1
  <2> QED BY <2>2
<1>4. last \in Seq(AnyCall) /\ Len(last) \in {0, 1} /\ (Len(last) = 1 => last[1] = Call("free", 0))
  <2>1. CASE last = <<>>
    BY <2>1
  <2>2. CASE last = <<Call("free", 0)>>
    <3>1. Call("free", 0) \in AnyCall
      BY CallIs DEF CallNames
    <3> QED BY <2>2, <3>1
  <2> QED BY <2>1, <2>2
<1> HIDE DEF threads, N
<1>5. c \in Seq(AnyCall) /\ Len(c) = N /\ \A j \in 1 .. N : c[j] = Call("create", j + 1)
  <2>1. /\ c \in Seq(AnyCall) /\ Len(c) = Len(threads)
        /\ \A j \in 1 .. Len(threads) : c[j] = Call("create", threads[j])
    BY <1>b, EachIs DEF CallNames
  <2> QED BY <1>b, <1>2, <2>1
<1>51. d \in Seq(AnyCall) /\ Len(d) = N /\ \A j \in 1 .. N : d[j] = Call("join", j + 1)
  <2>1. /\ d \in Seq(AnyCall) /\ Len(d) = Len(threads)
        /\ \A j \in 1 .. Len(threads) : d[j] = Call("join", threads[j])
    BY <1>b, EachIs DEF CallNames
  <2> QED BY <1>b, <1>2, <2>1
<1> HIDE DEF c, d
<1> DEFINE e == c \o d
           m == e \o last
<1>6. /\ e \in Seq(AnyCall) /\ Len(e) = N + N
      /\ \A j \in 1 .. N : e[j] = c[j]
      /\ \A j \in 1 .. N : e[N + j] = d[j]
  <2>1. e \in Seq(AnyCall) /\ Len(e) = Len(c) + Len(d) /\ \A j \in 1 .. Len(c) : e[j] = c[j]
    BY <1>5, <1>51, Concat, ZenonT(40)
  <2>2. \A j \in 1 .. Len(d) : e[Len(c) + j] = d[j]
    BY <1>5, <1>51
  <2> QED BY <1>5, <1>51, <2>1, <2>2
<1> HIDE DEF e
<1>7. /\ m \in Seq(AnyCall) /\ Len(m) = Len(e) + Len(last)
      /\ \A j \in 1 .. Len(e) : m[j] = e[j]
      /\ \A j \in 1 .. Len(last) : m[Len(e) + j] = last[j]
  <2>1. m \in Seq(AnyCall) /\ Len(m) = Len(e) + Len(last) /\ \A j \in 1 .. Len(e) : m[j] = e[j]
    BY <1>4, <1>6, Concat, ZenonT(40)
  <2>2. \A j \in 1 .. Len(last) : m[Len(e) + j] = last[j]
    BY <1>4, <1>6
  <2> QED BY <2>1, <2>2
<1> HIDE DEF m
<1> DEFINE x == <<m>>
<1>8. x \in Seq(Seq(AnyCall)) /\ Len(x) = 1 /\ x[1] = m
  BY <1>7
<1> HIDE DEF x
<1> DEFINE s == x \o w
<1>9. s \in Seq(Seq(AnyCall)) /\ Len(s) = Len(x) + Len(w)
  BY <1>3, <1>8, Concat, Zenon
<1>91. \A j \in 1 .. Len(x) : s[j] = x[j]
  BY <1>3, <1>8, Concat, Zenon
<1>92. \A j \in 1 .. Len(w) : s[Len(x) + j] = w[j]
  <2> DEFINE T == Seq(AnyCall)
  <2>1. x \in Seq(T) /\ w \in Seq(T)
    BY <1>3, <1>8
  <2> HIDE DEF T
  <2> QED BY <2>1
<1>10. s = Pool(w, last)
  BY DEF s, x, m, e, c, d, threads, Pool
<1> HIDE DEF s
<1>11. s[1] = m
  BY <1>8, <1>91
<1>12. \A t \in 1 .. N : s[t + 1] = w[t]
  BY <1>1, <1>8, <1>92 DEF N
<1>13. ASSUME NEW j \in 1 .. N PROVE s[1][j] = Call("create", j + 1)
  BY <1>1, <1>5, <1>6, <1>7, <1>11
<1>14. ASSUME NEW j \in 1 .. N PROVE s[1][N + j] = Call("join", j + 1)
  <2>1. N + j \in 1 .. Len(e)
    BY <1>1, <1>6
  <2> QED BY <1>1, <1>51, <1>6, <1>7, <1>11, <2>1
<1>15. Len(last) = 1 => s[1][2 * N + 1] = Call("free", 0)
  BY <1>1, <1>4, <1>6, <1>7, <1>11
<1>16. Len(s[1]) = 2 * N + Len(last)
  BY <1>1, <1>4, <1>6, <1>7, <1>11
<1>17. Len(s) = N + 1
  BY <1>1, <1>8, <1>9 DEF N
<1> QED
  BY <1>4, <1>9, <1>10, <1>12, <1>13, <1>14, <1>15, <1>16, <1>17 DEF N

(* The names of the quiet calls. *)
Quiet == {"sleep", "hog", "emit", "barrier"}

(* What the calls of a pool are. *)
PoolCalls(s, N) ==
  /\ Scripts(s) /\ Len(s) = N + 1 /\ N \in Nat
  /\ \A t \in DOMAIN s : \A j \in DOMAIN s[t] :
       \/ t # 1 /\ s[t][j].do \in Quiet
       \/ t = 1 /\ j \in 1 .. N /\ s[t][j].do = "create" /\ s[t][j].of = j + 1
       \/ t = 1 /\ j \in N + 1 .. 2 * N /\ s[t][j].do = "join" /\ s[t][j].of = (j - N) + 1
       \/ t = 1 /\ j = 2 * N + 1 /\ s[t][j].do = "free"
  /\ \A x \in 1 .. N : /\ x \in DOMAIN s[1] /\ N + x \in DOMAIN s[1]
                       /\ s[1][x].do = "create" /\ s[1][x].of = x + 1
                       /\ s[1][N + x].do = "join" /\ s[1][N + x].of = x + 1

(* An arithmetic fact about the position of the last call of main. *)
LEMMA OneMore ==
  ASSUME NEW a \in Int, NEW b \in Nat, a <= 2 * b + 1, ~(a <= 2 * b)
  PROVE  a = 2 * b + 1
OBVIOUS

(* A pool of quiet threads has the calls of a pool. *)
LEMMA PoolHasCalls ==
  ASSUME NEW w \in Seq(Seq(QuietCall)), NEW last \in {<<>>, <<Call("free", 0)>>}
  PROVE  PoolCalls(Pool(w, last), Len(w))
<1> DEFINE s == Pool(w, last)
           N == Len(w)
<1>1. /\ s \in Seq(Seq(AnyCall)) /\ Len(s) = N + 1
      /\ \A t \in 1 .. N : s[t + 1] = w[t]
      /\ Len(s[1]) = 2 * N + Len(last)
      /\ \A j \in 1 .. N : s[1][j] = Call("create", j + 1) /\ s[1][N + j] = Call("join", j + 1)
      /\ Len(last) \in {0, 1} /\ (Len(last) = 1 => s[1][2 * N + 1] = Call("free", 0))
  BY PoolIs
<1>2. N \in Nat /\ DOMAIN w = 1 .. N /\ \A t \in 1 .. N : w[t] \in Seq(QuietCall)
  OBVIOUS
<1> HIDE DEF s, N
<1>3. DOMAIN s = 1 .. N + 1 /\ \A t \in 1 .. N + 1 : s[t] \in Seq(AnyCall)
  BY <1>1, <1>2
<1>4. \A t \in 1 .. N + 1 : Len(s[t]) \in Nat /\ DOMAIN s[t] = 1 .. Len(s[t])
  BY <1>3
<1>5. Scripts(s)
  BY <1>1, <1>2, <1>3, <1>4 DEF Scripts
<1>6. ASSUME NEW x \in 1 .. N
      PROVE  /\ x \in DOMAIN s[1] /\ N + x \in DOMAIN s[1]
             /\ s[1][x].do = "create" /\ s[1][x].of = x + 1
             /\ s[1][N + x].do = "join" /\ s[1][N + x].of = x + 1
  <2>1. x \in DOMAIN s[1] /\ N + x \in DOMAIN s[1]
    <3>1. 1 \in 1 .. N + 1 /\ x \in 1 .. N + N /\ N + x \in 1 .. N + N
      BY <1>2
    <3>2. DOMAIN s[1] = 1 .. 2 * N + Len(last) /\ (Len(last) = 0 \/ Len(last) = 1)
      BY <1>1, <1>4, <3>1
    <3> QED BY <1>2, <3>1, <3>2
  <2>2. s[1][x] = Call("create", x + 1) /\ s[1][N + x] = Call("join", x + 1)
    BY <1>1
  <2> QED BY <2>1, <2>2 DEF Call
<1>7. ASSUME NEW t \in DOMAIN s, NEW j \in DOMAIN s[t]
      PROVE  \/ t # 1 /\ s[t][j].do \in Quiet
             \/ t = 1 /\ j \in 1 .. N /\ s[t][j].do = "create" /\ s[t][j].of = j + 1
             \/ t = 1 /\ j \in N + 1 .. 2 * N /\ s[t][j].do = "join" /\ s[t][j].of = (j - N) + 1
             \/ t = 1 /\ j = 2 * N + 1 /\ s[t][j].do = "free"
  <2>1. CASE t # 1
    <3>1. t - 1 \in 1 .. N /\ s[t] = w[t - 1]
      <4>1. t - 1 \in 1 .. N
        BY <1>2, <1>3, <2>1
      <4>2. s[(t - 1) + 1] = w[t - 1]
        BY <1>1, <4>1
      <4>3. (t - 1) + 1 = t
        BY <1>2, <1>3
      <4> QED BY <4>1, <4>2, <4>3
    <3>2. s[t] \in Seq(QuietCall)
      BY <1>2, <3>1
    <3>3. s[t][j] \in QuietCall
      BY <3>2
    <3> QED BY <2>1, <3>3, QuietIs DEF Quiet
  <2>2. CASE t = 1
    <3>1. j \in 1 .. 2 * N + Len(last)
      BY <1>1, <1>2, <1>4, <2>2
    <3>2. CASE j \in 1 .. N
      BY <1>6, <2>2, <3>2
    <3>3. CASE j \in N + 1 .. 2 * N
      <4>1. j - N \in 1 .. N /\ N + (j - N) = j
        BY <1>2, <3>3
      <4>2. s[1][N + (j - N)].do = "join" /\ s[1][N + (j - N)].of = (j - N) + 1
        BY <1>6, <4>1
      <4> QED BY <2>2, <3>3, <4>1, <4>2
    <3>4. CASE j \notin 1 .. 2 * N
      <4>1. j = 2 * N + 1 /\ Len(last) = 1
        <5>1. Len(last) = 0 \/ Len(last) = 1
          BY <1>1
        <5>2. CASE Len(last) = 0
          <6>1. j \in 1 .. 2 * N + 0 /\ 2 * N + 0 = 2 * N
            BY <1>2, <3>1, <5>2
          <6> QED BY <3>4, <6>1
        <5>3. CASE Len(last) = 1
          <6>1. j \in 1 .. 2 * N + 1
            BY <3>1, <5>3
          <6>2. N \in Nat /\ j \in Int /\ 1 <= j /\ j <= 2 * N + 1 /\ ~(j <= 2 * N)
            BY <1>2, <3>4, <6>1
          <6>3. j = 2 * N + 1
            BY <6>2, OneMore
          <6> QED BY <5>3, <6>3
        <5> QED BY <5>1, <5>2, <5>3
      <4>2. s[1][j] = Call("free", 0)
        BY <1>1, <4>1
      <4> QED BY <2>2, <4>1, <4>2 DEF Call
    <3> QED BY <1>2, <3>1, <3>2, <3>3, <3>4
  <2> QED BY <2>1, <2>2
<1>8. PoolCalls(s, N)
  BY <1>1, <1>2, <1>5, <1>6, <1>7 DEF PoolCalls
<1> QED BY <1>8 DEF s, N

(* A pool is orderly: each thread is created before it is joined, and the  *)
(* memory is freed after the joins.                                        *)
LEMMA PoolOrderly ==
  ASSUME NEW s, NEW N, PoolCalls(s, N)
  PROVE  Orderly(s) /\ Waited(s) /\ Deaf(s)
<1>1. \A t \in DOMAIN s : \A j \in DOMAIN s[t] :
       \/ t # 1 /\ s[t][j].do \in Quiet
       \/ t = 1 /\ j \in 1 .. N /\ s[t][j].do = "create" /\ s[t][j].of = j + 1
       \/ t = 1 /\ j \in N + 1 .. 2 * N /\ s[t][j].do = "join" /\ s[t][j].of = (j - N) + 1
       \/ t = 1 /\ j = 2 * N + 1 /\ s[t][j].do = "free"
  BY DEF PoolCalls
<1>2. \A x \in 1 .. N : /\ x \in DOMAIN s[1] /\ N + x \in DOMAIN s[1]
                        /\ s[1][x].do = "create" /\ s[1][x].of = x + 1
                        /\ s[1][N + x].do = "join" /\ s[1][N + x].of = x + 1
  BY DEF PoolCalls
<1>3. Scripts(s) /\ N \in Nat /\ DOMAIN s = 1 .. N + 1 /\ 1 \in DOMAIN s
  BY DEF PoolCalls, Scripts
<1>4. ASSUME NEW t \in DOMAIN s, NEW j \in DOMAIN s[t], s[t][j].do \in Making
      PROVE  t = 1 /\ j \in 1 .. N /\ s[t][j].do = "create" /\ s[t][j].of = j + 1
  BY <1>1, <1>4 DEF Making, Quiet
<1>5. MadeOnce(s)
  <2>1. ASSUME NEW t \in DOMAIN s, NEW j \in DOMAIN s[t], s[t][j].do \in Making PROVE s[t][j].of # 1
    BY <1>3, <1>4, <2>1
  <2>2. ASSUME NEW t \in DOMAIN s, NEW u \in DOMAIN s, NEW j \in DOMAIN s[t], NEW m \in DOMAIN s[u],
               s[t][j].do \in Making, s[u][m].do \in Making, s[t][j].of = s[u][m].of
        PROVE  t = u /\ j = m
    BY <1>3, <1>4, <2>2
  <2> QED BY <2>1, <2>2 DEF MadeOnce
<1>6. LeavesNobody(s)
  BY <1>1 DEF LeavesNobody, Quiet
<1>7. ParentsEnd(s) /\ Waited(s)
  BY <1>1 DEF ParentsEnd, Waited, Quiet, Forking
<1>8. JoinsCreated(s)
  <2> SUFFICES ASSUME NEW t \in DOMAIN s, NEW j \in DOMAIN s[t], s[t][j].do = "join"
               PROVE  /\ t = 1 /\ s[t][j].of \in DOMAIN s
                      /\ \E m \in DOMAIN s[1] :
                           /\ s[1][m].do = "create" /\ s[1][m].of = s[t][j].of
                           /\ \A x \in DOMAIN s[1] : s[1][x].do # "send"
                           /\ m < j
    BY <1>3 DEF JoinsCreated
  <2>1. t = 1 /\ j \in N + 1 .. 2 * N /\ s[t][j].of = (j - N) + 1
    BY <1>1 DEF Quiet
  <2>2. j - N \in 1 .. N /\ j - N < j
    <3> HIDE DEF Scripts
    <3>1. N \in Nat /\ j \in N + 1 .. 2 * N
      BY <1>3, <2>1
    <3> QED BY <3>1
  <2>3. j - N \in DOMAIN s[1] /\ s[1][j - N].do = "create" /\ s[1][j - N].of = (j - N) + 1
    BY <1>2, <2>2
  <2>4. \A x \in DOMAIN s[1] : s[1][x].do # "send"
    BY <1>1, <1>3
  <2> QED BY <1>3, <2>1, <2>2, <2>3, <2>4
<1>9. FreesJoined(s)
  <2> SUFFICES ASSUME NEW t \in DOMAIN s, NEW j \in DOMAIN s[t], s[t][j].do = "free",
                      NEW u \in DOMAIN s, NEW m \in DOMAIN s[u], s[u][m].do = "emit"
               PROVE  t = 1 /\ \E x \in 1 .. j - 1 : s[1][x].do = "join" /\ s[1][x].of = u
    <3>1. ASSUME NEW t \in DOMAIN s, NEW j \in DOMAIN s[t], s[t][j].do = "free" PROVE t = 1
      BY <1>1, <3>1 DEF Quiet
    <3> QED BY <3>1 DEF FreesJoined
  <2>1. t = 1 /\ j = 2 * N + 1
    BY <1>1 DEF Quiet
  <2>2. u - 1 \in 1 .. N
    BY <1>1, <1>3
  <2>3. s[1][N + (u - 1)].do = "join" /\ s[1][N + (u - 1)].of = (u - 1) + 1
    BY <1>2, <2>2
  <2>4. N + (u - 1) \in 1 .. j - 1 /\ (u - 1) + 1 = u
    BY <1>3, <2>1, <2>2
  <2> QED BY <2>1, <2>3, <2>4
<1>10. Deaf(s)
  BY <1>1 DEF Deaf, Quiet
<1> QED BY <1>3, <1>5, <1>6, <1>7, <1>8, <1>9, <1>10 DEF Orderly

(* Sleeping, counting, recording and the barrier are quiet. *)
LEMMA QuietCalls ==
  /\ sleep \in QuietCall /\ Call("emit", 0) \in QuietCall
  /\ \A x \in Nat : hog(x) \in QuietCall /\ Call("barrier", x) \in QuietCall
BY DEF QuietCall, sleep, hog, Call

(* The threads of heartbeat.c and burnust.c *)
LEMMA BeatIs ==
  /\ <<sleep>> \in Seq(QuietCall) /\ Len(<<sleep>>) = 1
  /\ <<Call("emit", 0), sleep>> \in Seq(QuietCall) /\ Len(<<Call("emit", 0), sleep>>) = 2
BY QuietCalls

(* The threads of heartbeat.c and burnust.c make quiet calls. *)
LEMMA HeartbeatQuiet ==
  ASSUME NEW rep \in 1 .. REP
  PROVE  heartbeat_thread(rep) \in Seq(QuietCall) /\ burnust_thread(rep) \in Seq(QuietCall)
<1> DEFINE first == <<sleep>>
           beat  == <<Call("emit", 0), sleep>>
           beats == Times(rep, beat)
           burn  == Times(rep, beats)
<1>1. rep \in Nat \ {0}
  BY WorkloadsAssumption
<1>2. first \in Seq(QuietCall) /\ beat \in Seq(QuietCall) /\ Len(beat) = 2 /\ beat # <<>>
  BY BeatIs
<1> HIDE DEF first, beat
<1>3. beats \in Seq(QuietCall) /\ Len(beats) = rep * Len(beat)
  BY <1>1, <1>2, TimesIs
<1>4. Len(beats) > 0
  BY <1>1, <1>2, <1>3
<1>5. beats # <<>>
  BY <1>3, <1>4
<1> HIDE DEF beats
<1>6. burn \in Seq(QuietCall)
  BY <1>1, <1>3, <1>5, TimesIs
<1> HIDE DEF burn
<1>7. first \o beats \in Seq(QuietCall) /\ first \o burn \in Seq(QuietCall)
  BY <1>2, <1>3, <1>6
<1> QED BY <1>7 DEF heartbeat_thread, burnust_thread, burn, beats, beat, first

(* A pool of equal threads *)
LEMMA SamePool ==
  ASSUME NEW a \in Seq(QuietCall), NEW N \in Nat, NEW last \in {<<>>, <<Call("free", 0)>>}
  PROVE  LET s == Pool([x \in 1 .. N |-> a], last) IN Orderly(s) /\ Waited(s) /\ Deaf(s)
<1> DEFINE T == Seq(QuietCall)
           w == [x \in 1 .. N |-> a]
<1>1. a \in T
  OBVIOUS
<1> HIDE DEF T
<1>2. w \in [1 .. N -> T]
  BY <1>1
<1>3. w \in Seq(T)
  BY <1>2, Listed
<1> HIDE DEF w
<1>4. PoolCalls(Pool(w, last), Len(w))
  BY <1>3, PoolHasCalls DEF T
<1>5. Orderly(Pool(w, last)) /\ Waited(Pool(w, last)) /\ Deaf(Pool(w, last))
  BY <1>4, PoolOrderly
<1> QED BY <1>5 DEF w

(* A program that gives up at once. *)
LEMMA OneTask ==
  ASSUME NEW s, s = << <<>> >> \/ s = << <<Call("free", 0)>> >> \/ s = << <<sleep>> >>
  PROVE  Orderly(s) /\ Waited(s) /\ Deaf(s)
<1>1. /\ Scripts(s) /\ DOMAIN s = {1}
      /\ \A j \in DOMAIN s[1] : s[1][j].do \in {"free", "sleep"}
  BY DEF Scripts, Call, sleep
<1>2. MadeOnce(s)
  BY <1>1 DEF MadeOnce, Making
<1>3. LeavesNobody(s)
  BY <1>1 DEF LeavesNobody
<1>4. ParentsEnd(s) /\ JoinsCreated(s) /\ Waited(s)
  BY <1>1 DEF ParentsEnd, JoinsCreated, Waited, Forking
<1>5. FreesJoined(s)
  BY <1>1 DEF FreesJoined
<1>6. Deaf(s)
  BY <1>1 DEF Deaf
<1> QED BY <1>1, <1>2, <1>3, <1>4, <1>5, <1>6 DEF Orderly

(* heartbeat.c and burnust.c, also when they refuse their options. *)
LEMMA BeatsOrderly ==
  ASSUME NEW s \in heartbeat \cup burnust
  PROVE  Orderly(s) /\ Waited(s) /\ Deaf(s)
<1>1. CASE s = << <<>> >> \/ s = << <<Call("free", 0)>> >>
  BY <1>1, OneTask
<1>2. ASSUME NEW N \in 1 .. THREADS - 1, NEW rep \in 1 .. REP
      PROVE  /\ Orderly(Pool([x \in 1 .. N |-> heartbeat_thread(rep)], <<Call("free", 0)>>))
             /\ Waited(Pool([x \in 1 .. N |-> heartbeat_thread(rep)], <<Call("free", 0)>>))
             /\ Deaf(Pool([x \in 1 .. N |-> heartbeat_thread(rep)], <<Call("free", 0)>>))
             /\ Orderly(Pool([x \in 1 .. N |-> burnust_thread(rep)], <<>>))
             /\ Waited(Pool([x \in 1 .. N |-> burnust_thread(rep)], <<>>))
             /\ Deaf(Pool([x \in 1 .. N |-> burnust_thread(rep)], <<>>))
  <2>1. N \in Nat
    BY WorkloadsAssumption
  <2> QED BY <2>1, HeartbeatQuiet, SamePool, Zenon
<1>3. CASE s \in heartbeat
  <2>1. \/ s = << <<Call("free", 0)>> >>
        \/ \E N \in 1 .. THREADS - 1, rep \in 1 .. REP :
              s = Pool([x \in 1 .. N |-> heartbeat_thread(rep)], <<Call("free", 0)>>)
    <3> DEFINE P(N, rep) == Pool([x \in 1 .. N |-> heartbeat_thread(rep)], <<Call("free", 0)>>)
    <3>1. heartbeat = {<< <<Call("free", 0)>> >>} \cup {P(N, rep) : N \in 1 .. THREADS - 1, rep \in 1 .. REP}
      BY DEF heartbeat
    <3> HIDE DEF P
    <3>2. s = << <<Call("free", 0)>> >> \/ \E N \in 1 .. THREADS - 1, rep \in 1 .. REP : s = P(N, rep)
      BY <1>3, <3>1
    <3> QED BY <3>2 DEF P
  <2> QED BY <1>1, <1>2, <2>1, Zenon
<1>4. CASE s \in burnust
  <2>1. \/ s = << <<>> >>
        \/ \E N \in 1 .. THREADS - 1, rep \in 1 .. REP :
              s = Pool([x \in 1 .. N |-> burnust_thread(rep)], <<>>)
    <3> DEFINE P(N, rep) == Pool([x \in 1 .. N |-> burnust_thread(rep)], <<>>)
    <3>1. burnust = {<< <<>> >>} \cup {P(N, rep) : N \in 1 .. THREADS - 1, rep \in 1 .. REP}
      BY DEF burnust
    <3> HIDE DEF P
    <3>2. s = << <<>> >> \/ \E N \in 1 .. THREADS - 1, rep \in 1 .. REP : s = P(N, rep)
      BY <1>4, <3>1
    <3> QED BY <3>2 DEF P
  <2> QED BY <1>1, <1>2, <2>1, Zenon
<1> QED BY <1>3, <1>4

(* bossthread.c *)
LEMMA BossOrderly ==
  ASSUME NEW s \in bossthread
  PROVE  Orderly(s) /\ Waited(s) /\ Deaf(s)
<1> DEFINE T == Seq(QuietCall)
           w == [x \in 1 .. THREADS |-> <<Call("emit", 0), hog(x), Call("emit", 0)>>]
<1>1. \A x \in 1 .. THREADS : <<Call("emit", 0), hog(x), Call("emit", 0)>> \in T
  BY WorkloadsAssumption, QuietCalls
<1> HIDE DEF T
<1>2. w \in [1 .. THREADS -> T]
  BY <1>1
<1>3. w \in Seq(T) /\ s = Pool(w, <<>>)
  BY <1>2, Listed, WorkloadsAssumption DEF bossthread
<1> HIDE DEF w
<1>4. PoolCalls(Pool(w, <<>>), Len(w))
  BY <1>3, PoolHasCalls DEF T
<1> QED BY <1>3, <1>4, PoolOrderly

(* What thread x of imbalance.c does. *)
LEMMA CyclesAre ==
  ASSUME NEW x \in 0 .. THREADS - 1
  PROVE  /\ Cycles(x) \in Seq(QuietCall) /\ Len(Cycles(x)) = 2 * CYCLES
         /\ \A c \in 0 .. CYCLES - 1 :
              /\ Cycles(x)[2 * c + 1] = hog(((x + c) % THREADS) + 1)
              /\ Cycles(x)[2 * c + 2] = Call("barrier", THREADS)
<1>1. CYCLES \in Nat \ {0} /\ THREADS \in Nat \ {0} /\ x \in Nat
  BY WorkloadsAssumption
<1> DEFINE f(j) == Cycle(x, (j - 1) \div 2)[((j - 1) % 2) + 1]
<1>2. \A c \in Nat : Cycle(x, c)[1] = hog(((x + c) % THREADS) + 1) /\ Cycle(x, c)[2] = Call("barrier", THREADS)
  BY DEF Cycle
<1>3. \A c \in Nat : Cycle(x, c)[1] \in QuietCall /\ Cycle(x, c)[2] \in QuietCall
  <2>1. \A c \in Nat : ((x + c) % THREADS) + 1 \in Nat
    <3> SUFFICES ASSUME NEW c \in Nat PROVE ((x + c) % THREADS) + 1 \in Nat
      OBVIOUS
    <3>1. x + c \in Nat
      BY <1>1
    <3>2. (x + c) % THREADS \in 0 .. THREADS - 1
      BY <1>1, <3>1, Remainder
    <3> QED BY <1>1, <3>2
  <2> QED BY <1>1, <1>2, <2>1, QuietCalls
<1>4. ASSUME NEW j \in 1 .. 2 * CYCLES PROVE f(j) \in QuietCall
  <2>1. j - 1 \in Nat
    BY <1>1
  <2>2. (j - 1) \div 2 \in Nat /\ ((j - 1) % 2 = 0 \/ (j - 1) % 2 = 1)
    BY <2>1
  <2> QED BY <1>3, <2>2
<1>5. Cycles(x) = [j \in 1 .. 2 * CYCLES |-> f(j)]
  BY DEF Cycles
<1> HIDE DEF f
<1>6. Cycles(x) \in [1 .. 2 * CYCLES -> QuietCall]
  BY <1>4, <1>5
<1>7. Cycles(x) \in Seq(QuietCall) /\ Len(Cycles(x)) = 2 * CYCLES
  <2>1. 2 * CYCLES \in Nat
    BY <1>1
  <2> QED BY <1>6, <2>1, Listed
<1>8. ASSUME NEW c \in 0 .. CYCLES - 1
      PROVE  /\ Cycles(x)[2 * c + 1] = hog(((x + c) % THREADS) + 1)
             /\ Cycles(x)[2 * c + 2] = Call("barrier", THREADS)
  <2>1. c \in Nat /\ 2 * c + 1 \in 1 .. 2 * CYCLES /\ 2 * c + 2 \in 1 .. 2 * CYCLES
    BY <1>1
  <2>2. /\ ((2 * c + 1) - 1) \div 2 = c /\ ((2 * c + 1) - 1) % 2 = 0
        /\ ((2 * c + 2) - 1) \div 2 = c /\ ((2 * c + 2) - 1) % 2 = 1
    BY <2>1
  <2>3. f(2 * c + 1) = Cycle(x, c)[1] /\ f(2 * c + 2) = Cycle(x, c)[2]
    BY <2>2 DEF f
  <2> QED BY <1>2, <1>5, <2>1, <2>3
<1> QED BY <1>7, <1>8

(* imbalance.c is a pool whose threads run cycles. *)
LEMMA ImbalanceIs ==
  ASSUME NEW s \in imbalance
  PROVE  /\ PoolCalls(s, THREADS) /\ Orderly(s) /\ Waited(s) /\ Deaf(s)
         /\ \A t \in 2 .. THREADS + 1 : s[t] = Cycles(t - 2)
<1> DEFINE T == Seq(QuietCall)
           w == [x \in 1 .. THREADS |-> Cycles(x - 1)]
<1>1. THREADS \in Nat \ {0}
  BY WorkloadsAssumption
<1>2. \A x \in 1 .. THREADS : Cycles(x - 1) \in T
  BY <1>1, CyclesAre
<1> HIDE DEF T
<1>3. w \in [1 .. THREADS -> T]
  BY <1>2
<1>4. w \in Seq(T) /\ Len(w) = THREADS /\ s = Pool(w, <<>>)
  BY <1>1, <1>3, Listed DEF imbalance
<1>5. \A x \in 1 .. THREADS : w[x] = Cycles(x - 1)
  OBVIOUS
<1> HIDE DEF w
<1>6. PoolCalls(s, THREADS)
  BY <1>4, PoolHasCalls DEF T
<1>7. \A x \in 1 .. THREADS : s[x + 1] = w[x]
  BY <1>4, PoolIs DEF T
<1>8. ASSUME NEW t \in 2 .. THREADS + 1 PROVE s[t] = Cycles(t - 2)
  <2>1. t - 1 \in 1 .. THREADS /\ (t - 1) + 1 = t /\ (t - 1) - 1 = t - 2
    BY <1>1
  <2> QED BY <1>5, <1>7, <2>1
<1> QED BY <1>6, <1>8, PoolOrderly

(* cpm1.c *)
LEMMA Cpm1Orderly ==
  ASSUME NEW s, s = << <<Call("fork", 2), hog(4), Call("wait1", 2), hog(1)>>,
                        <<hog(1), Call("fork", 3), Call("wait1", 3), hog(2)>>,
                        <<hog(2)>> >>
  PROVE  Orderly(s) /\ Waited(s) /\ Deaf(s)
<1>1. Scripts(s)
  BY DEF Scripts
<1>2. MadeOnce(s)
  BY DEF MadeOnce, Making, Call, hog
<1>3. LeavesNobody(s)
  BY DEF LeavesNobody, Making, Call, hog
<1>4. ParentsEnd(s)
  BY DEF ParentsEnd, Forking, Call, hog
<1>5. JoinsCreated(s) /\ FreesJoined(s)
  BY DEF JoinsCreated, FreesJoined, Call, hog
<1>6. Waited(s)
  BY DEF Waited, Forking, Waiting, Call, hog
<1>7. Deaf(s)
  BY DEF Deaf, Call, hog
<1> QED BY <1>1, <1>2, <1>3, <1>4, <1>5, <1>6, <1>7 DEF Orderly

(* cpm2.c *)
LEMMA Cpm2Orderly ==
  ASSUME NEW s, s = << <<Call("fork", 2), hog(2), Call("wait1", 2)>>, <<hog(1)>> >>
  PROVE  Orderly(s) /\ Waited(s) /\ Deaf(s)
<1>1. Scripts(s)
  BY DEF Scripts
<1>2. MadeOnce(s)
  BY DEF MadeOnce, Making, Call, hog
<1>3. LeavesNobody(s)
  BY DEF LeavesNobody, Making, Call, hog
<1>4. ParentsEnd(s)
  BY DEF ParentsEnd, Forking, Call, hog
<1>5. JoinsCreated(s) /\ FreesJoined(s)
  BY DEF JoinsCreated, FreesJoined, Call, hog
<1>6. Waited(s)
  BY DEF Waited, Forking, Waiting, Call, hog
<1>7. Deaf(s)
  BY DEF Deaf, Call, hog
<1> QED BY <1>1, <1>2, <1>3, <1>4, <1>5, <1>6, <1>7 DEF Orderly

(* reparent.c is orderly, but does not wait for its child. *)
LEMMA ReparentOrderly ==
  ASSUME NEW s, s = << <<Call("fork", 2)>>, <<sleep>> >>
  PROVE  Orderly(s) /\ Deaf(s)
<1>1. Scripts(s)
  BY DEF Scripts
<1>2. MadeOnce(s)
  BY DEF MadeOnce, Making, Call, sleep
<1>3. LeavesNobody(s)
  BY DEF LeavesNobody, Making, Call, sleep
<1>4. ParentsEnd(s)
  BY DEF ParentsEnd, Forking, Call, sleep
<1>5. JoinsCreated(s) /\ FreesJoined(s)
  BY DEF JoinsCreated, FreesJoined, Call, sleep
<1>6. Deaf(s)
  BY DEF Deaf, Call, sleep
<1> QED BY <1>1, <1>2, <1>3, <1>4, <1>5, <1>6 DEF Orderly

(* dthread.c: main joins the first thread, which has made the second by    *)
(* then, and then the second.                                              *)
LEMMA DthreadOrderly ==
  ASSUME NEW s, s = << <<Call("create", 2), Call("join", 2), Call("join", 3)>>,
                        <<sleep, Call("create", 3), sleep>>,
                        <<sleep>> >>
  PROVE  Orderly(s) /\ Waited(s) /\ Deaf(s)
<1>1. Scripts(s)
  BY DEF Scripts
<1>2. MadeOnce(s)
  BY DEF MadeOnce, Making, Call, sleep
<1>3. LeavesNobody(s)
  BY DEF LeavesNobody, Making, Call, sleep
<1>4. ParentsEnd(s)
  BY DEF ParentsEnd, Forking, Call, sleep
<1>5. JoinsCreated(s) /\ FreesJoined(s)
  BY DEF JoinsCreated, FreesJoined, Call, sleep
<1>6. Waited(s)
  BY DEF Waited, Forking, Waiting, Call, sleep
<1>7. Deaf(s)
  BY DEF Deaf, Call, sleep
<1> QED BY <1>1, <1>2, <1>3, <1>4, <1>5, <1>6, <1>7 DEF Orderly

(* mutex.c *)
LEMMA MutexOrderly ==
  ASSUME NEW s, s = << <<Call("create", 2), sleep, Call("create", 3), Call("join", 2), Call("join", 3)>>,
                        <<Call("lock", "a"), sleep, Call("unlock", "a")>>,
                        <<Call("lock", "a"), sleep, Call("unlock", "a")>> >>
  PROVE  Orderly(s) /\ Waited(s) /\ Deaf(s)
<1>1. Scripts(s)
  BY DEF Scripts
<1>2. MadeOnce(s)
  BY DEF MadeOnce, Making, Call, sleep
<1>3. LeavesNobody(s)
  BY DEF LeavesNobody, Making, Call, sleep
<1>4. ParentsEnd(s)
  BY DEF ParentsEnd, Forking, Call, sleep
<1>5. JoinsCreated(s) /\ FreesJoined(s)
  BY DEF JoinsCreated, FreesJoined, Call, sleep
<1>6. Waited(s)
  BY DEF Waited, Forking, Waiting, Call, sleep
<1>7. Deaf(s)
  BY DEF Deaf, Call, sleep
<1> QED BY <1>1, <1>2, <1>3, <1>4, <1>5, <1>6, <1>7 DEF Orderly

(* deadlock.c *)
LEMMA DeadlockOrderly ==
  ASSUME NEW s, s = << <<Call("create", 2), Call("create", 3), sleep, Call("kill", 2), Call("kill", 3)>>,
                        <<Call("lock", "a"), sleep, Call("lock", "b")>>,
                        <<Call("lock", "b"), sleep, Call("lock", "a")>> >>
  PROVE  Orderly(s) /\ Waited(s) /\ Deaf(s)
<1>1. Scripts(s)
  BY DEF Scripts
<1>2. MadeOnce(s)
  BY DEF MadeOnce, Making, Call, sleep
<1>3. LeavesNobody(s)
  BY DEF LeavesNobody, Making, Call, sleep
<1>4. ParentsEnd(s)
  BY DEF ParentsEnd, Forking, Call, sleep
<1>5. JoinsCreated(s) /\ FreesJoined(s)
  BY DEF JoinsCreated, FreesJoined, Call, sleep
<1>6. Waited(s)
  BY DEF Waited, Forking, Waiting, Call, sleep
<1>7. Deaf(s)
  BY DEF Deaf, Call, sleep
<1> QED BY <1>1, <1>2, <1>3, <1>4, <1>5, <1>6, <1>7 DEF Orderly

(* The calls of lockfight.c *)
LEMMA LockfightIs ==
  ASSUME NEW s \in lockfight
  PROVE  /\ Scripts(s)
         /\ \A t \in DOMAIN s : \A j \in DOMAIN s[t] : s[t][j].do \in {"flock", "sleep", "unlock"}
<1> DEFINE ok == <<Call("flock", "a"), sleep, Call("unlock", "a"), sleep>>
<1>1. PICK a, b : s = <<a, b>> /\ (a = <<>> \/ a = ok) /\ (b = <<>> \/ b = ok)
  BY DEF lockfight
<1>2. ASSUME NEW x, x = <<>> \/ x = ok
      PROVE  /\ Len(x) \in Nat /\ DOMAIN x = 1 .. Len(x)
             /\ \A j \in DOMAIN x : x[j].do \in {"flock", "sleep", "unlock"}
  <2>1. CASE x = <<>>
    BY <2>1
  <2>2. CASE x = ok
    BY <2>2 DEF Call, sleep
  <2> QED BY <1>2, <2>1, <2>2
<1> HIDE DEF ok
<1>3. Len(s) = 2 /\ DOMAIN s = 1 .. 2 /\ s[1] = a /\ s[2] = b
  BY <1>1
<1>4. \A t \in DOMAIN s : t = 1 \/ t = 2
  BY <1>3
<1> QED BY <1>1, <1>2, <1>3, <1>4 DEF Scripts

(* lockfight.c *)
LEMMA LockfightOrderly ==
  ASSUME NEW s \in lockfight
  PROVE  Orderly(s) /\ Waited(s) /\ Deaf(s)
<1>3. /\ Scripts(s)
      /\ \A t \in DOMAIN s : \A j \in DOMAIN s[t] : s[t][j].do \in {"flock", "sleep", "unlock"}
  BY LockfightIs
<1>4. MadeOnce(s)
  BY <1>3 DEF MadeOnce, Making
<1>5. LeavesNobody(s)
  BY <1>3 DEF LeavesNobody
<1>6. ParentsEnd(s) /\ JoinsCreated(s) /\ Waited(s)
  BY <1>3 DEF ParentsEnd, JoinsCreated, Waited, Forking
<1>7. FreesJoined(s)
  BY <1>3 DEF FreesJoined
<1>8. Deaf(s)
  BY <1>3 DEF Deaf
<1> QED BY <1>3, <1>4, <1>5, <1>6, <1>7, <1>8 DEF Orderly

(* A process of the chain of inception.c *)
LEMMA LinkIs ==
  ASSUME NEW t \in Nat, NEW x, x = <<sleep>> \/ x = <<sleep, Call("fork", t + 1), Call("wait", t + 1)>>
  PROVE  /\ Len(x) \in Nat /\ DOMAIN x = 1 .. Len(x)
         /\ \A j \in DOMAIN x :
              \/ x[j].do = "sleep"
              \/ /\ j = 2 /\ x[j].do = "fork" /\ x[j].of = t + 1
                 /\ 3 \in DOMAIN x /\ x[3].do = "wait" /\ x[3].of = t + 1
              \/ j = 3 /\ x[j].do = "wait"
<1>1. CASE x = <<sleep>>
  BY <1>1 DEF sleep, Call
<1>2. CASE x = <<sleep, Call("fork", t + 1), Call("wait", t + 1)>>
  BY <1>2 DEF sleep, Call
<1> QED BY <1>1, <1>2

(* A call before none, or before two others. *)
LEMMA Prepend ==
  ASSUME NEW x, NEW a, NEW b
  PROVE  <<x>> \o <<>> = <<x>> /\ <<x>> \o <<a, b>> = <<x, a, b>>
<1> DEFINE c == <<x>> \o <<a, b>>
<1>1. <<x>> \o <<>> = <<x>>
  OBVIOUS
<1>2. c \in Seq({x, a, b}) /\ Len(c) = 3 /\ c[1] = x /\ c[2] = a /\ c[3] = b
  OBVIOUS
<1> HIDE DEF c
<1>3. c = <<x, a, b>>
  BY <1>2, SMTT(30)
<1> QED BY <1>1, <1>3 DEF c

(* A chain of processes, each of which forks the next and waits for it, of *)
(* any length.                                                             *)
LEMMA ChainOrderly ==
  ASSUME NEW N \in Nat \ {0}, NEW children, NEW s, s = [t \in 1 .. N |-> do_run(t, children)]
  PROVE  Orderly(s) /\ Waited(s) /\ Deaf(s)
<1>1. ASSUME NEW t \in 1 .. N
      PROVE  \/ s[t] = <<sleep>>
             \/ s[t] = <<sleep, Call("fork", t + 1), Call("wait", t + 1)>>
  <2>1. s[t] = <<sleep>> \o spawn_child(t, children - (t - 1))
    BY DEF do_run
  <2>2. \/ spawn_child(t, children - (t - 1)) = <<>>
        \/ spawn_child(t, children - (t - 1)) = <<Call("fork", t + 1), Call("wait", t + 1)>>
    BY DEF spawn_child
  <2> DEFINE a == Call("fork", t + 1)
             b == Call("wait", t + 1)
  <2>3. <<sleep>> \o <<>> = <<sleep>> /\ <<sleep>> \o <<a, b>> = <<sleep, a, b>>
    BY Prepend, Zenon
  <2> QED BY <2>1, <2>2, <2>3, Zenon
<1>2. DOMAIN s = 1 .. N /\ Len(s) = N /\ 1 \in DOMAIN s
  OBVIOUS
<1>3. ASSUME NEW t \in DOMAIN s
      PROVE  /\ t \in Nat \ {0} /\ Len(s[t]) \in Nat /\ DOMAIN s[t] = 1 .. Len(s[t])
             /\ \A j \in DOMAIN s[t] :
                  \/ s[t][j].do = "sleep"
                  \/ /\ j = 2 /\ s[t][j].do = "fork" /\ s[t][j].of = t + 1
                     /\ 3 \in DOMAIN s[t] /\ s[t][3].do = "wait" /\ s[t][3].of = t + 1
                  \/ j = 3 /\ s[t][j].do = "wait"
  <2>1. t \in Nat \ {0}
    BY <1>2
  <2>2. s[t] = <<sleep>> \/ s[t] = <<sleep, Call("fork", t + 1), Call("wait", t + 1)>>
    BY <1>1, <1>2
  <2> DEFINE x == s[t]
  <2>3. x = <<sleep>> \/ x = <<sleep, Call("fork", t + 1), Call("wait", t + 1)>>
    BY <2>2
  <2> HIDE DEF x
  <2>4. /\ Len(x) \in Nat /\ DOMAIN x = 1 .. Len(x)
        /\ \A j \in DOMAIN x :
              \/ x[j].do = "sleep"
              \/ /\ j = 2 /\ x[j].do = "fork" /\ x[j].of = t + 1
                 /\ 3 \in DOMAIN x /\ x[3].do = "wait" /\ x[3].of = t + 1
              \/ j = 3 /\ x[j].do = "wait"
    BY <2>1, <2>3, LinkIs
  <2> QED BY <2>1, <2>4 DEF x
<1>4. Scripts(s)
  BY <1>2, <1>3 DEF Scripts
<1>5. MadeOnce(s)
  <2>1. ASSUME NEW t \in DOMAIN s, NEW j \in DOMAIN s[t], s[t][j].do \in Making
        PROVE  j = 2 /\ s[t][j].of = t + 1 /\ t \in Nat \ {0}
    BY <1>3, <2>1 DEF Making
  <2>2. ASSUME NEW t \in DOMAIN s, NEW j \in DOMAIN s[t], s[t][j].do \in Making PROVE s[t][j].of # 1
    BY <2>1, <2>2
  <2>3. ASSUME NEW t \in DOMAIN s, NEW u \in DOMAIN s, NEW j \in DOMAIN s[t], NEW m \in DOMAIN s[u],
               s[t][j].do \in Making, s[u][m].do \in Making, s[t][j].of = s[u][m].of
        PROVE  t = u /\ j = m
    BY <2>1, <2>3
  <2> QED BY <2>2, <2>3 DEF MadeOnce
<1>6. LeavesNobody(s)
  BY <1>3 DEF LeavesNobody, Making
<1>7. ParentsEnd(s) /\ JoinsCreated(s) /\ FreesJoined(s)
  BY <1>3 DEF ParentsEnd, JoinsCreated, FreesJoined, Forking
<1>8. Waited(s)
  <2> SUFFICES ASSUME NEW t \in DOMAIN s, NEW j \in DOMAIN s[t], s[t][j].do \in Forking
               PROVE  \E m \in DOMAIN s[t] : m > j /\ s[t][m].do \in Waiting /\ s[t][m].of = s[t][j].of
    BY DEF Waited
  <2>1. j = 2 /\ s[t][j].of = t + 1 /\ 3 \in DOMAIN s[t] /\ s[t][3].do = "wait" /\ s[t][3].of = t + 1
    BY <1>3 DEF Forking
  <2> QED BY <2>1 DEF Waiting
<1>9. Deaf(s)
  BY <1>3 DEF Deaf
<1> QED BY <1>4, <1>5, <1>6, <1>7, <1>8, <1>9 DEF Orderly

(* inception.c *)
LEMMA InceptionOrderly ==
  ASSUME NEW s \in inception
  PROVE  Orderly(s) /\ Waited(s) /\ Deaf(s)
<1>1. \/ \E N \in 1 .. 4 : s = [t \in 1 .. N |-> do_run(t, N)]
      \/ s = [t \in 1 .. 4 |-> do_run(t, 0)]
      \/ s = << <<>> >> \/ s = << <<sleep>> >>
  BY DEF inception
<1>2. CASE \E N \in 1 .. 4 : s = [t \in 1 .. N |-> do_run(t, N)]
  <2>1. PICK N \in 1 .. 4 : s = [t \in 1 .. N |-> do_run(t, N)]
    BY <1>2
  <2>2. N \in Nat \ {0}
    OBVIOUS
  <2> QED BY <2>1, <2>2, ChainOrderly, Zenon
<1>3. CASE s = [t \in 1 .. 4 |-> do_run(t, 0)]
  <2>1. 4 \in Nat \ {0}
    OBVIOUS
  <2> QED BY <1>3, <2>1, ChainOrderly, Zenon
<1> QED BY <1>1, <1>2, <1>3, OneTask

(* What the server of cpm3.c has sent, and what its client has asked for,  *)
(* before the call at a position of the script.                            *)
SentBefore  == <<0, 0, 0, 2, 3, 4, 6, 6, 8, 9, 10, 12, 12, 14, 15, 16, 18, 18>>
AskedBefore == <<0, 0, 2, 4, 5, 6, 6, 8, 10, 11, 12, 12, 14, 16, 17, 18, 18>>

(* Three rounds of four transfers and a sleep. *)
LEMMA RoundsAre ==
  ASSUME NEW name \in CallNames, NEW a \in Seq(Nat), Len(a) = 4
  PROVE  LET r == Times(3, Each(name, a) \o <<sleep>>)
         IN  /\ r \in Seq(AnyCall) /\ Len(r) = 15
             /\ \A j \in 1 .. 4 : \A c \in 0 .. 2 : r[5 * c + j] = Call(name, a[j])
             /\ \A c \in 0 .. 2 : r[5 * c + 5] = sleep
<1> DEFINE b == Each(name, a)
           z == <<sleep>>
           d == b \o z
           r == Times(3, d)
<1>1. b \in Seq(AnyCall) /\ Len(b) = 4 /\ \A j \in 1 .. 4 : b[j] = Call(name, a[j])
  <2>1. b \in Seq(AnyCall) /\ Len(b) = Len(a) /\ \A j \in 1 .. Len(a) : b[j] = Call(name, a[j])
    BY EachIs
  <2> QED BY <2>1
<1>2. z \in Seq(AnyCall) /\ Len(z) = 1 /\ z[1] = sleep
  <2>1. sleep \in AnyCall
    BY QuietCalls, QuietIs
  <2> QED BY <2>1
<1> HIDE DEF b, z
<1>a. d \in Seq(AnyCall) /\ Len(d) = Len(b) + Len(z) /\ \A j \in 1 .. Len(b) : d[j] = b[j]
  BY <1>1, <1>2, Concat, ZenonT(40)
<1>b. \A j \in 1 .. Len(z) : d[Len(b) + j] = z[j]
  <2>1. b \in Seq(AnyCall) /\ z \in Seq(AnyCall)
    BY <1>1, <1>2
  <2> QED BY <2>1
<1> HIDE DEF d
<1>3. d \in Seq(AnyCall) /\ Len(d) = 5
  BY <1>1, <1>2, <1>a
<1>4. \A j \in 1 .. 4 : d[j] = Call(name, a[j])
  BY <1>1, <1>a
<1>5. d[5] = sleep
  BY <1>1, <1>2, <1>b
<1> HIDE DEF d
<1>6. /\ r \in Seq(AnyCall) /\ Len(r) = 3 * Len(d)
      /\ \A j \in 1 .. 3 * Len(d) : r[j] = d[((j - 1) % Len(d)) + 1]
  <2>1. d # <<>>
    BY <1>3
  <2>2. 3 \in Nat
    OBVIOUS
  <2> QED BY <1>3, <2>1, <2>2, TimesIs, Zenon
<1> HIDE DEF r
<1>7. r \in Seq(AnyCall) /\ Len(r) = 15 /\ \A j \in 1 .. 15 : r[j] = d[((j - 1) % 5) + 1]
  BY <1>3, <1>6
<1>8. ASSUME NEW j \in 1 .. 5, NEW c \in 0 .. 2 PROVE r[5 * c + j] = d[j]
  <2>1. 5 * c + j \in 1 .. 15 /\ ((5 * c + j) - 1) % 5 = j - 1
    OBVIOUS
  <2>2. (j - 1) + 1 = j
    OBVIOUS
  <2> QED BY <1>7, <2>1, <2>2
<1>9. \A j \in 1 .. 4 : \A c \in 0 .. 2 : r[5 * c + j] = Call(name, a[j])
  BY <1>4, <1>8
<1>10. \A c \in 0 .. 2 : r[5 * c + 5] = sleep
  BY <1>5, <1>8
<1> QED BY <1>7, <1>9, <1>10 DEF r, d, b, z

(* The script of the server, and the sums of what it sends. *)
LEMMA ServerIs ==
  /\ Len(server) = 17 /\ DOMAIN server = 1 .. 17
  /\ server[1].do = "listen" /\ server[2].do = "accept"
  /\ \A p \in 3 .. 17 : server[p].do \in {"send", "sleep"}
  /\ \A p \in 1 .. 17 : server[p].do = "send" =>
       server[p].of \in Nat /\ SentBefore[p + 1] = SentBefore[p] + server[p].of
  /\ \A p \in 1 .. 17 : server[p].do # "send" => SentBefore[p + 1] = SentBefore[p]
<1> DEFINE a == <<2, 1, 1, 2>>
           r == Times(3, do_server_run)
           b == make_server_socket
<1>1. a \in Seq(Nat) /\ Len(a) = 4 /\ a[1] = 2 /\ a[2] = 1 /\ a[3] = 1 /\ a[4] = 2 /\ "send" \in CallNames
  BY DEF CallNames
<1> HIDE DEF a
<1>2. do_server_run = Each("send", a) \o <<sleep>>
  BY DEF do_server_run, a
<1>3. /\ r \in Seq(AnyCall) /\ Len(r) = 15
      /\ \A j \in 1 .. 4 : \A c \in 0 .. 2 : r[5 * c + j] = Call("send", a[j])
      /\ \A c \in 0 .. 2 : r[5 * c + 5] = sleep
  BY <1>1, <1>2, RoundsAre, Zenon
<1>4. b \in Seq(AnyCall) /\ Len(b) = 2 /\ b[1] = Call("listen", 0) /\ b[2] = Call("accept", 0)
  <2>1. Call("listen", 0) \in AnyCall /\ Call("accept", 0) \in AnyCall
    BY CallIs DEF CallNames
  <2> QED BY <2>1 DEF make_server_socket
<1> HIDE DEF r, b
<1>5. server = b \o r
  BY DEF server, b, r
<1>6. /\ server \in Seq(AnyCall) /\ Len(server) = Len(b) + Len(r)
      /\ \A j \in 1 .. Len(b) : server[j] = b[j]
  BY <1>3, <1>4, <1>5, Concat, ZenonT(40)
<1>7. \A j \in 1 .. Len(r) : server[Len(b) + j] = r[j]
  <2>1. b \in Seq(AnyCall) /\ r \in Seq(AnyCall)
    BY <1>3, <1>4
  <2> QED BY <1>5, <2>1
<1>8. server \in Seq(AnyCall) /\ Len(server) = 17 /\ server[1] = Call("listen", 0) /\ server[2] = Call("accept", 0)
  BY <1>3, <1>4, <1>6
<1>9. \A j \in 1 .. 15 : server[2 + j] = r[j]
  BY <1>3, <1>4, <1>7
<1>10. /\ r[1] = Call("send", 2) /\ r[2] = Call("send", 1) /\ r[3] = Call("send", 1) /\ r[4] = Call("send", 2)
       /\ r[6] = Call("send", 2) /\ r[7] = Call("send", 1) /\ r[8] = Call("send", 1) /\ r[9] = Call("send", 2)
       /\ r[11] = Call("send", 2) /\ r[12] = Call("send", 1) /\ r[13] = Call("send", 1) /\ r[14] = Call("send", 2)
  <2>1. /\ r[5 * 0 + 1] = Call("send", 2) /\ r[5 * 0 + 2] = Call("send", 1)
        /\ r[5 * 0 + 3] = Call("send", 1) /\ r[5 * 0 + 4] = Call("send", 2)
    BY <1>1, <1>3
  <2>2. /\ r[5 * 1 + 1] = Call("send", 2) /\ r[5 * 1 + 2] = Call("send", 1)
        /\ r[5 * 1 + 3] = Call("send", 1) /\ r[5 * 1 + 4] = Call("send", 2)
    BY <1>1, <1>3
  <2>3. /\ r[5 * 2 + 1] = Call("send", 2) /\ r[5 * 2 + 2] = Call("send", 1)
        /\ r[5 * 2 + 3] = Call("send", 1) /\ r[5 * 2 + 4] = Call("send", 2)
    BY <1>1, <1>3
  <2> QED BY <2>1, <2>2, <2>3
<1>11. r[5] = sleep /\ r[10] = sleep /\ r[15] = sleep
  <2>1. r[5 * 0 + 5] = sleep /\ r[5 * 1 + 5] = sleep /\ r[5 * 2 + 5] = sleep
    BY <1>3
  <2> QED BY <2>1
<1>12. ASSUME NEW j \in 1 .. 15
       PROVE  /\ server[2 + j].do \in {"send", "sleep"}
              /\ server[2 + j].do = "send" =>
                   server[2 + j].of \in Nat /\ SentBefore[j + 3] = SentBefore[j + 2] + server[2 + j].of
              /\ server[2 + j].do # "send" => SentBefore[j + 3] = SentBefore[j + 2]
  <2>1. server[2 + j] = r[j]
    BY <1>9
  <2>2. CASE j \in {1, 2, 3, 4, 6}
    BY <1>10, <2>1, <2>2 DEF Call, SentBefore
  <2>3. CASE j \in {7, 8, 9, 11, 12}
    BY <1>10, <2>1, <2>3 DEF Call, SentBefore
  <2>4. CASE j \in {13, 14}
    BY <1>10, <2>1, <2>4 DEF Call, SentBefore
  <2>5. CASE j \in {5, 10, 15}
    BY <1>11, <2>1, <2>5 DEF Call, sleep, SentBefore
  <2> QED BY <2>2, <2>3, <2>4, <2>5
<1>13. ASSUME NEW p \in 3 .. 17
       PROVE  /\ server[p].do \in {"send", "sleep"}
              /\ server[p].do = "send" =>
                   server[p].of \in Nat /\ SentBefore[p + 1] = SentBefore[p] + server[p].of
              /\ server[p].do # "send" => SentBefore[p + 1] = SentBefore[p]
  <2>1. p - 2 \in 1 .. 15 /\ 2 + (p - 2) = p /\ (p - 2) + 3 = p + 1 /\ (p - 2) + 2 = p
    OBVIOUS
  <2> QED BY <1>12, <2>1
<1>14. server[1].do = "listen" /\ server[2].do = "accept"
  BY <1>8 DEF Call
<1>15. SentBefore[1 + 1] = SentBefore[1] /\ SentBefore[2 + 1] = SentBefore[2]
  BY DEF SentBefore
<1>16. DOMAIN server = 1 .. 17 /\ \A p \in 1 .. 17 : p = 1 \/ p = 2 \/ p \in 3 .. 17
  BY <1>8
<1> QED BY <1>8, <1>13, <1>14, <1>15, <1>16

(* The script of the client, and the sums of what it asks for. *)
LEMMA ClientIs ==
  /\ Len(client) = 16 /\ DOMAIN client = 1 .. 16
  /\ client[1].do = "connect"
  /\ \A p \in 2 .. 16 : client[p].do \in {"recv", "sleep"}
  /\ \A p \in 1 .. 16 : client[p].do = "recv" =>
       client[p].of \in Nat \ {0} /\ AskedBefore[p + 1] <= 18 /\ AskedBefore[p + 1] = AskedBefore[p] + client[p].of
  /\ \A p \in 1 .. 16 : client[p].do # "recv" => AskedBefore[p + 1] = AskedBefore[p]
<1> DEFINE a == <<2, 2, 1, 1>>
           r == Times(3, do_client_run)
           b == make_client_socket
<1>1. a \in Seq(Nat) /\ Len(a) = 4 /\ a[1] = 2 /\ a[2] = 2 /\ a[3] = 1 /\ a[4] = 1 /\ "recv" \in CallNames
  BY DEF CallNames
<1> HIDE DEF a
<1>2. do_client_run = Each("recv", a) \o <<sleep>>
  BY DEF do_client_run, a
<1>3. /\ r \in Seq(AnyCall) /\ Len(r) = 15
      /\ \A j \in 1 .. 4 : \A c \in 0 .. 2 : r[5 * c + j] = Call("recv", a[j])
      /\ \A c \in 0 .. 2 : r[5 * c + 5] = sleep
  BY <1>1, <1>2, RoundsAre, Zenon
<1>4. b \in Seq(AnyCall) /\ Len(b) = 1 /\ b[1] = Call("connect", 0)
  <2>1. Call("connect", 0) \in AnyCall
    BY CallIs DEF CallNames
  <2> QED BY <2>1 DEF make_client_socket
<1> HIDE DEF r, b
<1>5. client = b \o r
  BY DEF client, b, r
<1>6. /\ client \in Seq(AnyCall) /\ Len(client) = Len(b) + Len(r)
      /\ \A j \in 1 .. Len(b) : client[j] = b[j]
  <2>1. b \in Seq(AnyCall) /\ r \in Seq(AnyCall)
    BY <1>3, <1>4
  <2>2. b \o r \in Seq(AnyCall) /\ Len(b \o r) = Len(b) + Len(r) /\ \A j \in 1 .. Len(b) : (b \o r)[j] = b[j]
    BY <2>1
  <2> QED BY <1>5, <2>2
<1>7. \A j \in 1 .. Len(r) : client[Len(b) + j] = r[j]
  <2>1. b \in Seq(AnyCall) /\ r \in Seq(AnyCall)
    BY <1>3, <1>4
  <2> QED BY <1>5, <2>1
<1>8. client \in Seq(AnyCall) /\ Len(client) = 16 /\ client[1] = Call("connect", 0)
  BY <1>3, <1>4, <1>6
<1>9. \A j \in 1 .. 15 : client[1 + j] = r[j]
  BY <1>3, <1>4, <1>7
<1>10. /\ r[1] = Call("recv", 2) /\ r[2] = Call("recv", 2) /\ r[3] = Call("recv", 1) /\ r[4] = Call("recv", 1)
       /\ r[6] = Call("recv", 2) /\ r[7] = Call("recv", 2) /\ r[8] = Call("recv", 1) /\ r[9] = Call("recv", 1)
       /\ r[11] = Call("recv", 2) /\ r[12] = Call("recv", 2) /\ r[13] = Call("recv", 1) /\ r[14] = Call("recv", 1)
  <2>1. /\ r[5 * 0 + 1] = Call("recv", 2) /\ r[5 * 0 + 2] = Call("recv", 2)
        /\ r[5 * 0 + 3] = Call("recv", 1) /\ r[5 * 0 + 4] = Call("recv", 1)
    BY <1>1, <1>3
  <2>2. /\ r[5 * 1 + 1] = Call("recv", 2) /\ r[5 * 1 + 2] = Call("recv", 2)
        /\ r[5 * 1 + 3] = Call("recv", 1) /\ r[5 * 1 + 4] = Call("recv", 1)
    BY <1>1, <1>3
  <2>3. /\ r[5 * 2 + 1] = Call("recv", 2) /\ r[5 * 2 + 2] = Call("recv", 2)
        /\ r[5 * 2 + 3] = Call("recv", 1) /\ r[5 * 2 + 4] = Call("recv", 1)
    BY <1>1, <1>3
  <2> QED BY <2>1, <2>2, <2>3
<1>11. r[5] = sleep /\ r[10] = sleep /\ r[15] = sleep
  <2>1. r[5 * 0 + 5] = sleep /\ r[5 * 1 + 5] = sleep /\ r[5 * 2 + 5] = sleep
    BY <1>3
  <2> QED BY <2>1
<1>12. ASSUME NEW j \in 1 .. 15
       PROVE  /\ client[1 + j].do \in {"recv", "sleep"}
              /\ client[1 + j].do = "recv" =>
                   /\ client[1 + j].of \in Nat \ {0} /\ AskedBefore[j + 2] <= 18
                   /\ AskedBefore[j + 2] = AskedBefore[j + 1] + client[1 + j].of
              /\ client[1 + j].do # "recv" => AskedBefore[j + 2] = AskedBefore[j + 1]
  <2>1. client[1 + j] = r[j]
    BY <1>9
  <2>2. CASE j \in {1, 2, 3, 4, 6}
    BY <1>10, <2>1, <2>2 DEF Call, AskedBefore
  <2>3. CASE j \in {7, 8, 9, 11, 12}
    BY <1>10, <2>1, <2>3 DEF Call, AskedBefore
  <2>4. CASE j \in {13, 14}
    BY <1>10, <2>1, <2>4 DEF Call, AskedBefore
  <2>5. CASE j \in {5, 10, 15}
    BY <1>11, <2>1, <2>5 DEF Call, sleep, AskedBefore
  <2> QED BY <2>2, <2>3, <2>4, <2>5
<1>13. ASSUME NEW p \in 2 .. 16
       PROVE  /\ client[p].do \in {"recv", "sleep"}
              /\ client[p].do = "recv" =>
                   /\ client[p].of \in Nat \ {0} /\ AskedBefore[p + 1] <= 18
                   /\ AskedBefore[p + 1] = AskedBefore[p] + client[p].of
              /\ client[p].do # "recv" => AskedBefore[p + 1] = AskedBefore[p]
  <2>1. p - 1 \in 1 .. 15 /\ 1 + (p - 1) = p /\ (p - 1) + 2 = p + 1 /\ (p - 1) + 1 = p
    OBVIOUS
  <2> QED BY <1>12, <2>1
<1>14. client[1].do = "connect"
  BY <1>8 DEF Call
<1>15. AskedBefore[1 + 1] = AskedBefore[1]
  BY DEF AskedBefore
<1>16. DOMAIN client = 1 .. 16 /\ \A p \in 1 .. 16 : p = 1 \/ p \in 2 .. 16
  BY <1>8
<1> QED BY <1>8, <1>13, <1>14, <1>15, <1>16

(* cpm3.c *)
LEMMA Cpm3Orderly ==
  ASSUME NEW s, s = <<master, server, client>>
  PROVE  Orderly(s) /\ Waited(s)
<1>1. /\ DOMAIN s = 1 .. 3 /\ Len(s) = 3 /\ s[1] = master /\ s[2] = server /\ s[3] = client
      /\ \A t \in DOMAIN s : t = 1 \/ t = 2 \/ t = 3
  OBVIOUS
<1>2. /\ Len(master) = 5 /\ DOMAIN master = 1 .. 5
      /\ master[1].do = "spawn" /\ master[1].of = 2 /\ master[2].do = "sleep"
      /\ master[3].do = "spawn" /\ master[3].of = 3
      /\ master[4].do = "wait1" /\ master[4].of = 3 /\ master[5].do = "wait1" /\ master[5].of = 2
  BY DEF master, sleep, Call
<1>3. \A j \in DOMAIN master : j = 1 \/ j = 2 \/ j = 3 \/ j = 4 \/ j = 5
  BY <1>2
<1>4. /\ \A j \in DOMAIN server : server[j].do \in {"listen", "accept", "send", "sleep"}
      /\ \A j \in DOMAIN client : client[j].do \in {"connect", "recv", "sleep"}
  <2>1. /\ \A j \in DOMAIN server : j = 1 \/ j = 2 \/ j \in 3 .. 17
        /\ \A j \in DOMAIN client : j = 1 \/ j \in 2 .. 16
    BY ServerIs, ClientIs
  <2> QED BY <2>1, ServerIs, ClientIs
<1>5. Scripts(s)
  <2>1. \A t \in DOMAIN s : Len(s[t]) \in Nat /\ DOMAIN s[t] = 1 .. Len(s[t])
    <3>1. /\ Len(master) \in Nat /\ DOMAIN master = 1 .. Len(master)
          /\ Len(server) \in Nat /\ DOMAIN server = 1 .. Len(server)
          /\ Len(client) \in Nat /\ DOMAIN client = 1 .. Len(client)
      BY <1>2, ServerIs, ClientIs
    <3> QED BY <1>1, <3>1, Zenon
  <2> QED BY <1>1, <2>1 DEF Scripts
<1>6. ASSUME NEW t \in DOMAIN s, NEW j \in DOMAIN s[t], s[t][j].do \in Making
      PROVE  t = 1 /\ s[t][j].do = "spawn" /\ ((j = 1 /\ s[t][j].of = 2) \/ (j = 3 /\ s[t][j].of = 3))
  BY <1>1, <1>2, <1>3, <1>4, <1>6 DEF Making
<1>7. MadeOnce(s)
  <2>1. ASSUME NEW t \in DOMAIN s, NEW j \in DOMAIN s[t], s[t][j].do \in Making PROVE s[t][j].of # 1
    BY <1>6, <2>1
  <2>2. ASSUME NEW t \in DOMAIN s, NEW u \in DOMAIN s, NEW j \in DOMAIN s[t], NEW m \in DOMAIN s[u],
               s[t][j].do \in Making, s[u][m].do \in Making, s[t][j].of = s[u][m].of
        PROVE  t = u /\ j = m
    BY <1>6, <2>2
  <2> QED BY <2>1, <2>2 DEF MadeOnce
<1>8. ASSUME NEW t \in DOMAIN s, NEW j \in DOMAIN s[t]
      PROVE  /\ s[t][j].do \notin {"join", "free", "create", "kill", "fork"}
             /\ s[t][j].do \in {"listen", "connect", "send"} => t # 1
  BY <1>1, <1>2, <1>3, <1>4
<1>9. LeavesNobody(s)
  BY <1>6, <1>8 DEF LeavesNobody
<1>10. ParentsEnd(s)
  BY <1>6, <1>8 DEF ParentsEnd, Forking, Making
<1>11. JoinsCreated(s) /\ FreesJoined(s)
  BY <1>8 DEF JoinsCreated, FreesJoined
<1>12. Waited(s)
  <2> SUFFICES ASSUME NEW t \in DOMAIN s, NEW j \in DOMAIN s[t], s[t][j].do \in Forking
               PROVE  \E m \in DOMAIN s[t] : m > j /\ s[t][m].do \in Waiting /\ s[t][m].of = s[t][j].of
    BY DEF Waited
  <2>1. t = 1 /\ ((j = 1 /\ s[t][j].of = 2) \/ (j = 3 /\ s[t][j].of = 3))
    BY <1>6 DEF Forking, Making
  <2>2. CASE j = 1
    <3>1. 5 \in DOMAIN s[t] /\ 5 > j /\ s[t][5].do \in Waiting /\ s[t][5].of = s[t][j].of
      BY <1>1, <1>2, <2>1, <2>2 DEF Waiting
    <3> QED BY <3>1
  <2>3. CASE j = 3
    <3>1. 4 \in DOMAIN s[t] /\ 4 > j /\ s[t][4].do \in Waiting /\ s[t][4].of = s[t][j].of
      BY <1>1, <1>2, <2>1, <2>3 DEF Waiting
    <3> QED BY <3>1
  <2> QED BY <2>1, <2>2, <2>3
<1> QED BY <1>5, <1>7, <1>9, <1>10, <1>11, <1>12 DEF Orderly

(* The list of processes counts down to 2. *)
LEMMA ProcessesAre ==
  /\ Processes \in Seq(Nat) /\ Len(Processes) = NUM_PROCESSES
  /\ \A j \in 1 .. NUM_PROCESSES : Processes[j] = (NUM_PROCESSES - j) + 2
<1> DEFINE a == [j \in 1 .. NUM_PROCESSES |-> j + 1]
           N == NUM_PROCESSES
<1>1. N \in Nat
  BY WorkloadsAssumption
<1> HIDE DEF N
<1>2. a \in [1 .. N -> Nat]
  BY <1>1 DEF N
<1>3. a \in Seq(Nat) /\ Len(a) = N
  BY <1>1, <1>2, Listed
<1>4. \A j \in 1 .. N : a[j] = j + 1
  BY <1>1 DEF N
<1>5. Processes = Reverse(a)
  BY DEF Processes
<1> HIDE DEF a
<1>6. Processes = [j \in 1 .. N |-> a[(N - j) + 1]]
  BY <1>3, <1>5 DEF Reverse
<1>7. ASSUME NEW j \in 1 .. N PROVE a[(N - j) + 1] = (N - j) + 2
  <2>1. (N - j) + 1 \in 1 .. N /\ ((N - j) + 1) + 1 = (N - j) + 2
    BY <1>1
  <2> QED BY <1>4, <2>1
<1>8. \A j \in 1 .. N : (N - j) + 2 \in Nat
  BY <1>1
<1>9. Processes \in [1 .. N -> Nat]
  BY <1>6, <1>7, <1>8
<1>10. Processes \in Seq(Nat) /\ Len(Processes) = N
  BY <1>1, <1>9, Listed
<1> QED BY <1>6, <1>7, <1>10 DEF N

(* write_to_file opens the file and writes its parts in order. *)
LEMMA WriteIs ==
  ASSUME NEW f \in Nat
  PROVE  /\ write_to_file(f) \in Seq(AnyCall) /\ Len(write_to_file(f)) = 1 + NUM_SAMPLES
         /\ write_to_file(f)[1] = Call("fopen", f)
         /\ \A x \in 1 .. NUM_SAMPLES : write_to_file(f)[1 + x] = Call("fprintf", <<f, x>>)
<1> DEFINE S == NUM_SAMPLES
           a == <<Call("fopen", f)>>
           b == [x \in 1 .. NUM_SAMPLES |-> Call("fprintf", <<f, x>>)]
<1>1. S \in Nat
  BY WorkloadsAssumption
<1>2. a \in Seq(AnyCall) /\ Len(a) = 1 /\ a[1] = Call("fopen", f)
  <2>1. Call("fopen", f) \in AnyCall
    BY CallIs DEF CallNames
  <2> QED BY <2>1
<1>3. \A x \in 1 .. S : Call("fprintf", <<f, x>>) \in AnyCall
  <2>1. \A x \in 1 .. S : <<f, x>> \in Nat \cup (Nat \X Nat)
    BY <1>1
  <2>2. "fprintf" \in CallNames
    BY DEF CallNames
  <2> QED BY <2>1, <2>2, CallIs
<1>4. b \in [1 .. S -> AnyCall]
  BY <1>3
<1>5. \A x \in 1 .. S : b[x] = Call("fprintf", <<f, x>>)
  OBVIOUS
<1> HIDE DEF S, a, b
<1>6. b \in Seq(AnyCall) /\ Len(b) = S
  BY <1>1, <1>4, Listed
<1>7. write_to_file(f) = a \o b
  BY DEF write_to_file, a, b
<1>8. a \in Seq(AnyCall) /\ b \in Seq(AnyCall)
  BY <1>2, <1>6
<1>9. a \o b \in Seq(AnyCall) /\ Len(a \o b) = Len(a) + Len(b) /\ \A j \in 1 .. Len(a) : (a \o b)[j] = a[j]
  BY <1>8
<1>10. \A j \in 1 .. Len(b) : (a \o b)[Len(a) + j] = b[j]
  BY <1>8
<1>11. Len(a \o b) = 1 + S /\ (a \o b)[1] = Call("fopen", f)
  BY <1>2, <1>6, <1>9
<1>12. \A x \in 1 .. S : (a \o b)[1 + x] = Call("fprintf", <<f, x>>)
  BY <1>2, <1>5, <1>6, <1>10
<1> QED BY <1>7, <1>9, <1>11, <1>12 DEF S

(* The file that a process of proclife.c writes, and where it opens it. *)
FileOf(t) == IF t = 1 THEN 0 ELSE t - 2
Opening(t) == IF t = 1 THEN NUM_PROCESSES + 1 ELSE 2

(* What the calls of proclife.c are. *)
LifeCalls(s) ==
  /\ Scripts(s) /\ DOMAIN s = 1 .. NUM_PROCESSES + 1
  /\ Len(s[1]) = Opening(1) + NUM_SAMPLES + NUM_PROCESSES
  /\ \A t \in DOMAIN s : t # 1 => Len(s[t]) = Opening(t) + NUM_SAMPLES
  /\ \A t \in DOMAIN s : \A j \in DOMAIN s[t] :
       \/ t = 1 /\ j \in 1 .. NUM_PROCESSES /\ s[t][j].do = "spawn" /\ s[t][j].of = (NUM_PROCESSES - j) + 2
       \/ t # 1 /\ j = 1 /\ s[t][j].do = "sleep"
       \/ j = Opening(t) /\ s[t][j].do = "fopen" /\ s[t][j].of = FileOf(t)
       \/ \E x \in 1 .. NUM_SAMPLES :
            j = Opening(t) + x /\ s[t][j].do = "fprintf" /\ s[t][j].of = <<FileOf(t), x>>
       \/ t = 1 /\ j > Opening(t) + NUM_SAMPLES /\ s[t][j].do = "wait"
  /\ \A y \in 1 .. NUM_PROCESSES :
       /\ y \in DOMAIN s[1] /\ Opening(1) + NUM_SAMPLES + y \in DOMAIN s[1]
       /\ s[1][y].do = "spawn" /\ s[1][y].of = (NUM_PROCESSES - y) + 2
       /\ s[1][Opening(1) + NUM_SAMPLES + y].do = "wait"
       /\ s[1][Opening(1) + NUM_SAMPLES + y].of = (NUM_PROCESSES - y) + 2

(* The script of main of proclife.c *)
LEMMA LifeMain ==
  LET m == Each("spawn", Processes) \o write_to_file(0) \o Each("wait", Processes)
      N == NUM_PROCESSES
      S == NUM_SAMPLES
  IN  /\ m \in Seq(AnyCall) /\ Len(m) = ((N + 1) + S) + N
      /\ \A y \in 1 .. N : m[y] = Call("spawn", (N - y) + 2)
      /\ m[N + 1] = Call("fopen", 0)
      /\ \A x \in 1 .. S : m[(N + 1) + x] = Call("fprintf", <<0, x>>)
      /\ \A y \in 1 .. N : m[((N + 1) + S) + y] = Call("wait", (N - y) + 2)
<1> DEFINE N == NUM_PROCESSES
           S == NUM_SAMPLES
           a == Each("spawn", Processes)
           b == write_to_file(0)
           d == Each("wait", Processes)
           e == a \o b
           m == e \o d
<1>1. N \in Nat /\ S \in Nat
  BY WorkloadsAssumption
<1>2. /\ a \in Seq(AnyCall) /\ Len(a) = N /\ \A y \in 1 .. N : a[y] = Call("spawn", (N - y) + 2)
  <2>1. a \in Seq(AnyCall) /\ Len(a) = N
    BY ProcessesAre, EachIs DEF CallNames
  <2>2. \A y \in 1 .. Len(Processes) : a[y] = Call("spawn", Processes[y])
    BY ProcessesAre, EachIs DEF CallNames
  <2> QED BY <2>1, <2>2, ProcessesAre
<1>3. /\ d \in Seq(AnyCall) /\ Len(d) = N /\ \A y \in 1 .. N : d[y] = Call("wait", (N - y) + 2)
  <2>1. d \in Seq(AnyCall) /\ Len(d) = N
    BY ProcessesAre, EachIs DEF CallNames
  <2>2. \A y \in 1 .. Len(Processes) : d[y] = Call("wait", Processes[y])
    BY ProcessesAre, EachIs DEF CallNames
  <2> QED BY <2>1, <2>2, ProcessesAre
<1>4. /\ b \in Seq(AnyCall) /\ Len(b) = 1 + S /\ b[1] = Call("fopen", 0)
      /\ \A x \in 1 .. S : b[1 + x] = Call("fprintf", <<0, x>>)
  <2>1. 0 \in Nat
    OBVIOUS
  <2> QED BY <2>1, WriteIs
<1> HIDE DEF a, b, d, N, S
<1>5. a \in Seq(AnyCall) /\ b \in Seq(AnyCall) /\ d \in Seq(AnyCall)
  BY <1>2, <1>3, <1>4
<1>6. e \in Seq(AnyCall) /\ Len(e) = Len(a) + Len(b) /\ \A j \in 1 .. Len(a) : e[j] = a[j]
  BY <1>5
<1>7. \A j \in 1 .. Len(b) : e[Len(a) + j] = b[j]
  BY <1>5
<1> HIDE DEF e
<1>8. e \in Seq(AnyCall) /\ d \in Seq(AnyCall)
  BY <1>5, <1>6
<1>9. m \in Seq(AnyCall) /\ Len(m) = Len(e) + Len(d) /\ \A j \in 1 .. Len(e) : m[j] = e[j]
  BY <1>8
<1>10. \A j \in 1 .. Len(d) : m[Len(e) + j] = d[j]
  BY <1>8
<1> HIDE DEF m
<1>11. Len(e) = (N + 1) + S
  BY <1>1, <1>2, <1>4, <1>6
<1>12. \A y \in 1 .. N : m[y] = Call("spawn", (N - y) + 2)
  <2> SUFFICES ASSUME NEW y \in 1 .. N PROVE m[y] = Call("spawn", (N - y) + 2)
    OBVIOUS
  <2>1. m[y] = e[y] /\ e[y] = a[y]
    BY <1>1, <1>2, <1>6, <1>9, <1>11
  <2> QED BY <1>2, <2>1
<1>13. m[N + 1] = Call("fopen", 0)
  <2>1. N + 1 \in 1 .. (N + 1) + S /\ 1 \in 1 .. 1 + S
    BY <1>1
  <2>2. m[N + 1] = e[N + 1]
    BY <1>9, <1>11, <2>1
  <2>3. e[N + 1] = b[1]
    BY <1>2, <1>4, <1>7, <2>1
  <2> QED BY <1>4, <2>2, <2>3
<1>14. ASSUME NEW x \in 1 .. S PROVE m[(N + 1) + x] = Call("fprintf", <<0, x>>)
  <2>1. (N + 1) + x \in 1 .. (N + 1) + S /\ 1 + x \in 1 .. 1 + S /\ (N + 1) + x = N + (1 + x)
    BY <1>1
  <2>2. m[(N + 1) + x] = e[(N + 1) + x]
    BY <1>9, <1>11, <2>1
  <2>3. e[N + (1 + x)] = b[1 + x]
    BY <1>2, <1>4, <1>7, <2>1
  <2> QED BY <1>4, <2>1, <2>2, <2>3
<1>15. \A y \in 1 .. N : m[((N + 1) + S) + y] = Call("wait", (N - y) + 2)
  BY <1>3, <1>10, <1>11
<1>16. Len(m) = ((N + 1) + S) + N
  BY <1>3, <1>9, <1>11
<1> QED BY <1>9, <1>12, <1>13, <1>14, <1>15, <1>16 DEF m, e, a, b, d, N, S

(* The script of a child of proclife.c *)
LEMMA LifeChild ==
  ASSUME NEW f \in Nat
  PROVE  LET m == <<sleep>> \o write_to_file(f)
         IN  /\ m \in Seq(AnyCall) /\ Len(m) = 2 + NUM_SAMPLES
             /\ m[1] = sleep /\ m[2] = Call("fopen", f)
             /\ \A x \in 1 .. NUM_SAMPLES : m[2 + x] = Call("fprintf", <<f, x>>)
<1> DEFINE S == NUM_SAMPLES
           a == <<sleep>>
           b == write_to_file(f)
           m == a \o b
<1>1. S \in Nat
  BY WorkloadsAssumption
<1>2. a \in Seq(AnyCall) /\ Len(a) = 1 /\ a[1] = sleep
  <2>1. sleep \in AnyCall
    BY QuietCalls, QuietIs
  <2> QED BY <2>1
<1>3. /\ b \in Seq(AnyCall) /\ Len(b) = 1 + S /\ b[1] = Call("fopen", f)
      /\ \A x \in 1 .. S : b[1 + x] = Call("fprintf", <<f, x>>)
  BY WriteIs
<1> HIDE DEF a, b, S
<1>4. a \in Seq(AnyCall) /\ b \in Seq(AnyCall)
  BY <1>2, <1>3
<1>5. m \in Seq(AnyCall) /\ Len(m) = Len(a) + Len(b) /\ \A j \in 1 .. Len(a) : m[j] = a[j]
  BY <1>4
<1>6. \A j \in 1 .. Len(b) : m[Len(a) + j] = b[j]
  BY <1>4
<1> HIDE DEF m
<1>7. Len(m) = 2 + S /\ m[1] = sleep
  BY <1>1, <1>2, <1>3, <1>5
<1>8. \A j \in 1 .. 1 + S : m[1 + j] = b[j]
  BY <1>2, <1>3, <1>6
<1>9. m[2] = Call("fopen", f)
  <2>1. 1 \in 1 .. 1 + S /\ 1 + 1 = 2
    BY <1>1
  <2> QED BY <1>3, <1>8, <2>1
<1>10. ASSUME NEW x \in 1 .. S PROVE m[2 + x] = Call("fprintf", <<f, x>>)
  <2>1. 1 + x \in 1 .. 1 + S /\ 1 + (1 + x) = 2 + x
    BY <1>1
  <2> QED BY <1>3, <1>8, <2>1
<1> QED BY <1>5, <1>7, <1>9, <1>10 DEF m, a, b, S

(* proclife.c has the calls described. *)
LEMMA LifeHasCalls ==
  ASSUME NEW s \in proclife
  PROVE  LifeCalls(s)
<1> DEFINE N == NUM_PROCESSES
           S == NUM_SAMPLES
           T == Seq(AnyCall)
           m == Each("spawn", Processes) \o write_to_file(0) \o Each("wait", Processes)
           w == [x \in 1 .. NUM_PROCESSES |-> <<sleep>> \o write_to_file(x - 1)]
           z == <<m>>
<1>1. N \in Nat \ {0} /\ S \in Nat \ {0}
  BY WorkloadsAssumption
<1>2. s = z \o w
  BY DEF proclife
<1>3. /\ m \in T /\ Len(m) = ((N + 1) + S) + N
      /\ \A y \in 1 .. N : m[y] = Call("spawn", (N - y) + 2)
      /\ m[N + 1] = Call("fopen", 0)
      /\ \A x \in 1 .. S : m[(N + 1) + x] = Call("fprintf", <<0, x>>)
      /\ \A y \in 1 .. N : m[((N + 1) + S) + y] = Call("wait", (N - y) + 2)
  BY LifeMain
<1>4. ASSUME NEW x \in 1 .. N
      PROVE  /\ w[x] \in T /\ Len(w[x]) = 2 + S
             /\ w[x][1] = sleep /\ w[x][2] = Call("fopen", x - 1)
             /\ \A y \in 1 .. S : w[x][2 + y] = Call("fprintf", <<x - 1, y>>)
  <2>1. x - 1 \in Nat
    BY <1>1
  <2> QED BY <2>1, LifeChild
<1> HIDE DEF m, T
<1>5. z \in Seq(T) /\ Len(z) = 1 /\ z[1] = m
  BY <1>3
<1>6. w \in [1 .. N -> T]
  BY <1>4
<1> HIDE DEF w, z, N, S
<1>7. w \in Seq(T) /\ Len(w) = N
  BY <1>1, <1>6, Listed
<1>a. z \in Seq(T) /\ w \in Seq(T)
  BY <1>5, <1>7
<1>8. /\ z \o w \in Seq(T) /\ Len(z \o w) = Len(z) + Len(w) /\ \A j \in 1 .. Len(z) : (z \o w)[j] = z[j]
  BY <1>a
<1>9. \A j \in 1 .. Len(w) : (z \o w)[Len(z) + j] = w[j]
  BY <1>a
<1>10. s \in Seq(T) /\ Len(s) = N + 1 /\ s[1] = m
  BY <1>1, <1>2, <1>5, <1>7, <1>8
<1>11. ASSUME NEW t \in 2 .. N + 1 PROVE s[t] = w[t - 1] /\ t - 1 \in 1 .. N
  <2>1. t - 1 \in 1 .. N /\ 1 + (t - 1) = t
    BY <1>1
  <2> QED BY <1>2, <1>5, <1>7, <1>9, <2>1
<1>12. DOMAIN s = 1 .. N + 1 /\ 1 \in DOMAIN s /\ \A t \in DOMAIN s : s[t] \in T
  BY <1>1, <1>10
<1>13. \A t \in DOMAIN s : Len(s[t]) \in Nat /\ DOMAIN s[t] = 1 .. Len(s[t])
  BY <1>12 DEF T
<1>14. Scripts(s)
  BY <1>1, <1>10, <1>12, <1>13 DEF Scripts
<1>15. Opening(1) = N + 1 /\ FileOf(1) = 0 /\ \A t \in 2 .. N + 1 : Opening(t) = 2 /\ FileOf(t) = t - 2
  BY <1>1 DEF Opening, FileOf, N
<1>16. Len(s[1]) = (Opening(1) + S) + N
  BY <1>3, <1>10, <1>15
<1>17. ASSUME NEW t \in DOMAIN s, t # 1
       PROVE  t \in 2 .. N + 1 /\ Opening(t) = 2 /\ Len(s[t]) = 2 + S /\ s[t] = w[t - 1] /\ t - 1 \in 1 .. N
  <2>1. t \in 2 .. N + 1
    BY <1>1, <1>12, <1>17
  <2> QED BY <1>4, <1>11, <1>15, <2>1
<1>18. ASSUME NEW y \in 1 .. N
       PROVE  /\ y \in DOMAIN s[1] /\ (Opening(1) + S) + y \in DOMAIN s[1]
              /\ s[1][y].do = "spawn" /\ s[1][y].of = (N - y) + 2
              /\ s[1][(Opening(1) + S) + y].do = "wait"
              /\ s[1][(Opening(1) + S) + y].of = (N - y) + 2
  <2>1. DOMAIN s[1] = 1 .. ((N + 1) + S) + N
    BY <1>12, <1>13, <1>15, <1>16
  <2>2. y \in DOMAIN s[1] /\ ((N + 1) + S) + y \in DOMAIN s[1]
    BY <1>1, <2>1
  <2>3. s[1][y] = Call("spawn", (N - y) + 2) /\ s[1][((N + 1) + S) + y] = Call("wait", (N - y) + 2)
    BY <1>3, <1>10
  <2> QED BY <1>15, <2>2, <2>3 DEF Call
<1>19. ASSUME NEW t \in DOMAIN s, NEW j \in DOMAIN s[t]
       PROVE  \/ t = 1 /\ j \in 1 .. N /\ s[t][j].do = "spawn" /\ s[t][j].of = (N - j) + 2
              \/ t # 1 /\ j = 1 /\ s[t][j].do = "sleep"
              \/ j = Opening(t) /\ s[t][j].do = "fopen" /\ s[t][j].of = FileOf(t)
              \/ \E x \in 1 .. S :
                   j = Opening(t) + x /\ s[t][j].do = "fprintf" /\ s[t][j].of = <<FileOf(t), x>>
              \/ t = 1 /\ j > Opening(t) + S /\ s[t][j].do = "wait"
  <2>1. CASE t = 1
    <3>1. j \in 1 .. ((N + 1) + S) + N
      BY <1>12, <1>13, <1>15, <1>16, <2>1
    <3>2. CASE j \in 1 .. N
      BY <1>18, <2>1, <3>2
    <3>3. CASE j = N + 1
      BY <1>3, <1>10, <1>15, <2>1, <3>3 DEF Call
    <3>4. CASE j \in N + 2 .. (N + 1) + S
      <4> DEFINE x == j - (N + 1)
      <4>1. x \in 1 .. S /\ j = (N + 1) + x
        BY <1>1, <3>4
      <4> HIDE DEF x
      <4>2. s[t][j] = Call("fprintf", <<0, x>>)
        BY <1>3, <1>10, <2>1, <4>1
      <4> QED BY <1>15, <2>1, <4>1, <4>2 DEF Call
    <3>5. CASE j \in ((N + 1) + S) + 1 .. ((N + 1) + S) + N
      <4> DEFINE x == j - ((N + 1) + S)
      <4>1. x \in 1 .. N /\ j = ((N + 1) + S) + x /\ j > (N + 1) + S
        BY <1>1, <3>5
      <4> HIDE DEF x
      <4>2. s[t][j] = Call("wait", (N - x) + 2)
        BY <1>3, <1>10, <2>1, <4>1
      <4> QED BY <1>15, <2>1, <4>1, <4>2 DEF Call
    <3> QED BY <1>1, <3>1, <3>2, <3>3, <3>4, <3>5
  <2>2. CASE t # 1
    <3>1. t \in 2 .. N + 1 /\ Opening(t) = 2 /\ Len(s[t]) = 2 + S /\ s[t] = w[t - 1] /\ t - 1 \in 1 .. N
      BY <1>17, <2>2
    <3>2. /\ s[t][1] = sleep /\ s[t][2] = Call("fopen", (t - 1) - 1)
          /\ \A y \in 1 .. S : s[t][2 + y] = Call("fprintf", <<(t - 1) - 1, y>>)
      BY <1>4, <3>1
    <3>3. FileOf(t) = (t - 1) - 1
      BY <1>1, <1>15, <3>1
    <3>4. j \in 1 .. 2 + S
      BY <1>13, <3>1
    <3>5. CASE j = 1
      BY <2>2, <3>2, <3>5 DEF sleep, Call
    <3>6. CASE j = 2
      BY <3>1, <3>2, <3>3, <3>6 DEF Call
    <3>7. CASE j \in 3 .. 2 + S
      <4> DEFINE x == j - 2
      <4>1. x \in 1 .. S /\ j = 2 + x
        BY <1>1, <3>7
      <4> HIDE DEF x
      <4>2. s[t][j] = Call("fprintf", <<FileOf(t), x>>)
        BY <3>2, <3>3, <4>1
      <4> QED BY <3>1, <4>1, <4>2 DEF Call
    <3> QED BY <1>1, <3>4, <3>5, <3>6, <3>7
  <2> QED BY <2>1, <2>2
<1>20. \A t \in DOMAIN s : t # 1 => Len(s[t]) = Opening(t) + S
  BY <1>17
<1> HIDE DEF Opening, FileOf
<1> QED BY <1>12, <1>14, <1>16, <1>18, <1>19, <1>20 DEF LifeCalls, N, S

(* proclife.c *)
LEMMA LifeOrderly ==
  ASSUME NEW s, LifeCalls(s)
  PROVE  Orderly(s) /\ Waited(s) /\ Deaf(s)
<1> DEFINE N == NUM_PROCESSES
           S == NUM_SAMPLES
<1>1. Scripts(s) /\ N \in Nat \ {0} /\ S \in Nat \ {0} /\ Opening(1) = N + 1
  BY WorkloadsAssumption DEF LifeCalls, Opening
<1>2. ASSUME NEW t \in DOMAIN s, NEW j \in DOMAIN s[t]
      PROVE  /\ s[t][j].do \in {"spawn", "sleep", "fopen", "fprintf", "wait"}
             /\ s[t][j].do = "spawn" => t = 1 /\ j \in 1 .. N /\ s[t][j].of = (N - j) + 2
  BY DEF LifeCalls
<1>3. MadeOnce(s)
  <2>1. ASSUME NEW t \in DOMAIN s, NEW j \in DOMAIN s[t], s[t][j].do \in Making
        PROVE  t = 1 /\ j \in 1 .. N /\ s[t][j].of = (N - j) + 2
    BY <1>2, <2>1 DEF Making
  <2>2. ASSUME NEW t \in DOMAIN s, NEW j \in DOMAIN s[t], s[t][j].do \in Making PROVE s[t][j].of # 1
    BY <1>1, <2>1, <2>2
  <2>3. ASSUME NEW t \in DOMAIN s, NEW u \in DOMAIN s, NEW j \in DOMAIN s[t], NEW m \in DOMAIN s[u],
               s[t][j].do \in Making, s[u][m].do \in Making, s[t][j].of = s[u][m].of
        PROVE  t = u /\ j = m
    <3>1. t = 1 /\ u = 1 /\ j \in 1 .. N /\ m \in 1 .. N /\ (N - j) + 2 = (N - m) + 2
      BY <2>1, <2>3
    <3> QED BY <1>1, <3>1
  <2> QED BY <2>2, <2>3 DEF MadeOnce
<1>4. LeavesNobody(s)
  BY <1>2 DEF LeavesNobody
<1>5. ParentsEnd(s)
  BY <1>2 DEF ParentsEnd
<1>6. JoinsCreated(s) /\ FreesJoined(s)
  BY <1>2 DEF JoinsCreated, FreesJoined
<1>7. Waited(s)
  <2> SUFFICES ASSUME NEW t \in DOMAIN s, NEW j \in DOMAIN s[t], s[t][j].do \in Forking
               PROVE  \E m \in DOMAIN s[t] : m > j /\ s[t][m].do \in Waiting /\ s[t][m].of = s[t][j].of
    BY DEF Waited
  <2>1. t = 1 /\ j \in 1 .. N /\ s[t][j].of = (N - j) + 2
    BY <1>2 DEF Forking
  <2> DEFINE m == (Opening(1) + S) + j
  <2>2. m \in DOMAIN s[1] /\ s[1][m].do = "wait" /\ s[1][m].of = (N - j) + 2
    BY <2>1 DEF LifeCalls
  <2>3. m > j
    BY <1>1, <2>1
  <2> HIDE DEF m
  <2> QED BY <2>1, <2>2, <2>3 DEF Waiting
<1>8. Deaf(s)
  BY <1>2 DEF Deaf
<1> QED BY <1>1, <1>3, <1>4, <1>5, <1>6, <1>7, <1>8 DEF Orderly

(* The programs, one by one. *)
LEMMA Named ==
  ASSUME prog \in DOMAIN Programs, script \in Programs[prog]
  PROVE  \/ prog = "cpm1" /\ script \in cpm1
         \/ prog = "cpm2" /\ script \in cpm2
         \/ prog = "inception" /\ script \in inception
         \/ prog = "reparent" /\ script \in reparent
         \/ prog = "proclife" /\ script \in proclife
         \/ prog = "cpm3" /\ script \in cpm3
         \/ prog = "dthread" /\ script \in dthread
         \/ prog = "mutex" /\ script \in mutex
         \/ prog = "deadlock" /\ script \in deadlock
         \/ prog = "lockfight" /\ script \in lockfight
         \/ prog = "imbalance" /\ script \in imbalance
         \/ prog = "bossthread" /\ script \in bossthread
         \/ prog = "heartbeat" /\ script \in heartbeat
         \/ prog = "burnust" /\ script \in burnust
BY DEF Programs

(* The scripts of all programs are orderly. *)
LEMMA ProgramsOrderly ==
  ASSUME prog \in DOMAIN Programs, script \in Programs[prog]
  PROVE  Orderly(script) /\ (prog # "reparent" => Waited(script)) /\ (prog # "cpm3" => Deaf(script))
<1>1. CASE script \in cpm1
  BY <1>1, Cpm1Orderly DEF cpm1
<1>2. CASE script \in cpm2
  BY <1>2, Cpm2Orderly DEF cpm2
<1>3. CASE script \in dthread
  BY <1>3, DthreadOrderly DEF dthread
<1>4. CASE script \in mutex
  BY <1>4, MutexOrderly DEF mutex
<1>5. CASE script \in deadlock
  BY <1>5, DeadlockOrderly DEF deadlock
<1>6. CASE prog = "cpm3" /\ script \in cpm3
  BY <1>6, Cpm3Orderly DEF cpm3
<1>7. CASE prog = "reparent" /\ script \in reparent
  BY <1>7, ReparentOrderly DEF reparent
<1>8. CASE script \in inception
  BY <1>8, InceptionOrderly
<1>9. CASE script \in lockfight
  BY <1>9, LockfightOrderly
<1>10. CASE script \in imbalance
  BY <1>10, ImbalanceIs
<1>11. CASE script \in bossthread
  BY <1>11, BossOrderly
<1>12. CASE script \in heartbeat \cup burnust
  BY <1>12, BeatsOrderly
<1>13. CASE script \in proclife
  BY <1>13, LifeHasCalls, LifeOrderly
<1> QED BY Named, <1>1, <1>2, <1>3, <1>4, <1>5, <1>6, <1>7, <1>8, <1>9, <1>10, <1>11, <1>12, <1>13

(* The invariant holds when a program starts. *)
LEMMA CallsInit ==
  ASSUME Init
  PROVE  CallsInv
<1>1. prog \in DOMAIN Programs /\ script \in Programs[prog]
  BY DEF Init, Start
<1>2. Orderly(script)
  BY <1>1, ProgramsOrderly
<1> DEFINE first == IF prog = "lockfight" THEN {1, 2} ELSE {1}
<1>3. /\ st = [t \in Tasks |-> IF t \in first THEN "run" ELSE "none"] /\ pos = [t \in Tasks |-> 1]
      /\ arrived = {} /\ freed = FALSE
  BY DEF Init, Start
<1> HIDE DEF first
<1>4. \A t \in Tasks : Len(script[t]) \in Nat /\ DOMAIN script[t] = 1 .. Len(script[t])
  BY <1>2 DEF Orderly, Scripts, Tasks
<1>5. TaskInv
  BY <1>3, <1>4 DEF TaskInv
<1>6. ArrivedInv /\ WaitedInv /\ CreatedInv /\ JoinedInv /\ FreedInv
  BY <1>3, <1>4 DEF ArrivedInv, WaitedInv, CreatedInv, JoinedInv, FreedInv
<1>7. EndedInv
  BY <1>3 DEF EndedInv
<1>8. UnbornInv
  <2> SUFFICES ASSUME NEW t \in Tasks, NEW j \in DOMAIN script[t], script[t][j].do \in Making,
                      script[t][j].of \in Tasks
               PROVE  st[script[t][j].of] = "none"
    BY DEF UnbornInv
  <2>1. script[t][j].of # 1
    BY <1>2 DEF Orderly, MadeOnce, Tasks
  <2>2. prog # "lockfight"
    <3> SUFFICES ASSUME prog = "lockfight" PROVE FALSE
      OBVIOUS
    <3>1. script \in lockfight
      BY <1>1, Named
    <3>2. script[t][j].do \in {"flock", "sleep", "unlock"}
      BY <3>1, LockfightIs DEF Tasks
    <3> QED BY <3>2 DEF Making
  <2>3. script[t][j].of \notin first
    BY <2>1, <2>2 DEF first
  <2> QED BY <1>3, <2>3
<1> QED BY <1>1, <1>5, <1>6, <1>7, <1>8 DEF CallsInv

(* A step of the system is a step of a task, or nothing happens. *)
LEMMA CallsStep ==
  ASSUME CallsInv, [Next]_<<vars, prog>>
  PROVE  CallsInv'
<1>1. Orderly(script) /\ Scripts(script)
  BY ProgramsOrderly DEF CallsInv, Orderly
<1>2. CASE UNCHANGED <<vars, prog>>
  <2>1. TaskInv' /\ ArrivedInv' /\ UnbornInv'
    BY <1>2 DEF CallsInv, vars, TaskInv, ArrivedInv, UnbornInv, Tasks
  <2>2. WaitedInv' /\ CreatedInv' /\ JoinedInv' /\ FreedInv'
    BY <1>2 DEF CallsInv, vars, WaitedInv, CreatedInv, JoinedInv, FreedInv, Tasks
  <2>3. EndedInv'
    BY <1>2 DEF CallsInv, vars, EndedInv, Tasks, Sends, Kills, Threads
  <2> QED BY <1>2, <2>1, <2>2, <2>3 DEF CallsInv, vars
<1>3. ASSUME NEW t \in Tasks, Run(t), UNCHANGED prog PROVE CallsInv'
  <2>1. Effects /\ ArrivedInv'
    BY <1>1, <1>3, RunEffects DEF CallsInv
  <2>2. TaskInv' /\ UnbornInv' /\ WaitedInv' /\ EndedInv'
    BY <1>1, <2>1, TaskKept, UnbornKept, WaitedKept, EndedKept DEF CallsInv
  <2>3. CreatedInv' /\ JoinedInv' /\ FreedInv'
    BY <1>1, <2>1, CreatedKept, JoinedKept, FreedKept DEF CallsInv
  <2>4. prog' \in DOMAIN Programs /\ script' \in Programs[prog']
    BY <2>1 DEF Effects, CallsInv
  <2> QED BY <2>1, <2>2, <2>3, <2>4 DEF CallsInv
<1> QED BY <1>2, <1>3 DEF Next

(* Every program keeps to its calls: a child that was forked is waited     *)
(* for, a thread exists when its creator has gone on and has ended when    *)
(* main has joined it, and the memory is freed by main alone.              *)
THEOREM CallsAreOrderly == Spec => []CallsInv
<1>1. Init => CallsInv
  BY CallsInit
<1>2. CallsInv /\ [Next]_<<vars, prog>> => CallsInv'
  BY CallsStep
<1> QED BY <1>1, <1>2, PTL DEF Spec

(* A process that has children has ended at the end of its script, so it   *)
(* has passed all its waits.                                               *)
LEMMA OrphansCovered ==
  ASSUME CallsInv
  PROVE  NoOrphans
<1>1. Orderly(script) /\ (prog # "reparent" => Waited(script))
  BY ProgramsOrderly DEF CallsInv
<1> SUFFICES ASSUME prog # "reparent", ~early, NEW t \in Tasks, st[t] \in {"dead", "reaped"},
                    NEW c \in Children(t), st[c] = "run"
             PROVE  FALSE
  BY DEF NoOrphans
<1>2. PICK j \in 1 .. pos[t] - 1 :
        script[t][j].do \in {"fork", "spawn"} /\ script[t][j].of = c /\ c \in Tasks
  BY DEF Children
<1>3. /\ pos[t] \in Nat /\ pos[t] <= Len(script[t]) + 1 /\ Len(script[t]) \in Nat
      /\ DOMAIN script[t] = 1 .. Len(script[t])
  BY <1>1 DEF CallsInv, TaskInv, Orderly, Scripts, Tasks
<1>4. j \in DOMAIN script[t] /\ j < pos[t]
  BY <1>3
<1>5. script[t][j].do \in Forking /\ script[t][j].of = c
  BY <1>2 DEF Forking
<1>6. ~Sends(t) /\ t \notin Threads /\ ~Kills
  <2>1. ParentsEnd(script)
    BY <1>1 DEF Orderly
  <2>2. ~Sends(t) /\ ~Kills
    BY <1>4, <1>5, <2>1 DEF ParentsEnd, Sends, Kills, Tasks
  <2>3. t \notin Threads
    BY <1>4, <1>5, <2>1 DEF ParentsEnd, Threads, Tasks
  <2> QED BY <2>2, <2>3
<1>7. pos[t] > Len(script[t])
  BY <1>6 DEF CallsInv, EndedInv
<1>8. PICK m \in DOMAIN script[t] : m >= pos[t]
  BY <1>1, <1>2, <1>4, <1>5 DEF CallsInv, WaitedInv
<1> QED BY <1>3, <1>7, <1>8

(* In every program but reparent.c a process outlives the children that it *)
(* forked, whichever forks fail, as long as waitpid waits (cpm1.c to       *)
(* cpm3.c call it with one argument).                                      *)
THEOREM NobodyIsOrphaned == Spec => []NoOrphans
BY CallsAreOrderly, OrphansCovered, PTL

(* imbalance.c: all threads are in the same cycle, computing or at its     *)
(* barrier.                                                                *)
Workers == 2 .. THREADS + 1

AtCycle(c) ==
  /\ \A t \in Workers : pos[t] \in {2 * c + 1, 2 * c + 2}
  /\ \A t \in arrived : t \in Workers /\ pos[t] = 2 * c + 2

CycleInv == prog = "imbalance" => \E c \in 0 .. CYCLES : AtCycle(c)


(* Only at the barrier do several tasks go on at once. *)
LEMMA RunMoves ==
  ASSUME TaskInv, NEW t \in Tasks, Run(t)
  PROVE  Barrier(t) \/ (arrived' = arrived /\ \A u \in Tasks : u # t => pos'[u] = pos[u])
<1> SUFFICES ASSUME ~Barrier(t) PROVE arrived' = arrived /\ \A u \in Tasks : u # t => pos'[u] = pos[u]
  OBVIOUS
<1> USE DEF TaskInv, Step
<1>1. CASE Delay(t) \/ Fork(t) \/ ForkFails(t) \/ Wait(t) \/ WaitReturns(t)
  BY <1>1 DEF Delay, Fork, ForkFails, Wait, WaitReturns
<1>2. CASE pthread_create(t) \/ pthread_join(t) \/ pthread_kill(t) \/ Exit(t)
  BY <1>2 DEF pthread_create, pthread_join, pthread_kill, Exit
<1>3. CASE Lock(t) \/ LockFails(t) \/ Unlock(t) \/ Emit(t) \/ Free(t) \/ Fopen(t) \/ Fprintf(t)
  BY <1>3 DEF Lock, LockFails, Unlock, Emit, Free, Fopen, Fprintf
<1>4. CASE Listen(t) \/ ListenFails(t) \/ Connect(t) \/ Accept(t)
  BY <1>4 DEF Listen, ListenFails, Connect, Accept
<1>5. CASE Send(t) \/ SendKills(t) \/ Recv(t)
  BY <1>5 DEF Send, SendKills, Recv
<1> QED BY <1>1, <1>2, <1>3, <1>4, <1>5 DEF Run

(* A task at the barrier goes on with the others, or dies. *)
LEMMA BarrierOnly ==
  ASSUME NEW t \in Tasks, Run(t), script[t][pos[t]].do = "barrier", ~Barrier(t)
  PROVE  pos' = pos
<1> USE DEF At
<1>1. CASE Delay(t) \/ Fork(t) \/ ForkFails(t) \/ Wait(t) \/ WaitReturns(t)
  BY <1>1 DEF Delay, Fork, Forks, ForkFails, Wait, WaitReturns
<1>2. CASE pthread_create(t) \/ pthread_join(t) \/ pthread_kill(t) \/ Exit(t)
  BY <1>2 DEF pthread_create, pthread_join, pthread_kill, Exit
<1>3. CASE Lock(t) \/ LockFails(t) \/ Unlock(t) \/ Emit(t) \/ Free(t) \/ Fopen(t) \/ Fprintf(t)
  BY <1>3 DEF Lock, LockFails, Unlock, Emit, Free, Fopen, Fprintf
<1>4. CASE Listen(t) \/ ListenFails(t) \/ Connect(t) \/ Accept(t)
  BY <1>4 DEF Listen, ListenFails, Connect, Accept
<1>5. CASE Send(t) \/ SendKills(t) \/ Recv(t)
  BY <1>5 DEF Send, SendKills, Recv
<1> QED BY <1>1, <1>2, <1>3, <1>4, <1>5 DEF Run

(* The scripts of imbalance.c *)
LEMMA CycleScripts ==
  ASSUME prog \in DOMAIN Programs, script \in Programs[prog], prog = "imbalance"
  PROVE  /\ Tasks = 1 .. THREADS + 1 /\ THREADS \in Nat \ {0} /\ CYCLES \in Nat \ {0}
         /\ \A j \in DOMAIN script[1] : script[1][j].do \in {"create", "join", "free"}
         /\ \A t \in Workers :
              /\ Len(script[t]) = 2 * CYCLES
              /\ \A c \in 0 .. CYCLES - 1 :
                   /\ script[t][2 * c + 1].do = "hog"
                   /\ script[t][2 * c + 1].of = (((t - 2) + c) % THREADS) + 1
                   /\ script[t][2 * c + 2].do = "barrier"
                   /\ script[t][2 * c + 2].of = THREADS
<1>1. script \in imbalance
  BY Named
<1>2. THREADS \in Nat \ {0} /\ CYCLES \in Nat \ {0}
  BY WorkloadsAssumption
<1>3. /\ PoolCalls(script, THREADS)
      /\ \A t \in Workers : script[t] = Cycles(t - 2)
  BY <1>1, ImbalanceIs DEF Workers
<1>4. Tasks = 1 .. THREADS + 1 /\ 1 \in Tasks
  BY <1>3 DEF PoolCalls, Scripts, Tasks
<1>5. \A j \in DOMAIN script[1] : script[1][j].do \in {"create", "join", "free"}
  BY <1>3, <1>4 DEF PoolCalls, Tasks
<1>6. ASSUME NEW t \in Workers
      PROVE  /\ Len(script[t]) = 2 * CYCLES
             /\ \A c \in 0 .. CYCLES - 1 :
                  /\ script[t][2 * c + 1] = hog((((t - 2) + c) % THREADS) + 1)
                  /\ script[t][2 * c + 2] = Call("barrier", THREADS)
  <2>1. t - 2 \in 0 .. THREADS - 1
    BY <1>2 DEF Workers
  <2> QED BY <1>3, <2>1, CyclesAre
<1>7. ASSUME NEW t \in Workers, NEW c \in 0 .. CYCLES - 1
      PROVE  /\ script[t][2 * c + 1].do = "hog"
             /\ script[t][2 * c + 1].of = (((t - 2) + c) % THREADS) + 1
             /\ script[t][2 * c + 2].do = "barrier"
             /\ script[t][2 * c + 2].of = THREADS
  <2> DEFINE x == (((t - 2) + c) % THREADS) + 1
  <2>1. script[t][2 * c + 1] = hog(x) /\ script[t][2 * c + 2] = Call("barrier", THREADS)
    BY <1>6
  <2> HIDE DEF x
  <2>2. /\ script[t][2 * c + 1].do = "hog" /\ script[t][2 * c + 1].of = x
        /\ script[t][2 * c + 2].do = "barrier" /\ script[t][2 * c + 2].of = THREADS
    BY <2>1 DEF hog, Call
  <2> QED BY <2>2 DEF x
<1> QED BY <1>2, <1>4, <1>5, <1>6, <1>7

(* The threads of imbalance.c start in cycle 0. *)
LEMMA CycleInit ==
  ASSUME Init
  PROVE  CycleInv
<1> SUFFICES ASSUME prog = "imbalance" PROVE AtCycle(0)
  BY WorkloadsAssumption DEF CycleInv
<1>1. prog \in DOMAIN Programs /\ script \in Programs[prog] /\ pos = [t \in Tasks |-> 1] /\ arrived = {}
  BY DEF Init, Start
<1>2. \A t \in Workers : t \in Tasks
  BY <1>1, CycleScripts DEF Workers
<1> QED BY <1>1, <1>2 DEF AtCycle

(* The barrier opens when all threads have come. *)
LEMMA AllHere ==
  ASSUME NEW here, here \subseteq Workers, THREADS \in Nat \ {0}, ~(Cardinality(here) < THREADS)
  PROVE  here = Workers
<1>1. IsFiniteSet(Workers) /\ Cardinality(Workers) = THREADS
  <2>1. 2 \in Int /\ THREADS + 1 \in Int /\ (2 > THREADS + 1 => THREADS = 0) /\ (THREADS + 1) - 2 + 1 = THREADS
    OBVIOUS
  <2> QED BY <2>1, FS_Interval DEF Workers
<1>2. IsFiniteSet(here) /\ Cardinality(here) <= Cardinality(Workers)
  BY <1>1, FS_Subset
<1>3. Cardinality(here) \in Nat
  BY <1>2, FS_CardinalityType
<1>4. Cardinality(here) = Cardinality(Workers)
  BY <1>1, <1>2, <1>3
<1> QED BY <1>1, <1>4, FS_Subset

(* A thread enters the next cycle when all have reached the barrier: as    *)
(* many wait there as there are threads, so all of them.                   *)
LEMMA CycleStep ==
  ASSUME CallsInv, CycleInv, [Next]_<<vars, prog>>
  PROVE  CycleInv'
<1> SUFFICES ASSUME prog' = "imbalance" PROVE \E c \in 0 .. CYCLES : AtCycle(c)'
  BY DEF CycleInv
<1>1. prog' = prog
  BY DEF Next, vars
<1>2. /\ Tasks = 1 .. THREADS + 1 /\ THREADS \in Nat \ {0} /\ CYCLES \in Nat \ {0}
      /\ \A j \in DOMAIN script[1] : script[1][j].do \in {"create", "join", "free"}
      /\ \A t \in Workers :
           /\ Len(script[t]) = 2 * CYCLES
           /\ \A c \in 0 .. CYCLES - 1 :
                /\ script[t][2 * c + 1].do = "hog"
                /\ script[t][2 * c + 2].do = "barrier"
                /\ script[t][2 * c + 2].of = THREADS
  BY <1>1, CycleScripts DEF CallsInv
<1>3. PICK c \in 0 .. CYCLES : AtCycle(c)
  BY <1>1 DEF CycleInv
<1>4. CASE UNCHANGED <<vars, prog>>
  BY <1>3, <1>4 DEF AtCycle, vars
<1>5. ASSUME NEW t \in Tasks, Run(t) PROVE \E d \in 0 .. CYCLES : AtCycle(d)'
  <2>1. Scripts(script) /\ TaskInv /\ ArrivedInv
    BY ProgramsOrderly DEF CallsInv, Orderly
  <2>2. Effects
    BY <1>1, <1>5, <2>1, RunEffects
  <2>3. \A u \in Workers : u \in Tasks
    BY <1>2 DEF Workers
  <2>4. CASE Barrier(t)
    <3>1. At(t, "barrier") /\ t \in Workers
      <4>1. At(t, "barrier")
        BY <2>4 DEF Barrier
      <4>2. t # 1
        BY <1>2, <2>1, <4>1, AtIs DEF Here
      <4> QED BY <1>2, <4>1, <4>2 DEF Workers
    <3>2. pos[t] \in 1 .. 2 * CYCLES /\ Here(t).do = "barrier" /\ Arg(t) = Here(t).of /\ pos[t] \in Nat
      BY <1>2, <2>1, <3>1, AtIs DEF Scripts, Tasks
    <3>3. pos[t] = 2 * c + 2 /\ c < CYCLES
      <4>1. pos[t] \in {2 * c + 1, 2 * c + 2}
        BY <1>3, <3>1 DEF AtCycle
      <4>2. c \in 0 .. CYCLES - 1
        BY <1>2, <3>2, <4>1
      <4> QED BY <1>2, <3>1, <3>2, <4>1, <4>2 DEF Here
    <3>4. Arg(t) = THREADS
      BY <1>2, <3>1, <3>2, <3>3 DEF Here
    <3> DEFINE here == arrived \cup {t}
    <3>5. here \subseteq Workers
      BY <1>3, <3>1 DEF AtCycle
    <3>6. CASE Cardinality(here) < THREADS
      <4>1. arrived' = here /\ pos' = pos
        BY <2>4, <3>4, <3>6 DEF Barrier
      <4>2. AtCycle(c)'
        BY <1>3, <3>1, <3>3, <4>1 DEF AtCycle, Workers
      <4> QED BY <4>2
    <3>7. CASE ~(Cardinality(here) < THREADS)
      <4>1. arrived' = {} /\ pos' = [u \in Tasks |-> IF u \in here THEN pos[u] + 1 ELSE pos[u]]
        BY <2>4, <3>4, <3>7 DEF Barrier
      <4>2. here = Workers
        BY <1>2, <3>5, <3>7, AllHere
      <4>3. \A u \in Workers : pos[u] = 2 * c + 2
        BY <1>3, <3>3, <4>2 DEF AtCycle
      <4>4. \A u \in Workers : pos'[u] = 2 * (c + 1) + 1
        BY <2>3, <4>1, <4>2, <4>3
      <4>5. AtCycle(c + 1)' /\ c + 1 \in 0 .. CYCLES
        <5>1. c + 1 \in 0 .. CYCLES
          BY <1>2, <3>3
        <5> DEFINE d == c + 1
        <5>2. \A u \in Workers : pos'[u] = 2 * d + 1
          BY <4>4
        <5> HIDE DEF d
        <5>3. AtCycle(d)'
          BY <4>1, <5>2 DEF AtCycle, Workers
        <5> QED BY <5>1, <5>3 DEF d
      <4> QED BY <4>5
    <3> QED BY <3>6, <3>7
  <2>5. CASE ~Barrier(t)
    <3>1. arrived' = arrived /\ \A u \in Tasks : u # t => pos'[u] = pos[u]
      BY <1>5, <2>1, <2>5, RunMoves
    <3>2. CASE pos'[t] = pos[t] \/ t \notin Workers
      <4>1. \A u \in Workers : pos'[u] = pos[u]
        BY <2>3, <3>1, <3>2
      <4>2. AtCycle(c)'
        BY <1>3, <3>1, <4>1 DEF AtCycle, Workers
      <4> QED BY <4>2
    <3>3. CASE pos'[t] # pos[t] /\ t \in Workers
      <4>1. pos[t] \in DOMAIN script[t] /\ pos[t] \in Nat /\ pos[t] \in 1 .. 2 * CYCLES
        BY <1>2, <2>1, <2>2, <3>3 DEF Effects, MovesOn, Scripts, TaskInv, Tasks
      <4>2. pos[t] \in {2 * c + 1, 2 * c + 2}
        BY <1>3, <3>3 DEF AtCycle
      <4>3. c \in 0 .. CYCLES - 1
        BY <1>2, <4>1, <4>2
      <4>4. Here(t).do = "hog" \/ Here(t).do = "barrier"
        <5>1. script[t][2 * c + 1].do = "hog" /\ script[t][2 * c + 2].do = "barrier"
          BY <1>2, <3>3, <4>3
        <5> QED BY <4>2, <5>1 DEF Here
      <4>5. Here(t).do # "barrier"
        <5> SUFFICES ASSUME Here(t).do = "barrier" PROVE FALSE
          OBVIOUS
        <5> QED BY <1>5, <2>1, <2>5, <3>3, BarrierOnly DEF Here
      <4>6. pos[t] = 2 * c + 1 /\ pos'[t] = pos[t] + 1
        BY <1>2, <2>2, <3>3, <4>2, <4>3, <4>4, <4>5 DEF Effects, MovesOn, Here
      <4>7. t \notin arrived
        BY <1>3, <4>3, <4>6 DEF AtCycle
      <4>8. \A u \in Workers : pos'[u] \in {2 * c + 1, 2 * c + 2}
        <5>1. pos'[t] = 2 * c + 2
          BY <4>3, <4>6
        <5> QED BY <1>3, <2>3, <3>1, <5>1 DEF AtCycle
      <4>9. \A u \in arrived : u \in Workers /\ pos'[u] = 2 * c + 2
        BY <1>3, <2>3, <3>1, <4>7 DEF AtCycle
      <4>10. AtCycle(c)'
        BY <3>1, <4>8, <4>9 DEF AtCycle, Workers
      <4> QED BY <4>10
    <3> QED BY <3>2, <3>3
  <2> QED BY <2>4, <2>5
<1> QED BY <1>4, <1>5 DEF Next

(* Numbers less than N apart leave different remainders. *)
LEMMA RemaindersDiffer ==
  ASSUME NEW N \in Nat \ {0}, NEW x \in Nat, NEW y \in Nat, x < y, y < x + N
  PROVE  x % N # y % N
<1>1. x % N \in 0 .. N - 1 /\ x \div N \in Nat /\ x = N * (x \div N) + (x % N)
  OBVIOUS
<1>2. y % N \in 0 .. N - 1 /\ y \div N \in Nat /\ y = N * (y \div N) + (y % N)
  OBVIOUS
<1> SUFFICES ASSUME x % N = y % N PROVE FALSE
  OBVIOUS
<1> DEFINE p == x \div N
           q == y \div N
           r == x % N
<1>3. p \in Nat /\ q \in Nat /\ r \in Nat /\ x = N * p + r /\ y = N * q + r
  BY <1>1, <1>2
<1> HIDE DEF p, q, r
<1>4. N * q - N * p > 0 /\ N * q - N * p < N
  BY <1>3
<1>5. PICK d \in Int : q = p + d
  <2>1. q - p \in Int /\ q = p + (q - p)
    BY <1>3
  <2> QED BY <2>1
<1>6. N * q = N * p + N * d
  BY <1>3, <1>5
<1>7. d > 0 => N * d >= N
  OBVIOUS
<1>8. d <= 0 => N * d <= 0
  OBVIOUS
<1> QED BY <1>3, <1>4, <1>6, <1>7, <1>8

(* Threads in one cycle have different remainders, so different work, and   *)
(* so has a thread in any two of THREADS cycles in a row.                  *)
LEMMA SlowestCovered ==
  ASSUME CallsInv, CycleInv
  PROVE  OneSlowest
<1> SUFFICES ASSUME prog = "imbalance" PROVE OneSlowest
  BY DEF OneSlowest
<1>1. /\ Tasks = 1 .. THREADS + 1 /\ THREADS \in Nat \ {0} /\ CYCLES \in Nat \ {0}
      /\ \A j \in DOMAIN script[1] : script[1][j].do \in {"create", "join", "free"}
      /\ \A t \in Workers :
           /\ Len(script[t]) = 2 * CYCLES
           /\ \A c \in 0 .. CYCLES - 1 :
                /\ script[t][2 * c + 1].of = (((t - 2) + c) % THREADS) + 1
                /\ script[t][2 * c + 2].do = "barrier"
  BY CycleScripts DEF CallsInv
<1>2. PICK c \in 0 .. CYCLES : AtCycle(c)
  BY DEF CycleInv
<1>3. Scripts(script) /\ TaskInv
  BY ProgramsOrderly DEF CallsInv, Orderly
<1>4. ASSUME NEW t \in Tasks, At(t, "hog")
      PROVE  /\ t \in Workers /\ c \in 0 .. CYCLES - 1 /\ pos[t] = 2 * c + 1
             /\ Arg(t) = (((t - 2) + c) % THREADS) + 1
  <2>1. pos[t] \in DOMAIN script[t] /\ Here(t).do = "hog" /\ Arg(t) = Here(t).of /\ pos[t] \in Nat
    BY <1>3, <1>4, AtIs
  <2>2. t \in Workers
    BY <1>1, <2>1 DEF Here, Workers
  <2>3. pos[t] \in 1 .. 2 * CYCLES /\ pos[t] \in {2 * c + 1, 2 * c + 2}
    BY <1>1, <1>2, <1>3, <2>1, <2>2 DEF Scripts, Tasks, AtCycle
  <2>4. c \in 0 .. CYCLES - 1
    BY <1>1, <2>3
  <2>5. script[t][2 * c + 1].of = (((t - 2) + c) % THREADS) + 1 /\ script[t][2 * c + 2].do = "barrier"
    BY <1>1, <2>2, <2>4
  <2>6. pos[t] = 2 * c + 1
    BY <2>1, <2>3, <2>5 DEF Here
  <2> QED BY <2>1, <2>2, <2>4, <2>5, <2>6 DEF Here
<1>5. ASSUME NEW x \in Nat, NEW y \in Nat, x < y, y < x + THREADS
      PROVE  (x % THREADS) + 1 # (y % THREADS) + 1
  <2>1. x % THREADS # y % THREADS
    BY <1>1, <1>5, RemaindersDiffer
  <2>2. x % THREADS \in 0 .. THREADS - 1 /\ y % THREADS \in 0 .. THREADS - 1
    BY <1>1, <1>5, Remainder
  <2> DEFINE v == x % THREADS
             w == y % THREADS
  <2>3. v \in Nat /\ w \in Nat /\ v # w
    BY <1>1, <2>1, <2>2
  <2> HIDE DEF v, w
  <2>4. v + 1 # w + 1
    BY <2>3
  <2> QED BY <2>4 DEF v, w
<1>6. ASSUME NEW t \in Tasks, NEW u \in Tasks, t < u, At(t, "hog"), At(u, "hog") PROVE Arg(t) # Arg(u)
  <2> DEFINE x == (t - 2) + c
             y == (u - 2) + c
  <2>1. Arg(t) = (x % THREADS) + 1 /\ Arg(u) = (y % THREADS) + 1 /\ t \in Workers /\ u \in Workers
    BY <1>4, <1>6
  <2>2. x \in Nat /\ y \in Nat /\ x < y /\ y < x + THREADS
    BY <1>1, <1>6, <2>1 DEF Workers
  <2> HIDE DEF x, y
  <2> QED BY <1>5, <2>1, <2>2
<1>7. ASSUME NEW t \in Tasks, At(t, "hog"), NEW u \in Tasks \ {t}, At(u, "hog") PROVE Arg(t) # Arg(u)
  <2>1. t < u \/ u < t
    BY <1>1
  <2> QED BY <1>6, <1>7, <2>1
<1>8. ASSUME NEW t \in Tasks, At(t, "hog"), NEW ago \in 1 .. THREADS - 1, 2 * ago < pos[t]
      PROVE  Arg(t) # script[t][pos[t] - 2 * ago].of
  <2>1. t \in Workers /\ c \in 0 .. CYCLES - 1 /\ pos[t] = 2 * c + 1 /\ Arg(t) = (((t - 2) + c) % THREADS) + 1
    BY <1>4, <1>8
  <2>2. PICK d \in 0 .. CYCLES - 1 : pos[t] - 2 * ago = 2 * d + 1 /\ d = c - ago
    <3>1. c - ago \in 0 .. CYCLES - 1 /\ pos[t] - 2 * ago = 2 * (c - ago) + 1
      BY <1>1, <1>8, <2>1
    <3> QED BY <3>1
  <2>3. script[t][2 * d + 1].of = (((t - 2) + d) % THREADS) + 1
    BY <1>1, <2>1
  <2> DEFINE x == (t - 2) + d
             y == (t - 2) + c
  <2>4. x \in Nat /\ y \in Nat /\ x < y /\ y < x + THREADS
    <3>1. t - 2 \in Nat
      BY <1>1, <2>1 DEF Workers
    <3>2. c \in Nat /\ d \in Nat /\ THREADS \in Nat /\ d < c /\ c < d + THREADS
      <4>1. ago \in Nat /\ ago > 0 /\ ago < THREADS /\ THREADS \in Nat
        BY <1>1, <1>8
      <4>2. c \in Nat /\ d \in Nat /\ d = c - ago
        BY <1>1, <2>1, <2>2
      <4> QED BY <4>1, <4>2
    <3> DEFINE s == t - 2
    <3>3. s \in Nat /\ x = s + d /\ y = s + c
      BY <3>1
    <3> HIDE DEF s, x, y
    <3> QED BY <3>2, <3>3
  <2>5. Arg(t) = (y % THREADS) + 1 /\ script[t][pos[t] - 2 * ago].of = (x % THREADS) + 1
    BY <2>1, <2>2, <2>3
  <2> HIDE DEF x, y
  <2> QED BY <1>5, <2>4, <2>5
<1> QED BY <1>7, <1>8 DEF OneSlowest

(* imbalance.c: for every number of threads and cycles, two threads that   *)
(* compute at the same time have different amounts of work, and so has a   *)
(* thread in any two of THREADS cycles in a row, pos being the sum of the  *)
(* rank and the cycle modulo the number of threads.                        *)
THEOREM SlowestRotates == Spec => []OneSlowest
<1>1. Init => CycleInv
  BY CycleInit
<1>2. CallsInv /\ CycleInv /\ [Next]_<<vars, prog>> => CycleInv'
  BY CycleStep
<1>3. CallsInv /\ CycleInv => OneSlowest
  BY SlowestCovered
<1> QED BY <1>1, <1>2, <1>3, CallsAreOrderly, PTL DEF Spec

(* proclife.c: when somebody has opened a file, one of those who have has  *)
(* all it has written in it.                                               *)
Opened(t) == pos[t] > Opening(t)
Written(t) == {x \in 1 .. NUM_SAMPLES : Opening(t) + x < pos[t]}

FileInv ==
  prog = "proclife" =>
    /\ ~early /\ file \in [Files -> SUBSET (1 .. NUM_SAMPLES)]
    /\ \A t \in Tasks : Opened(t) =>
         \E u \in Tasks : FileOf(u) = FileOf(t) /\ Opened(u) /\ Written(u) \subseteq file[FileOf(t)]

(* cpm3.c: what has been sent is what the server has come to send, and     *)
(* what has been received is not more than the client has asked for.       *)
SockInv ==
  prog = "cpm3" =>
    /\ sock \in [state : {"none", "listen", "open"}, sent : Nat, got : Nat] /\ sock.got <= sock.sent
    /\ sock.state = "none" => pos[2] \in {1, 18} /\ sock.sent = 0
    /\ sock.state # "none" => pos[2] >= 2 /\ sock.sent = SentBefore[pos[2]]
    /\ sock.state # "open" => pos[2] \in {1, 2, 18} /\ pos[3] \in {1, 17}
    /\ sock.got <= AskedBefore[pos[3]]
    /\ st[2] \in {"dead", "reaped"} => pos[2] = 18 \/ st[3] \in {"dead", "reaped"}

(* The calls that touch files and connections, and all others. *)
LEMMA RunIs ==
  ASSUME NEW t \in Tasks, Run(t)
  PROVE  \/ Fopen(t) \/ Fprintf(t)
         \/ Listen(t) \/ ListenFails(t) \/ Connect(t) \/ Accept(t) \/ Send(t) \/ Recv(t)
         \/ /\ UNCHANGED <<file, sock>> /\ (early' = early \/ At(t, "wait1"))
            /\ \/ UNCHANGED pos
               \/ Here(t).do \notin {"fopen", "fprintf", "listen", "connect", "accept", "send", "recv"}
<1> USE DEF At, Here
<1>1. CASE Delay(t) \/ Fork(t) \/ ForkFails(t) \/ Wait(t) \/ WaitReturns(t)
  BY <1>1 DEF Delay, Fork, Forks, ForkFails, Wait, WaitReturns
<1>2. CASE pthread_create(t) \/ pthread_join(t) \/ pthread_kill(t) \/ Exit(t)
  BY <1>2 DEF pthread_create, pthread_join, pthread_kill, Exit
<1>3. CASE Lock(t) \/ LockFails(t) \/ Unlock(t) \/ Emit(t) \/ Free(t) \/ Barrier(t)
  BY <1>3 DEF Lock, LockFails, Unlock, Emit, Free, Barrier
<1>4. CASE SendKills(t)
  BY <1>4 DEF SendKills
<1> QED BY <1>1, <1>2, <1>3, <1>4 DEF Run

(* The scripts of proclife.c *)
LEMMA LifeScripts ==
  ASSUME prog \in DOMAIN Programs, script \in Programs[prog], prog = "proclife"
  PROVE  /\ LifeCalls(script) /\ Tasks = 1 .. NUM_PROCESSES + 1
         /\ NUM_PROCESSES \in Nat \ {0} /\ NUM_SAMPLES \in Nat \ {0}
         /\ Files = 0 .. NUM_PROCESSES + 1
         /\ \A t \in Tasks : Opening(t) \in Nat /\ FileOf(t) \in Files
<1>1. script \in proclife
  BY Named
<1>2. LifeCalls(script)
  BY <1>1, LifeHasCalls
<1>3. Tasks = 1 .. NUM_PROCESSES + 1
  BY <1>2 DEF LifeCalls, Tasks
<1>4. NUM_PROCESSES \in Nat \ {0} /\ NUM_SAMPLES \in Nat \ {0}
  BY WorkloadsAssumption
<1>5. Len(script) = NUM_PROCESSES + 1
  <2>1. Len(script) \in Nat /\ Tasks = 1 .. Len(script)
    BY <1>2 DEF LifeCalls, Scripts, Tasks
  <2> QED BY <1>3, <1>4, <2>1
<1> QED BY <1>2, <1>3, <1>4, <1>5 DEF Opening, FileOf, Files

(* Nobody has opened a file yet. *)
LEMMA FileInit ==
  ASSUME Init
  PROVE  FileInv
<1> SUFFICES ASSUME prog = "proclife"
             PROVE  /\ ~early /\ file \in [Files -> SUBSET (1 .. NUM_SAMPLES)]
                    /\ \A t \in Tasks : ~Opened(t)
  BY DEF FileInv
<1>1. /\ prog \in DOMAIN Programs /\ script \in Programs[prog] /\ pos = [t \in Tasks |-> 1] /\ ~early
      /\ file = [f \in Files |-> {}]
  BY DEF Init, Start
<1>2. \A t \in Tasks : Opening(t) \in Nat /\ Opening(t) > 1
  BY <1>1, LifeScripts DEF Opening
<1> QED BY <1>1, <1>2 DEF Opened

(* Others go on without a change to what they have written. *)
LEMMA FileKept ==
  ASSUME FileInv, prog = "proclife", prog' = prog, script' = script, file' = file, early' = early,
         \A t \in Tasks : (Opened(t)' <=> Opened(t)) /\ Written(t)' \subseteq Written(t)
  PROVE  FileInv'
<1>1. Tasks' = Tasks /\ Files' = Files
  BY DEF Tasks, Files
<1> SUFFICES ASSUME NEW t \in Tasks, Opened(t)'
             PROVE  \E u \in Tasks : FileOf(u) = FileOf(t) /\ Opened(u)' /\ Written(u)' \subseteq file[FileOf(t)]
  BY <1>1 DEF FileInv, FileOf
<1>2. PICK u \in Tasks : FileOf(u) = FileOf(t) /\ Opened(u) /\ Written(u) \subseteq file[FileOf(t)]
  BY DEF FileInv
<1> QED BY <1>2

(* A truncation leaves the file with what its new writer has written, and  *)
(* each write adds to it.                                                  *)
LEMMA FileStep ==
  ASSUME CallsInv, FileInv, [Next]_<<vars, prog>>
  PROVE  FileInv'
<1> SUFFICES ASSUME prog' = "proclife" PROVE FileInv'
  BY DEF FileInv
<1>1. prog' = prog /\ prog = "proclife"
  BY DEF Next, vars
<1>2. /\ LifeCalls(script) /\ Tasks = 1 .. NUM_PROCESSES + 1
      /\ NUM_PROCESSES \in Nat \ {0} /\ NUM_SAMPLES \in Nat \ {0}
      /\ Files = 0 .. NUM_PROCESSES + 1
      /\ \A t \in Tasks : Opening(t) \in Nat /\ FileOf(t) \in Files
  BY <1>1, LifeScripts DEF CallsInv
<1>3. CASE UNCHANGED <<vars, prog>>
  <2>1. \A t \in Tasks : (Opened(t)' <=> Opened(t)) /\ Written(t)' = Written(t)
    BY <1>3 DEF Opened, Written, Opening, vars
  <2> QED BY <1>1, <1>3, <2>1, FileKept DEF vars
<1>4. ASSUME NEW t \in Tasks, Run(t) PROVE FileInv'
  <2>1. Scripts(script) /\ TaskInv /\ ArrivedInv
    BY ProgramsOrderly DEF CallsInv, Orderly
  <2>2. Effects /\ script' = script /\ Tasks' = Tasks /\ Files' = Files
    BY <1>1, <1>4, <2>1, RunEffects DEF Effects, Tasks, Files
  <2>3. ASSUME NEW name, At(t, name)
        PROVE  /\ name \in {"spawn", "sleep", "fopen", "fprintf", "wait"}
               /\ name = "fopen" => pos[t] = Opening(t) /\ Arg(t) = FileOf(t)
               /\ name = "fprintf" => \E x \in 1 .. NUM_SAMPLES : pos[t] = Opening(t) + x /\ Arg(t) = <<FileOf(t), x>>
    <3>1. pos[t] \in DOMAIN script[t] /\ Here(t).do = name /\ Arg(t) = Here(t).of
      BY <2>1, <2>3, AtIs
    <3>2. /\ Here(t).do \in {"spawn", "sleep", "fopen", "fprintf", "wait"}
          /\ Here(t).do = "fopen" => pos[t] = Opening(t) /\ Here(t).of = FileOf(t)
          /\ Here(t).do = "fprintf" =>
               \E x \in 1 .. NUM_SAMPLES : pos[t] = Opening(t) + x /\ Here(t).of = <<FileOf(t), x>>
      <4> DEFINE call == Here(t)
                 at == pos[t]
                 o == Opening(t)
                 f == FileOf(t)
      <4>1. \/ call.do = "spawn" \/ call.do = "sleep" \/ call.do = "wait"
            \/ at = o /\ call.do = "fopen" /\ call.of = f
            \/ \E x \in 1 .. NUM_SAMPLES : at = o + x /\ call.do = "fprintf" /\ call.of = <<f, x>>
        <5>1. t \in DOMAIN script
          BY DEF Tasks
        <5> HIDE DEF Opening, FileOf
        <5> QED BY <1>2, <3>1, <5>1 DEF LifeCalls, Here
      <4> HIDE DEF call, at, o, f
      <4>2. /\ call.do \in {"spawn", "sleep", "fopen", "fprintf", "wait"}
            /\ call.do = "fopen" => at = o /\ call.of = f
            /\ call.do = "fprintf" => \E x \in 1 .. NUM_SAMPLES : at = o + x /\ call.of = <<f, x>>
        BY <4>1
      <4> QED BY <4>2 DEF call, at, o, f
    <3> QED BY <3>1, <3>2
  <2>4. ~Barrier(t) /\ ~Listen(t) /\ ~ListenFails(t) /\ ~Connect(t) /\ ~Accept(t) /\ ~Send(t) /\ ~Recv(t)
    BY <2>3 DEF Barrier, Listen, ListenFails, Connect, Accept, Send, Recv
  <2>5. \A u \in Tasks : u # t => pos'[u] = pos[u]
    BY <1>4, <2>1, <2>4, RunMoves
  <2>6. ~early /\ file \in [Files -> SUBSET (1 .. NUM_SAMPLES)]
    BY <1>1 DEF FileInv
  <2>7. pos \in [Tasks -> Nat \ {0}] /\ pos' \in [Tasks -> Nat \ {0}]
    BY <2>1, <2>2 DEF TaskInv, Effects
  <2>8. \A u \in Tasks : u # t => (Opened(u)' <=> Opened(u)) /\ Written(u)' = Written(u)
    BY <2>5 DEF Opened, Written, Opening
  <2>9. CASE Fopen(t)
    <3>1. /\ At(t, "fopen") /\ file' = [file EXCEPT ![Arg(t)] = {}] /\ pos' = [pos EXCEPT ![t] = @ + 1]
          /\ early' = early
      BY <2>9 DEF Fopen, Step
    <3>2. pos[t] = Opening(t) /\ Arg(t) = FileOf(t) /\ Opening(t) \in Nat /\ FileOf(t) \in Files
      BY <1>2, <2>3, <3>1
    <3>3. pos'[t] = Opening(t) + 1
      BY <2>7, <3>1, <3>2
    <3>4. Opened(t)' /\ Written(t)' = {}
      BY <1>2, <3>2, <3>3 DEF Opened, Written, Opening
    <3>5. file' \in [Files -> SUBSET (1 .. NUM_SAMPLES)] /\ file'[FileOf(t)] = {}
          /\ \A f \in Files : f # FileOf(t) => file'[f] = file[f]
      BY <2>6, <3>1, <3>2
    <3>6. ASSUME NEW v \in Tasks, Opened(v)'
          PROVE  \E u \in Tasks : FileOf(u) = FileOf(v) /\ Opened(u)' /\ Written(u)' \subseteq file'[FileOf(v)]
      <4>1. CASE FileOf(v) = FileOf(t)
        BY <3>4, <3>5, <4>1
      <4>2. CASE FileOf(v) # FileOf(t)
        <5>1. v # t
          BY <4>2
        <5>2. Opened(v)
          BY <2>8, <3>6, <5>1
        <5>3. PICK u \in Tasks : FileOf(u) = FileOf(v) /\ Opened(u) /\ Written(u) \subseteq file[FileOf(v)]
          BY <1>1, <5>2 DEF FileInv
        <5>4. u # t
          BY <4>2, <5>3
        <5>5. FileOf(v) \in Files
          BY <1>2
        <5> QED BY <2>8, <3>5, <4>2, <5>3, <5>4, <5>5
      <4> QED BY <4>1, <4>2
    <3> QED BY <2>2, <2>6, <3>1, <3>5, <3>6 DEF FileInv, FileOf
  <2>10. CASE Fprintf(t)
    <3>1. /\ At(t, "fprintf") /\ file' = [file EXCEPT ![Arg(t)[1]] = @ \cup {Arg(t)[2]}]
          /\ pos' = [pos EXCEPT ![t] = @ + 1] /\ early' = early
      BY <2>10 DEF Fprintf, Step
    <3>2. PICK x \in 1 .. NUM_SAMPLES : pos[t] = Opening(t) + x /\ Arg(t) = <<FileOf(t), x>>
      BY <2>3, <3>1
    <3>3. Arg(t)[1] = FileOf(t) /\ Arg(t)[2] = x /\ Opening(t) \in Nat /\ FileOf(t) \in Files
      BY <1>2, <3>2
    <3>4. pos'[t] = (Opening(t) + x) + 1
      BY <2>7, <3>1, <3>2
    <3>5. Opened(t) /\ Opened(t)' /\ Written(t)' \subseteq Written(t) \cup {x}
      BY <1>2, <3>2, <3>3, <3>4 DEF Opened, Written, Opening
    <3>6. /\ file' \in [Files -> SUBSET (1 .. NUM_SAMPLES)] /\ file'[FileOf(t)] = file[FileOf(t)] \cup {x}
          /\ \A f \in Files : f # FileOf(t) => file'[f] = file[f]
      BY <2>6, <3>1, <3>3
    <3>7. ASSUME NEW v \in Tasks, Opened(v)'
          PROVE  \E u \in Tasks : FileOf(u) = FileOf(v) /\ Opened(u)' /\ Written(u)' \subseteq file'[FileOf(v)]
      <4>1. Opened(v)
        BY <2>8, <3>5, <3>7
      <4>2. PICK u \in Tasks : FileOf(u) = FileOf(v) /\ Opened(u) /\ Written(u) \subseteq file[FileOf(v)]
        BY <1>1, <4>1 DEF FileInv
      <4>3. FileOf(v) \in Files /\ file[FileOf(v)] \subseteq file'[FileOf(v)]
        BY <1>2, <3>6
      <4>4. CASE u = t
        BY <3>5, <3>6, <4>2, <4>4
      <4>5. CASE u # t
        BY <2>8, <4>2, <4>3, <4>5
      <4> QED BY <4>4, <4>5
    <3> QED BY <2>2, <2>6, <3>1, <3>6, <3>7 DEF FileInv, FileOf
  <2>11. CASE ~Fopen(t) /\ ~Fprintf(t)
    <3>1. /\ file' = file /\ early' = early
          /\ UNCHANGED pos \/ Here(t).do \notin {"fopen", "fprintf"}
      BY <1>4, <2>3, <2>4, <2>11, RunIs
    <3>2. (Opened(t)' <=> Opened(t)) /\ Written(t)' \subseteq Written(t)
      <4>1. CASE pos'[t] = pos[t]
        BY <4>1 DEF Opened, Written, Opening
      <4>2. CASE pos'[t] # pos[t]
        <5>1. pos[t] \in DOMAIN script[t] /\ Here(t).do \notin {"fopen", "fprintf"}
          BY <2>2, <3>1, <4>2 DEF Effects, MovesOn
        <5>2. \/ t = 1 /\ pos[t] \in 1 .. NUM_PROCESSES
              \/ t # 1 /\ pos[t] = 1
              \/ t = 1 /\ pos[t] > Opening(t) + NUM_SAMPLES
          <6>1. t \in DOMAIN script
            BY <1>2 DEF LifeCalls, Tasks
          <6> QED BY <1>2, <5>1, <6>1 DEF LifeCalls, Here
        <5>3. pos'[t] = pos[t] + 1
          <6>1. Here(t).do \in {"spawn", "sleep", "fopen", "fprintf", "wait"}
            BY <1>2, <5>1 DEF LifeCalls, Here, Tasks
          <6> QED BY <2>2, <4>2, <6>1 DEF Effects, MovesOn
        <5>4. pos[t] \in Nat /\ pos[t] + 1 \in Nat /\ Opening(t) \in Nat
          BY <1>2, <2>7
        <5> QED BY <1>2, <5>2, <5>3, <5>4 DEF Opened, Written, Opening
      <4> QED BY <4>1, <4>2
    <3> QED BY <1>1, <2>2, <2>8, <3>1, <3>2, FileKept
  <2> QED BY <2>9, <2>10, <2>11
<1> QED BY <1>3, <1>4 DEF Next

(* The scripts of cpm3.c *)
LEMMA SockScripts ==
  ASSUME prog \in DOMAIN Programs, script \in Programs[prog], prog = "cpm3"
  PROVE  /\ Tasks = {1, 2, 3} /\ script[1] = master /\ script[2] = server /\ script[3] = client
         /\ \A j \in DOMAIN script[1] : script[1][j].do \in {"spawn", "sleep", "wait1"}
         /\ \A j \in DOMAIN script[2] : script[2][j].do \in {"listen", "accept", "send", "sleep"}
         /\ \A j \in DOMAIN script[3] : script[3][j].do \in {"connect", "recv", "sleep"}
         /\ Len(script[2]) = 17 /\ DOMAIN script[2] = 1 .. 17
         /\ Len(script[3]) = 16 /\ DOMAIN script[3] = 1 .. 16
<1>1. script = <<master, server, client>>
  BY Named DEF cpm3
<1>2. Tasks = {1, 2, 3} /\ script[1] = master /\ script[2] = server /\ script[3] = client
  BY <1>1 DEF Tasks
<1>3. \A j \in DOMAIN master : master[j].do \in {"spawn", "sleep", "wait1"}
  BY DEF master, sleep, Call
<1>4. /\ \A j \in DOMAIN server : j = 1 \/ j = 2 \/ j \in 3 .. 17
      /\ \A j \in DOMAIN client : j = 1 \/ j \in 2 .. 16
  BY ServerIs, ClientIs
<1>5. /\ \A j \in DOMAIN server : server[j].do \in {"listen", "accept", "send", "sleep"}
      /\ \A j \in DOMAIN client : client[j].do \in {"connect", "recv", "sleep"}
  BY <1>4, ServerIs, ClientIs
<1> QED BY <1>2, <1>3, <1>5, ServerIs, ClientIs

(* cpm3.c has processes only, and the client is the one that receives. *)
LEMMA NoThreads ==
  ASSUME prog \in DOMAIN Programs, script \in Programs[prog], prog = "cpm3"
  PROVE  Threads = {} /\ Receivers = {3}
<1>1. Threads = {}
  BY SockScripts DEF Threads
<1>2. 3 \in Receivers
  <2>1. \E j \in 1 .. 16 : client[j].do = "recv"
    <3>1. AskedBefore[3] # AskedBefore[2]
      BY DEF AskedBefore
    <3>2. client[2].do = "recv"
      BY <3>1, ClientIs
    <3> QED BY <3>2
  <2> QED BY <2>1, SockScripts DEF Receivers
<1>3. 1 \notin Receivers /\ 2 \notin Receivers
  BY SockScripts DEF Receivers
<1>4. Receivers \subseteq {1, 2, 3}
  BY SockScripts DEF Receivers
<1> QED BY <1>1, <1>2, <1>3, <1>4

(* The ends of the two tables. *)
LEMMA TablesAre ==
  /\ \A p \in 1 .. 18 : SentBefore[p] \in Nat
  /\ \A p \in 1 .. 17 : AskedBefore[p] \in Nat
  /\ SentBefore[2] = 0 /\ SentBefore[18] = 18 /\ AskedBefore[1] = 0 /\ AskedBefore[17] = 18
BY DEF SentBefore, AskedBefore

(* A process that is not main dies at its exit, or of SIGPIPE. *)
LEMMA ExitOnly ==
  ASSUME TaskInv, NEW t \in Tasks, Run(t), NEW u \in Tasks, u # 1, u \notin Threads, st[u] = "run", st'[u] = "dead",
         ~SendKills(t)
  PROVE  t = u /\ pos[u] > Len(script[u]) /\ pos'[u] = pos[u]
<1> USE DEF TaskInv
<1>1. CASE Delay(t) \/ ForkFails(t) \/ WaitReturns(t) \/ LockFails(t) \/ Lock(t) \/ Unlock(t) \/ Barrier(t)
  BY <1>1 DEF Delay, ForkFails, WaitReturns, LockFails, Lock, Unlock, Barrier
<1>2. CASE \/ Emit(t) \/ Free(t) \/ Fopen(t) \/ Fprintf(t)
           \/ Listen(t) \/ ListenFails(t) \/ Connect(t) \/ Accept(t) \/ Send(t) \/ Recv(t)
  BY <1>2 DEF Emit, Free, Fopen, Fprintf, Listen, ListenFails, Connect, Accept, Send, Recv
<1>3. CASE Fork(t) \/ pthread_create(t) \/ pthread_join(t)
  BY <1>3 DEF Fork, pthread_create, pthread_join
<1>4. CASE Wait(t)
  BY <1>4 DEF Wait
<1>5. CASE pthread_kill(t)
  BY <1>5 DEF pthread_kill
<1>6. CASE Exit(t)
  BY <1>6 DEF Exit
<1> QED BY <1>1, <1>2, <1>3, <1>4, <1>5, <1>6 DEF Run

(* The server dies at the end of its script, or after its client. *)
LEMMA ServerDies ==
  ASSUME CallsInv, prog = "cpm3", NEW t \in Tasks, Run(t), UNCHANGED prog,
         st[2] \in {"dead", "reaped"} => pos[2] = 18 \/ st[3] \in {"dead", "reaped"},
         st'[2] \in {"dead", "reaped"}
  PROVE  pos'[2] = 18 \/ st'[3] \in {"dead", "reaped"}
<1>1. Orderly(script) /\ Scripts(script) /\ TaskInv /\ ArrivedInv /\ UnbornInv
  BY ProgramsOrderly DEF CallsInv, Orderly
<1>2. /\ Tasks = {1, 2, 3} /\ Len(script[2]) = 17 /\ DOMAIN script[2] = 1 .. 17 /\ Len(script[3]) = 16
      /\ Threads = {} /\ Receivers = {3}
  BY SockScripts, NoThreads DEF CallsInv
<1>3. Effects /\ TaskInv'
  BY <1>1, RunEffects, TaskKept
<1>4. st[3] \in {"dead", "reaped"} => st'[3] \in {"dead", "reaped"}
  BY <1>1, <1>2, <1>3, Forward
<1>a. 2 \in Tasks /\ 2 # 1 /\ 2 \notin Threads
  BY <1>2
<1>b. pos[2] \in Nat /\ pos[2] <= Len(script[2]) + 1
  BY <1>1, <1>a DEF TaskInv
<1>5. pos[2] = 18 => pos'[2] = 18
  <2>1. pos'[2] # pos[2] => pos[2] \in DOMAIN script[2]
    BY <1>3, <1>a DEF Effects, MovesOn
  <2>2. pos'[2] # pos[2] => pos[2] \in 1 .. 17
    BY <1>2, <2>1
  <2> QED BY <2>2
<1>6. CASE st[2] \in {"dead", "reaped"}
  BY <1>4, <1>5, <1>6
<1>7. CASE st[2] \notin {"dead", "reaped"}
  <2>1. st[2] = "run" /\ st'[2] = "dead"
    BY <1>2, <1>3, <1>7 DEF Effects, Lives
  <2>2. CASE SendKills(t)
    <3>1. st[3] \in {"dead", "reaped"}
      BY <1>2, <2>2 DEF SendKills
    <3> QED BY <1>4, <3>1
  <2>3. CASE ~SendKills(t)
    <3>1. t = 2 /\ pos[2] > Len(script[2]) /\ pos'[2] = pos[2]
      BY <1>1, <1>a, <2>1, <2>3, ExitOnly, Zenon
    <3> QED BY <1>2, <1>b, <3>1
  <2> QED BY <2>2, <2>3
<1> QED BY <1>6, <1>7

(* Nothing has been sent. *)
LEMMA SockInit ==
  ASSUME Init
  PROVE  SockInv
<1> SUFFICES ASSUME prog = "cpm3" PROVE SockInv
  BY DEF SockInv
<1>1. /\ prog \in DOMAIN Programs /\ script \in Programs[prog] /\ pos = [t \in Tasks |-> 1]
      /\ st = [t \in Tasks |-> IF t \in {1} THEN "run" ELSE "none"]
      /\ sock = [state |-> "none", sent |-> 0, got |-> 0]
  BY DEF Init, Start
<1>2. pos[2] = 1 /\ pos[3] = 1 /\ st[2] = "none"
  BY <1>1, SockScripts
<1> QED BY <1>1, <1>2, TablesAre DEF SockInv

(* What is sent and received is bounded by the two tables. *)
LEMMA SockStep ==
  ASSUME CallsInv, SockInv, [Next]_<<vars, prog>>
  PROVE  SockInv'
<1> SUFFICES ASSUME prog' = "cpm3" PROVE SockInv'
  BY DEF SockInv
<1>1. prog' = prog /\ prog = "cpm3"
  BY DEF Next, vars
<1>2. /\ Tasks = {1, 2, 3} /\ script[1] = master /\ script[2] = server /\ script[3] = client
      /\ \A j \in DOMAIN script[1] : script[1][j].do \in {"spawn", "sleep", "wait1"}
      /\ \A j \in DOMAIN script[2] : script[2][j].do \in {"listen", "accept", "send", "sleep"}
      /\ \A j \in DOMAIN script[3] : script[3][j].do \in {"connect", "recv", "sleep"}
      /\ Len(script[2]) = 17 /\ DOMAIN script[2] = 1 .. 17
      /\ Len(script[3]) = 16 /\ DOMAIN script[3] = 1 .. 16
  BY <1>1, SockScripts DEF CallsInv
<1>3. /\ sock \in [state : {"none", "listen", "open"}, sent : Nat, got : Nat] /\ sock.got <= sock.sent
      /\ sock.state = "none" => pos[2] \in {1, 18} /\ sock.sent = 0
      /\ sock.state # "none" => pos[2] >= 2 /\ sock.sent = SentBefore[pos[2]]
      /\ sock.state # "open" => pos[2] \in {1, 2, 18} /\ pos[3] \in {1, 17}
      /\ sock.got <= AskedBefore[pos[3]]
      /\ st[2] \in {"dead", "reaped"} => pos[2] = 18 \/ st[3] \in {"dead", "reaped"}
  BY <1>1 DEF SockInv
<1>4. CASE UNCHANGED <<vars, prog>>
  BY <1>4 DEF SockInv, vars
<1>5. ASSUME NEW t \in Tasks, Run(t) PROVE SockInv'
  <2>1. Scripts(script) /\ TaskInv /\ ArrivedInv
    BY ProgramsOrderly DEF CallsInv, Orderly
  <2>2. Effects
    BY <1>1, <1>5, <2>1, RunEffects
  <2>3. st'[2] \in {"dead", "reaped"} => pos'[2] = 18 \/ st'[3] \in {"dead", "reaped"}
    BY <1>1, <1>3, <1>5, ServerDies
  <2>4. ASSUME NEW name, At(t, name)
        PROVE  /\ pos[t] \in DOMAIN script[t] /\ script[t][pos[t]].do = name /\ pos[t] \in Nat
               /\ Arg(t) = script[t][pos[t]].of
    BY <2>1, <2>4, AtIs DEF Here
  <2>5. ASSUME NEW name, At(t, name)
        PROVE  /\ t = 1 => name \in {"spawn", "sleep", "wait1"}
               /\ t = 2 => name \in {"listen", "accept", "send", "sleep"}
               /\ t = 3 => name \in {"connect", "recv", "sleep"}
    BY <1>2, <2>4, <2>5
  <2>6. ~Barrier(t) /\ ~Fopen(t) /\ ~Fprintf(t)
    BY <1>2, <2>5 DEF Barrier, Fopen, Fprintf
  <2>7. \A u \in Tasks : u # t => pos'[u] = pos[u]
    BY <1>5, <2>1, <2>6, RunMoves
  <2>8. /\ pos[2] \in 1 .. 18 /\ pos[3] \in 1 .. 17
        /\ pos'[2] \in Nat /\ pos'[3] \in Nat
    <3>1. 2 \in Tasks /\ 3 \in Tasks
      BY <1>2
    <3>2. /\ pos[2] \in Nat \ {0} /\ pos[2] <= Len(script[2]) + 1
          /\ pos[3] \in Nat \ {0} /\ pos[3] <= Len(script[3]) + 1
      BY <2>1, <3>1 DEF TaskInv
    <3>3. pos'[2] \in Nat /\ pos'[3] \in Nat
      BY <2>2, <3>1 DEF Effects
    <3>4. Len(script[2]) = 17 /\ Len(script[3]) = 16
      BY <1>2
    <3>5. pos[2] \in 1 .. 18
      BY <3>2, <3>4
    <3>6. pos[3] \in 1 .. 17
      BY <3>2, <3>4
    <3> QED BY <3>3, <3>5, <3>6
  <2> DEFINE Good ==
        /\ sock' \in [state : {"none", "listen", "open"}, sent : Nat, got : Nat] /\ sock'.got <= sock'.sent
        /\ sock'.state = "none" => pos'[2] \in {1, 18} /\ sock'.sent = 0
        /\ sock'.state # "none" => pos'[2] >= 2 /\ sock'.sent = SentBefore[pos'[2]]
        /\ sock'.state # "open" => pos'[2] \in {1, 2, 18} /\ pos'[3] \in {1, 17}
        /\ sock'.got <= AskedBefore[pos'[3]]
  <2>9. SUFFICES Good
    BY <2>3 DEF SockInv
  <2>10. CASE Listen(t)
    <3>1. /\ At(t, "listen") /\ sock' = [sock EXCEPT !.state = "listen"] /\ pos' = [pos EXCEPT ![t] = @ + 1]
      BY <2>10 DEF Listen, Step
    <3>2. t = 2 /\ pos[2] = 1
      <4>1. t = 2 /\ pos[2] \in 1 .. 17 /\ server[pos[2]].do = "listen"
        BY <1>2, <2>4, <2>5, <3>1
      <4>2. pos[2] # 2 /\ pos[2] \notin 3 .. 17
        BY <4>1, ServerIs
      <4> QED BY <4>1, <4>2
    <3>3. sock.state = "none" /\ sock.sent = 0
      BY <1>3, <3>2
    <3>4. pos'[2] = 2 /\ pos'[3] = pos[3]
      BY <1>2, <2>1, <2>7, <3>1, <3>2 DEF TaskInv
    <3> QED BY <1>3, <3>1, <3>3, <3>4, TablesAre
  <2>11. CASE ListenFails(t)
    <3>1. /\ At(t, "listen") /\ sock' = sock /\ pos' = [pos EXCEPT ![t] = Len(script[t]) + 1]
      BY <2>11 DEF ListenFails
    <3>2. t = 2 /\ pos[2] = 1
      <4>1. t = 2 /\ pos[2] \in 1 .. 17 /\ server[pos[2]].do = "listen"
        BY <1>2, <2>4, <2>5, <3>1
      <4>2. pos[2] # 2 /\ pos[2] \notin 3 .. 17
        BY <4>1, ServerIs
      <4> QED BY <4>1, <4>2
    <3>3. sock.state = "none"
      BY <1>3, <3>2
    <3>4. pos'[2] = 18 /\ pos'[3] = pos[3]
      <4>1. Len(script[2]) + 1 = 18 /\ 3 \in Tasks /\ 3 # t /\ pos \in [Tasks -> Nat \ {0}]
        BY <1>2, <2>1, <3>2 DEF TaskInv
      <4> QED BY <2>7, <3>1, <3>2, <4>1
    <3> QED BY <1>3, <3>1, <3>3, <3>4
  <2>12. CASE Connect(t)
    <3>1. At(t, "connect") /\ t = 3 /\ pos[3] = 1
      <4>1. At(t, "connect")
        BY <2>12 DEF Connect
      <4>2. t = 3 /\ pos[3] \in 1 .. 16 /\ client[pos[3]].do = "connect"
        BY <1>2, <2>4, <2>5, <4>1
      <4>3. pos[3] \notin 2 .. 16
        BY <4>2, ClientIs
      <4> QED BY <4>1, <4>2, <4>3
    <3>2. pos'[2] = pos[2] /\ sock.got = 0
      BY <1>2, <1>3, <2>7, <3>1, TablesAre
    <3>3. CASE sock.state = "listen"
      <4>1. sock' = [sock EXCEPT !.state = "open"] /\ pos'[3] = 2
        BY <1>2, <2>1, <2>12, <3>1, <3>3 DEF Connect, Step, TaskInv
      <4>2. AskedBefore[2] \in Nat
        BY TablesAre
      <4> QED BY <1>3, <3>2, <3>3, <4>1, <4>2
    <3>4. CASE sock.state # "listen"
      <4>1. sock' = sock /\ pos'[3] = 17
        <5>1. Len(script[3]) + 1 = 17 /\ pos \in [Tasks -> Nat \ {0}]
          BY <1>2, <2>1 DEF TaskInv
        <5>2. sock' = sock /\ pos' = [pos EXCEPT ![t] = Len(script[t]) + 1]
          BY <2>12, <3>4 DEF Connect
        <5> QED BY <3>1, <5>1, <5>2
      <4> QED BY <1>3, <3>2, <3>4, <4>1, TablesAre
    <3> QED BY <3>3, <3>4
  <2>13. CASE Accept(t)
    <3>1. At(t, "accept") /\ sock' = sock /\ sock.state = "open" /\ pos' = [pos EXCEPT ![t] = @ + 1]
      BY <2>13 DEF Accept, Step
    <3>2. t = 2 /\ pos[2] \in 1 .. 17 /\ server[pos[2]].do = "accept"
      BY <1>2, <2>4, <2>5, <3>1
    <3>3. pos'[2] = pos[2] + 1 /\ pos'[3] = pos[3]
      BY <1>2, <2>1, <2>7, <3>1, <3>2 DEF TaskInv
    <3>4. SentBefore[pos[2] + 1] = SentBefore[pos[2]]
      BY <3>2, ServerIs
    <3> QED BY <1>3, <3>1, <3>2, <3>3, <3>4
  <2>14. CASE Send(t)
    <3>1. At(t, "send") /\ sock' = [sock EXCEPT !.sent = @ + Arg(t)] /\ pos' = [pos EXCEPT ![t] = @ + 1]
      BY <2>14 DEF Send, Step
    <3>2. t = 2 /\ pos[2] \in 1 .. 17 /\ server[pos[2]].do = "send" /\ Arg(t) = server[pos[2]].of
      BY <1>2, <2>4, <2>5, <3>1
    <3>3. pos'[2] = pos[2] + 1 /\ pos'[3] = pos[3]
      BY <1>2, <2>1, <2>7, <3>1, <3>2 DEF TaskInv
    <3>4. Arg(t) \in Nat /\ SentBefore[pos[2] + 1] = SentBefore[pos[2]] + Arg(t)
      BY <3>2, ServerIs
    <3>5. pos[2] # 1 /\ pos[2] # 2
      BY <3>2, ServerIs
    <3>6. sock.state = "open" /\ sock.sent = SentBefore[pos[2]]
      BY <1>3, <3>2, <3>5
    <3>7. /\ sock'.state = "open" /\ sock'.sent = sock.sent + Arg(t) /\ sock'.got = sock.got
          /\ sock' \in [state : {"none", "listen", "open"}, sent : Nat, got : Nat]
      BY <1>3, <3>1, <3>4, <3>6
    <3> QED BY <1>3, <3>2, <3>3, <3>4, <3>6, <3>7
  <2>15. CASE Recv(t)
    <3> DEFINE avail == sock.sent - sock.got
               taken == IF avail < Arg(t) THEN avail ELSE Arg(t)
    <3>1. At(t, "recv") /\ sock' = [sock EXCEPT !.got = @ + taken] /\ pos' = [pos EXCEPT ![t] = @ + 1]
      BY <2>15 DEF Recv, Step
    <3>2. t = 3 /\ pos[3] \in 1 .. 16 /\ client[pos[3]].do = "recv" /\ Arg(t) = client[pos[3]].of
      BY <1>2, <2>4, <2>5, <3>1
    <3>3. pos'[3] = pos[3] + 1 /\ pos'[2] = pos[2]
      BY <1>2, <2>1, <2>7, <3>1, <3>2 DEF TaskInv
    <3>4. Arg(t) \in Nat /\ AskedBefore[pos[3] + 1] = AskedBefore[pos[3]] + Arg(t)
      BY <3>2, ClientIs
    <3>5. pos[3] # 1
      BY <3>2, ClientIs
    <3>6. sock.state = "open"
      BY <1>3, <3>2, <3>5
    <3>7. AskedBefore[pos[3]] \in Nat
      BY <2>8, TablesAre
    <3>8. sock.sent \in Nat /\ sock.got \in Nat /\ sock.got <= sock.sent /\ sock.got <= AskedBefore[pos[3]]
      BY <1>3
    <3>9. taken \in Nat /\ taken <= Arg(t) /\ sock.got + taken <= sock.sent
      BY <3>4, <3>8
    <3> HIDE DEF taken, avail
    <3>10. /\ sock'.state = "open" /\ sock'.sent = sock.sent /\ sock'.got = sock.got + taken
           /\ sock' \in [state : {"none", "listen", "open"}, sent : Nat, got : Nat]
      BY <1>3, <3>1, <3>6, <3>8, <3>9
    <3>11. sock.got + taken <= AskedBefore[pos[3] + 1]
      BY <3>4, <3>7, <3>8, <3>9
    <3> QED BY <1>3, <3>3, <3>6, <3>9, <3>10, <3>11
  <2>16. CASE /\ ~Listen(t) /\ ~ListenFails(t) /\ ~Connect(t) /\ ~Accept(t) /\ ~Send(t) /\ ~Recv(t)
    <3>1. /\ sock' = sock
          /\ \/ UNCHANGED pos
             \/ Here(t).do \notin {"listen", "connect", "accept", "send", "recv"}
      BY <1>5, <2>6, <2>16, RunIs
    <3>2. CASE pos'[2] = pos[2] /\ pos'[3] = pos[3]
      BY <1>3, <3>1, <3>2
    <3>3. CASE pos'[2] # pos[2] /\ pos'[3] = pos[3]
      <4>1. t = 2 /\ pos[2] \in 1 .. 17 /\ server[pos[2]].do = "sleep"
        <5>1. 2 \in Tasks
          BY <1>2
        <5>2. t = 2
          BY <2>7, <3>3, <5>1
        <5>3. pos[2] \in DOMAIN script[2]
          BY <2>2, <3>3, <5>1 DEF Effects, MovesOn
        <5>4. script[2][pos[2]].do \in {"listen", "accept", "send", "sleep"}
          BY <1>2, <5>3
        <5>5. Here(2).do = "sleep"
          BY <3>1, <3>3, <5>2, <5>4 DEF Here
        <5> QED BY <1>2, <5>2, <5>3, <5>5 DEF Here
      <4>2. pos'[2] = pos[2] + 1
        BY <1>2, <2>2, <3>3, <4>1 DEF Effects, MovesOn, Here
      <4>3. pos[2] # 1 /\ pos[2] # 2 /\ SentBefore[pos[2] + 1] = SentBefore[pos[2]]
        BY <4>1, ServerIs
      <4>4. sock.state = "open"
        BY <1>3, <4>1, <4>3
      <4> QED BY <1>3, <3>1, <3>3, <4>1, <4>2, <4>3, <4>4
    <3>4. CASE pos'[3] # pos[3]
      <4>1. t = 3 /\ pos[3] \in 1 .. 16 /\ client[pos[3]].do = "sleep" /\ pos'[2] = pos[2]
        <5>1. 2 \in Tasks /\ 3 \in Tasks
          BY <1>2
        <5>2. t = 3 /\ pos'[2] = pos[2]
          BY <2>7, <3>4, <5>1
        <5>3. pos[3] \in DOMAIN script[3]
          BY <2>2, <3>4, <5>1 DEF Effects, MovesOn
        <5>4. script[3][pos[3]].do \in {"connect", "recv", "sleep"}
          BY <1>2, <5>3
        <5>5. Here(3).do = "sleep"
          BY <3>1, <3>4, <5>2, <5>4 DEF Here
        <5> QED BY <1>2, <5>2, <5>3, <5>5 DEF Here
      <4>2. pos'[3] = pos[3] + 1
        BY <1>2, <2>2, <3>4, <4>1 DEF Effects, MovesOn, Here
      <4>3. pos[3] # 1 /\ AskedBefore[pos[3] + 1] = AskedBefore[pos[3]]
        BY <4>1, ClientIs
      <4>4. sock.state = "open"
        BY <1>3, <4>1, <4>3
      <4> QED BY <1>3, <3>1, <4>1, <4>2, <4>3, <4>4
    <3> QED BY <3>2, <3>3, <3>4
  <2> HIDE DEF Good
  <2> QED BY <2>10, <2>11, <2>12, <2>13, <2>14, <2>15, <2>16
<1> QED BY <1>4, <1>5 DEF Next

(* A thread that still runs has not been joined, so nothing is freed. *)
LEMMA EmitCovered ==
  ASSUME CallsInv, NEW t \in Tasks, At(t, "emit")
  PROVE  ~freed
<1>1. Orderly(script) /\ Scripts(script) /\ TaskInv
  BY ProgramsOrderly DEF CallsInv, Orderly
<1>2. st[t] = "run" /\ pos[t] \in DOMAIN script[t] /\ Here(t).do = "emit"
  BY <1>1, AtIs
<1> SUFFICES ASSUME freed PROVE FALSE
  OBVIOUS
<1>3. PICK j \in DOMAIN script[1] : j < pos[1] /\ script[1][j].do = "free"
  BY DEF CallsInv, FreedInv
<1>4. 1 \in Tasks /\ DOMAIN script[1] = 1 .. Len(script[1]) /\ Len(script[1]) \in Nat /\ pos[1] \in Nat
  BY <1>1 DEF Scripts, TaskInv, Tasks
<1>5. PICK x \in 1 .. j - 1 : script[1][x].do = "join" /\ script[1][x].of = t
  BY <1>1, <1>2, <1>3, <1>4 DEF Orderly, FreesJoined, Tasks, Here
<1>6. x \in DOMAIN script[1] /\ x < pos[1]
  BY <1>3, <1>4
<1>7. st[t] \in {"dead", "reaped"}
  BY <1>4, <1>5, <1>6 DEF CallsInv, JoinedInv
<1> QED BY <1>2, <1>7

(* main joins only what has been created. *)
LEMMA JoinCovered ==
  ASSUME CallsInv, NEW t \in Tasks, At(t, "join")
  PROVE  st[Arg(t)] # "none"
<1>1. Orderly(script) /\ Scripts(script) /\ TaskInv
  BY ProgramsOrderly DEF CallsInv, Orderly
<1>2. st[t] = "run" /\ pos[t] \in DOMAIN script[t] /\ Here(t).do = "join" /\ Arg(t) = Here(t).of
  BY <1>1, AtIs
<1>3. t = 1
  BY <1>1, <1>2 DEF Orderly, JoinsCreated, Tasks, Here
<1> QED BY <1>1, <1>2, <1>3, JoinIsCreated DEF CallsInv, Here

(* While the client receives, the server lives or has sent everything. *)
LEMMA RecvCovered ==
  ASSUME CallsInv, SockInv, NEW t \in Tasks, At(t, "recv")
  PROVE  ~EndOfStream
<1>1. Scripts(script) /\ TaskInv
  BY ProgramsOrderly DEF CallsInv, Orderly
<1>2. st[t] = "run" /\ pos[t] \in DOMAIN script[t] /\ script[t][pos[t]].do = "recv"
  BY <1>1, AtIs DEF Here
<1>3. prog = "cpm3"
  BY <1>2, ProgramsOrderly DEF CallsInv, Deaf, Tasks
<1>4. /\ Tasks = {1, 2, 3} /\ script[3] = client
      /\ \A j \in DOMAIN script[1] : script[1][j].do \in {"spawn", "sleep", "wait1"}
      /\ \A j \in DOMAIN script[2] : script[2][j].do \in {"listen", "accept", "send", "sleep"}
      /\ DOMAIN script[3] = 1 .. 16 /\ Receivers = {3}
  BY <1>3, SockScripts, NoThreads DEF CallsInv
<1>5. t = 3 /\ pos[3] \in 1 .. 16 /\ client[pos[3]].do = "recv"
  BY <1>2, <1>4
<1>6. AskedBefore[pos[3]] < 18 /\ pos[3] # 1
  <2>1. /\ client[pos[3]].of \in Nat \ {0} /\ AskedBefore[pos[3] + 1] <= 18
        /\ AskedBefore[pos[3] + 1] = AskedBefore[pos[3]] + client[pos[3]].of
    BY <1>5, ClientIs
  <2>2. AskedBefore[pos[3]] \in Nat
    BY <1>5, TablesAre
  <2>3. AskedBefore[pos[3]] < 18
    BY <2>1, <2>2
  <2>4. pos[3] # 1
    BY <1>5, ClientIs
  <2> QED BY <2>3, <2>4
<1> SUFFICES ASSUME EndOfStream PROVE FALSE
  OBVIOUS
<1>7. sock.sent = sock.got /\ st[2] \in {"dead", "reaped"}
  BY <1>4 DEF EndOfStream
<1>8. /\ sock \in [state : {"none", "listen", "open"}, sent : Nat, got : Nat]
      /\ sock.state # "none" => sock.sent = SentBefore[pos[2]]
      /\ sock.state # "open" => pos[3] \in {1, 17}
      /\ sock.got <= AskedBefore[pos[3]]
      /\ st[2] \in {"dead", "reaped"} => pos[2] = 18 \/ st[3] \in {"dead", "reaped"}
  BY <1>3 DEF SockInv
<1>9. pos[2] = 18 /\ sock.state = "open"
  BY <1>2, <1>5, <1>6, <1>7, <1>8
<1>10. sock.sent = 18
  BY <1>8, <1>9, TablesAre
<1>11. AskedBefore[pos[3]] \in Nat
  BY <1>5, TablesAre
<1> QED BY <1>6, <1>7, <1>8, <1>10, <1>11

(* When main of proclife.c is done, so are the processes it made. *)
LEMMA FilesCovered ==
  ASSUME CallsInv, FileInv, prog = "proclife", pos[1] > Len(script[1]),
         NEW f \in 0 .. NUM_PROCESSES - 1, f = 0 \/ st[f + 2] # "none"
  PROVE  file[f] = 1 .. NUM_SAMPLES
<1>1. /\ LifeCalls(script) /\ Tasks = 1 .. NUM_PROCESSES + 1
      /\ NUM_PROCESSES \in Nat \ {0} /\ NUM_SAMPLES \in Nat \ {0}
      /\ Files = 0 .. NUM_PROCESSES + 1
      /\ \A t \in Tasks : Opening(t) \in Nat /\ FileOf(t) \in Files
  BY LifeScripts DEF CallsInv
<1>2. Orderly(script) /\ Scripts(script) /\ TaskInv /\ Waited(script)
  BY ProgramsOrderly DEF CallsInv, Orderly
<1>3. ~early /\ file \in [Files -> SUBSET (1 .. NUM_SAMPLES)]
  BY DEF FileInv
<1>4. 1 \in Tasks /\ DOMAIN script[1] = 1 .. Len(script[1]) /\ Len(script[1]) \in Nat /\ pos[1] \in Nat
  BY <1>1, <1>2 DEF Scripts, TaskInv, Tasks
<1>5. ASSUME NEW t \in Tasks, t # 1, st[t] # "none" PROVE pos[t] > Len(script[t])
  <2> DEFINE y == (NUM_PROCESSES + 2) - t
  <2>1. y \in 1 .. NUM_PROCESSES /\ (NUM_PROCESSES - y) + 2 = t
    BY <1>1, <1>5
  <2>2. y \in DOMAIN script[1] /\ script[1][y].do = "spawn" /\ script[1][y].of = (NUM_PROCESSES - y) + 2
    BY <1>1, <2>1 DEF LifeCalls
  <2>3. y \in DOMAIN script[1] /\ script[1][y].do \in Forking /\ script[1][y].of = t /\ y < pos[1]
    BY <1>4, <2>1, <2>2 DEF Forking
  <2> HIDE DEF y
  <2>4. st[t] \notin {"run", "dead"}
    <3> SUFFICES ASSUME st[t] \in {"run", "dead"} PROVE FALSE
      OBVIOUS
    <3>1. PICK m \in DOMAIN script[1] : m >= pos[1]
      BY <1>2, <1>3, <1>4, <2>3 DEF CallsInv, WaitedInv
    <3> QED BY <1>4, <3>1
  <2>5. st[t] = "reaped"
    BY <1>2, <1>5, <2>4 DEF TaskInv
  <2>6. \A u \in Tasks : \A j \in DOMAIN script[u] : script[u][j].do \notin {"send", "create", "kill"}
    BY <1>1 DEF LifeCalls, Tasks
  <2>7. ~Sends(t) /\ ~Kills /\ t \notin Threads
    BY <2>6 DEF Sends, Kills, Threads
  <2> QED BY <2>5, <2>7 DEF CallsInv, EndedInv
<1>6. ASSUME NEW t \in Tasks, pos[t] > Len(script[t])
      PROVE  Opened(t) /\ Written(t) = 1 .. NUM_SAMPLES
  <2>1. pos[t] \in Nat /\ Opening(t) \in Nat /\ Len(script[t]) \in Nat /\ Len(script[t]) >= Opening(t) + NUM_SAMPLES
    <3>1. Len(script[1]) = Opening(1) + NUM_SAMPLES + NUM_PROCESSES
      BY <1>1 DEF LifeCalls
    <3>2. t # 1 => Len(script[t]) = Opening(t) + NUM_SAMPLES
      BY <1>1 DEF LifeCalls, Tasks
    <3>3. pos[t] \in Nat /\ Opening(t) \in Nat /\ Len(script[t]) \in Nat
      BY <1>1, <1>2 DEF TaskInv, Scripts, Tasks
    <3>4. CASE t = 1
      BY <1>1, <3>1, <3>3, <3>4
    <3>5. CASE t # 1
      BY <1>1, <3>2, <3>3, <3>5
    <3> QED BY <3>3, <3>4, <3>5
  <2>2. Opened(t)
    BY <1>1, <1>6, <2>1 DEF Opened
  <2>3. \A x \in 1 .. NUM_SAMPLES : Opening(t) + x < pos[t]
    BY <1>1, <1>6, <2>1
  <2> QED BY <2>2, <2>3 DEF Written
<1>7. \E t \in Tasks : FileOf(t) = f /\ Opened(t)
  <2>1. CASE f = 0
    BY <1>4, <1>6, <2>1 DEF FileOf
  <2>2. CASE f # 0
    <3>1. f + 2 \in Tasks /\ f + 2 # 1 /\ (f + 2) - 2 = f
      BY <1>1
    <3>2. Opened(f + 2)
      BY <1>5, <1>6, <2>2, <3>1
    <3> QED BY <3>1, <3>2 DEF FileOf
  <2> QED BY <2>1, <2>2
<1>8. PICK u \in Tasks : FileOf(u) = f /\ Opened(u) /\ Written(u) \subseteq file[f]
  BY <1>7 DEF FileInv
<1>9. Written(u) = 1 .. NUM_SAMPLES
  <2>1. CASE u = 1
    BY <1>6, <2>1
  <2>2. CASE u # 1
    <3>1. pos[u] > 2
      BY <1>8, <2>2 DEF Opened, Opening
    <3>2. st[u] # "none"
      BY <1>2, <3>1 DEF TaskInv
    <3> QED BY <1>5, <1>6, <2>2, <3>2
  <2> QED BY <2>1, <2>2
<1>10. f \in Files
  BY <1>1
<1> QED BY <1>3, <1>8, <1>9, <1>10

(* The four parts of the property. *)
LEMMA CallsCovered ==
  ASSUME CallsInv, SockInv, FileInv
  PROVE  UncheckedCallsHold
<1> SUFFICES ASSUME NEW t \in Tasks
             PROVE  /\ At(t, "join") => st[Arg(t)] # "none"
                    /\ At(t, "emit") => ~freed
                    /\ At(t, "recv") => ~EndOfStream
                    /\ prog = "proclife" /\ t = 1 /\ pos[t] > Len(script[t]) =>
                         \A f \in 0 .. NUM_PROCESSES - 1 :
                            f = 0 \/ st[f + 2] # "none" => file[f] = 1 .. NUM_SAMPLES
  BY DEF UncheckedCallsHold
<1>1. prog = "proclife" /\ t = 1 /\ pos[t] > Len(script[t]) =>
        \A f \in 0 .. NUM_PROCESSES - 1 : f = 0 \/ st[f + 2] # "none" => file[f] = 1 .. NUM_SAMPLES
  BY FilesCovered
<1> QED BY <1>1, JoinCovered, EmitCovered, RecvCovered

(* What the programs do not check holds: dthread.c joins a thread that     *)
(* exists, heartbeat.c frees its message after its threads, a recv of      *)
(* cpm3.c never meets the end of the stream, and proclife.c lists complete *)
(* files.                                                                  *)
THEOREM UncheckedCallsAreSafe == Spec => []UncheckedCallsHold
<1>1. Init => SockInv /\ FileInv
  BY SockInit, FileInit
<1>2. CallsInv /\ SockInv /\ FileInv /\ [Next]_<<vars, prog>> => SockInv' /\ FileInv'
  BY SockStep, FileStep
<1>3. CallsInv /\ SockInv /\ FileInv => UncheckedCallsHold
  BY CallsCovered
<1> QED BY <1>1, <1>2, <1>3, CallsAreOrderly, PTL DEF Spec

-----------------------------------------------------------------------------
(* wk-schedfreq: the semaphore ring holds exactly one token, so that the   *)
(* workers take turns in the order of their ranks, and the semaphores      *)
(* outlive the workers.                                                    *)

(* The successor of a rank in the ring. *)
LEMMA NextRank ==
  ASSUME NEW r \in Ranks
  PROVE  next(r) \in Ranks /\ next(r) = IF r + 1 < n THEN r + 1 ELSE 0
<1>1. CASE r + 1 < n
  BY <1>1, SchedAssumption DEF Ranks, next
<1>2. CASE r + 1 = n
  BY <1>2, SchedAssumption DEF Ranks, next
<1> QED BY <1>1, <1>2, SchedAssumption DEF Ranks

(* SchedInit establishes the inductive invariant. *)
LEMMA InitInv == SchedInit => IInv
BY SchedAssumption DEF SchedInit, IInv, TypeOK, MainInv, Ranks, Libs

(* A worker that waits takes the token: it was at its own rank. *)
LEMMA WaitTakes ==
  ASSUME IInv, NEW r \in Ranks, sem_wait(r)
  PROVE  IInv'
<1> USE SchedAssumption DEF IInv, TypeOK, sem_wait
<1>1. main # "init"
  BY DEF MainInv
<1>2. PICK p \in Ranks, round \in 0 .. repeat : TokenAt(p, round)
  BY <1>1
<1>3. p = r
  BY <1>2 DEF TokenAt
<1>4. TokenAt(r, round)'
  BY <1>2, <1>3 DEF TokenAt, Ranks
<1>5. TypeOK'
  BY <1>2, <1>3 DEF TokenAt
<1>6. MainInv'
  BY <1>1 DEF MainInv
<1> QED BY <1>4, <1>5, <1>6

(* A worker that posts gives the token to the next rank, and after rank    *)
(* n - 1 a new round begins.                                               *)
LEMMA PostPasses ==
  ASSUME IInv, NEW r \in Ranks, sem_post(r)
  PROVE  IInv'
<1> USE SchedAssumption DEF IInv, TypeOK, sem_post
<1>1. main # "init" /\ lib = "sems"
  BY DEF MainInv
<1>2. PICK p \in Ranks, round \in 0 .. repeat : TokenAt(p, round)
  BY <1>1
<1>3. p = r
  BY <1>2 DEF TokenAt
<1>4. i[r] = round /\ round + 1 \in 0 .. repeat /\ \A s \in Ranks : sems[s] = 0
  BY <1>2, <1>3 DEF TokenAt, Ranks
<1>5. TypeOK'
  BY <1>4, NextRank
<1>6. MainInv'
  BY <1>1 DEF MainInv
<1>7. \A s \in Ranks : pc'[s] # "post"
  BY <1>2, <1>3 DEF TokenAt
<1>10. \A s \in Ranks : /\ pc'[s] = "done" => i'[s] = repeat
                        /\ pc'[s] = "post" => i'[s] < repeat /\ lib' = "sems"
                        /\ pc'[s] = "none" => i'[s] = 0
  BY <1>7
<1>8. CASE r + 1 < n
  <2>1. next(r) = r + 1
    BY <1>8, NextRank
  <2>2. TokenAt(r + 1, round)'
    <3>1. r + 1 \in Ranks /\ sems' = [sems EXCEPT ![r + 1] = 0 + 1]
      <4>1. r + 1 \in Ranks
        BY ONLY r \in Ranks, SchedAssumption, <1>8 DEF Ranks
      <4>2. sems' = [sems EXCEPT ![r + 1] = sems[r + 1] + 1]
        BY <2>1
      <4>3. sems[r + 1] = 0
        BY ONLY <4>1, <1>4
      <4> QED BY ONLY <4>1, <4>2, <4>3
    <3>2. sems'[r + 1] = 1 /\ \A s \in Ranks \ {r + 1} : sems'[s] = 0
      BY <1>4, <3>1
    <3>3. \A s \in Ranks : i'[s] = IF s < r + 1 THEN round + 1 ELSE round
      BY <1>2, <1>3, <1>4 DEF TokenAt, Ranks
    <3>4. \A s \in Ranks : pc'[s] # "post"
      BY <1>7
    <3> QED BY <3>2, <3>3, <3>4 DEF TokenAt
  <2>3. r + 1 \in Ranks
    BY <1>8 DEF Ranks
  <2> QED BY <1>5, <1>6, <1>10, <2>2, <2>3
<1>9. CASE r + 1 = n
  <2>1. next(r) = 0
    BY <1>9, NextRank
  <2>2. TokenAt(0, round + 1)'
    BY <1>2, <1>3, <1>4, <1>7, <1>9, <2>1 DEF TokenAt, Ranks
  <2>3. 0 \in Ranks
    BY <1>9 DEF Ranks
  <2> QED BY <1>4, <1>5, <1>6, <1>10, <2>2, <2>3, SMTT(20)
<1>11. r + 1 < n \/ r + 1 = n
  BY ONLY r \in Ranks, SchedAssumption DEF Ranks
<1> QED BY ONLY <1>8, <1>9, <1>11

(* The other steps neither move the token nor count a round of the ring. *)
LEMMA TokenKept ==
  ASSUME IInv, lib = "sems", main # "init", lib' = lib, UNCHANGED <<sems, i>>,
         \A r \in Ranks : pc'[r] = "post" <=> pc[r] = "post"
  PROVE  \E p \in Ranks, round \in 0 .. repeat : TokenAt(p, round)'
<1>1. PICK p \in Ranks, round \in 0 .. repeat : TokenAt(p, round)
  BY DEF IInv
<1>2. TokenAt(p, round)'
  BY <1>1 DEF TokenAt
<1> QED BY <1>2

(* Every step preserves the inductive invariant. *)
LEMMA StepInv == IInv /\ [SchedNext]_schedVars => IInv'
<1> SUFFICES ASSUME IInv, [SchedNext]_schedVars PROVE IInv'
  OBVIOUS
<1> USE SchedAssumption DEF TypeOK, MainInv
<1>1. CASE \E r \in Ranks : sem_wait(r)
  BY <1>1, WaitTakes
<1>2. CASE \E r \in Ranks : sem_post(r)
  BY <1>2, PostPasses
<1>3. ASSUME NEW r \in Ranks, nanosleep(r) PROVE IInv'
  BY <1>3 DEF IInv, nanosleep
<1>4. ASSUME NEW r \in Ranks, Return(r) PROVE IInv'
  <2>1. lib = "sems" /\ main # "init" =>
          \E p \in Ranks, round \in 0 .. repeat : TokenAt(p, round)'
    BY <1>4, TokenKept DEF IInv, Return
  <2> QED BY <1>4, <2>1 DEF IInv, Return
<1>5. CASE LibInit
  <2>1. lib = "sems" => TokenAt(0, 0)'
    BY <1>5 DEF IInv, LibInit, TokenAt, Ranks
  <2> QED BY <1>5, <2>1 DEF IInv, LibInit, Ranks
<1>6. CASE Create
  <2>1. lib = "sems" => \E p \in Ranks, round \in 0 .. repeat : TokenAt(p, round)'
    BY <1>6, TokenKept DEF IInv, Create, Ranks
  <2> QED BY <1>6, <2>1 DEF IInv, Create, Ranks
<1>7. CASE CreatedAll
  <2>1. lib = "sems" => \E p \in Ranks, round \in 0 .. repeat : TokenAt(p, round)'
    BY <1>7, TokenKept DEF IInv, CreatedAll
  <2> QED BY <1>7, <2>1 DEF IInv, CreatedAll, Ranks
<1>8. CASE Join
  <2>1. lib = "sems" => \E p \in Ranks, round \in 0 .. repeat : TokenAt(p, round)'
    BY <1>8, TokenKept DEF IInv, Join
  <2> QED BY <1>8, <2>1 DEF IInv, Join, Ranks
<1>9. CASE LibDone
  <2>1. lib = "sems" => \E p \in Ranks, round \in 0 .. repeat : TokenAt(p, round)'
    BY <1>9, TokenKept DEF IInv, LibDone
  <2> QED BY <1>9, <2>1 DEF IInv, LibDone, Ranks
<1>10. CASE UNCHANGED schedVars
  BY <1>10 DEF IInv, schedVars, TokenAt
<1> QED
  BY <1>1, <1>2, <1>3, <1>4, <1>5, <1>6, <1>7, <1>8, <1>9, <1>10
  DEF SchedNext, worker, Main, Terminated

(* The inductive invariant holds in every reachable state. *)
THEOREM Invariance == SchedSpec => []IInv
BY InitInv, StepInv, PTL DEF SchedSpec

(* Type correctness: no semaphore of the ring exceeds 1. *)
THEOREM TypeCorrect == SchedSpec => []TypeOK
<1>1. IInv => TypeOK
  BY DEF IInv
<1> QED BY <1>1, Invariance, PTL

(* The semaphore is round-robin: turns are taken in the order of the       *)
(* ranks, and at most one worker has been let through.                     *)
THEOREM TurnsRoundRobin == SchedSpec => []RoundRobin
<1>1. IInv => RoundRobin
  <2> SUFFICES ASSUME IInv, lib = "sems"
               PROVE  /\ \A r, s \in Ranks : r < s => i[s] <= i[r] /\ i[r] <= i[s] + 1
                      /\ \A r, s \in Ranks : pc[r] = "post" /\ pc[s] = "post" => r = s
    BY DEF RoundRobin
  <2>1. CASE main = "init"
    BY <2>1, SchedAssumption DEF IInv, MainInv, Ranks
  <2>2. CASE main # "init"
    <3>1. PICK p \in Ranks, round \in 0 .. repeat : TokenAt(p, round)
      BY <2>2 DEF IInv
    <3> QED BY <3>1, SchedAssumption DEF TokenAt, Ranks
  <2> QED BY <2>1, <2>2
<1> QED BY <1>1, Invariance, PTL

(* sems_done frees the semaphores only when every worker has returned. *)
THEOREM SemaphoresOutliveWorkers == SchedSpec => []NoUseAfterFree
<1>1. IInv => NoUseAfterFree
  BY SchedAssumption DEF IInv, MainInv, NoUseAfterFree, Ranks
<1> QED BY <1>1, Invariance, PTL

=============================================================================
