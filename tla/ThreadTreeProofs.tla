-------------------------- MODULE ThreadTreeProofs --------------------------
(***************************************************************************)
(* Proofs about ThreadTree for any number of stages and threads: stages do *)
(* not overlap, and the task is freed when every thread has been joined.   *)
(* Both are counting arguments: exit_count of a stage is the number of its *)
(* threads that have an index, and main has joined i threads of the stage. *)
(***************************************************************************)
EXTENDS ThreadTree, FiniteSetTheorems, TLAPS

Labels == {"none", "run", "count", "store", "unlock", "ready", "post", "last", "spawn", "returned"}
Critical == {"count", "store", "unlock"}                           \* holds the mutex
Indexed == {"unlock", "ready", "post", "last", "spawn", "returned"}  \* has its index

StageThreads(s) == {t \in Threads : stageOf(t) = s}
Counted(s) == {t \in StageThreads(s) : pc[t] \in Indexed}
JoinedOf(s) == joined \cap StageThreads(s)

TypeOK ==
  /\ exit_count \in [Stages -> Nat] /\ mutex \in [Stages -> {0, 1}]
  /\ sem_ready \in [Stages -> Int]
  /\ DOMAIN ready = Stages /\ \A s \in Stages : DOMAIN ready[s] = 0 .. nb_threads - 1
  /\ pc \in [Threads -> Labels] /\ index \in [Threads -> Nat]
  /\ DOMAIN spawner = Stages
  /\ child \in [Stages -> Nat]
  /\ main \in {"spawn", "wait", "join", "free", "end", "crash"}
  /\ stage \in 0 .. nb_stages /\ i \in Nat
  /\ joined \subseteq Threads

(* The semaphore mutex makes the increment of exit_count atomic. *)
MutexInv ==
  /\ \A t \in Threads : pc[t] \in Critical => mutex[stageOf(t)] = 0
  /\ \A t, u \in Threads :
       stageOf(t) = stageOf(u) /\ pc[t] \in Critical /\ pc[u] \in Critical => t = u

(* exit_count is the number of threads that have an index, each a smaller  *)
(* one.                                                                    *)
CountInv ==
  /\ \A s \in Stages : exit_count[s] = Cardinality(Counted(s))
  /\ \A t \in Threads :
       /\ pc[t] \in Indexed => index[t] < exit_count[stageOf(t)]
       /\ pc[t] = "store" => index[t] = exit_count[stageOf(t)]

(* The stage after s has been begun: by a thread of stage s, after all of  *)
(* them had an index.                                                      *)
Begun(s) ==
  /\ stageOf(spawner[s + 1]) = s
  /\ \A u \in StageThreads(s) : pc[u] \in Indexed

SpawnInv ==
  \A t \in Threads :
    /\ pc[t] = "spawn" => stageOf(t) + 1 \in Stages /\ Begun(stageOf(t))
    /\ pc[t] # "none" /\ stageOf(t) > 0 => Begun(stageOf(t) - 1)

(* An entry of the ready array is the thread that has its index. *)
ReadyInv ==
  \A s \in Stages : \A j \in 0 .. nb_threads - 1 : ready[s][j] # NoThread =>
    /\ ready[s][j] \in StageThreads(s)
    /\ pc[ready[s][j]] \in Indexed /\ index[ready[s][j]] = j

(* The threads of a stage are created in order. *)
ChildInv == \A t \in Threads : t[2] >= child[stageOf(t)] => pc[t] = "none"

(* main has joined the stages before its own, and i threads of its own,    *)
(* those with the smaller indices.                                         *)
JoinInv ==
  /\ main \in {"spawn", "wait", "join"} => stage \in Stages
  /\ main = "join" => i < nb_thread(stage)
  /\ main \in {"free", "end"} => stage = nb_stages
  /\ \A t \in Threads : stageOf(t) < stage => t \in joined
  /\ \A t \in joined : /\ stageOf(t) <= stage /\ pc[t] \in Indexed
                       /\ stageOf(t) = stage => index[t] < i
  /\ stage \in Stages => Cardinality(JoinedOf(stage)) = i

IInv == TypeOK /\ MutexInv /\ CountInv /\ SpawnInv /\ ReadyInv /\ ChildInv /\ JoinInv

-----------------------------------------------------------------------------
(* Threads are pairs of a stage and a number. *)
LEMMA ThreadPairs ==
  ASSUME NEW t \in Threads
  PROVE  stageOf(t) \in Stages /\ t[2] \in 0 .. nb_thread(stageOf(t)) - 1 /\ t = <<t[1], t[2]>>
BY DEF Threads, stageOf

LEMMA PairThreads ==
  ASSUME NEW s \in Stages, NEW k \in 0 .. nb_thread(s) - 1
  PROVE  <<s, k>> \in Threads /\ stageOf(<<s, k>>) = s
BY DEF Threads, stageOf

LEMMA NoThreadIsNone == NoThread \notin Threads
BY ThreadPairs, TreeAssumption DEF NoThread, stageOf, Stages

LEMMA StageSize ==
  ASSUME NEW s \in Stages
  PROVE  /\ IsFiniteSet(StageThreads(s))
         /\ Cardinality(StageThreads(s)) = nb_thread(s)
         /\ nb_thread(s) \in Nat \ {0} /\ nb_thread(s) <= nb_threads
<1>1. s \in Nat /\ nb_thread(s) \in Nat \ {0} /\ nb_thread(s) <= nb_threads
  BY TreeAssumption DEF Stages, nb_thread
<1>2. StageThreads(s) = {s} \X (0 .. nb_thread(s) - 1)
  BY ThreadPairs, PairThreads DEF StageThreads, stageOf
<1>3. IsFiniteSet({s}) /\ Cardinality({s}) = 1
  BY FS_Singleton
<1>4. /\ IsFiniteSet(0 .. nb_thread(s) - 1)
      /\ Cardinality(0 .. nb_thread(s) - 1) = nb_thread(s)
  <2> DEFINE b == nb_thread(s) - 1
  <2>1. b \in Int /\ ~(0 > b) /\ b - 0 + 1 = nb_thread(s)
    BY <1>1
  <2> HIDE DEF b
  <2>2. IsFiniteSet(0 .. b) /\ Cardinality(0 .. b) = nb_thread(s)
    BY <2>1, FS_Interval
  <2> QED BY <2>2 DEF b
<1>5. /\ IsFiniteSet({s} \X (0 .. nb_thread(s) - 1))
      /\ Cardinality({s} \X (0 .. nb_thread(s) - 1)) = 1 * nb_thread(s)
  <2> DEFINE T == 0 .. nb_thread(s) - 1
  <2>1. IsFiniteSet(T) /\ Cardinality(T) = nb_thread(s)
    BY <1>4
  <2> HIDE DEF T
  <2>2. IsFiniteSet({s} \X T) /\ Cardinality({s} \X T) = 1 * nb_thread(s)
    BY <1>3, <2>1, FS_Product
  <2> QED BY <2>2 DEF T
<1> QED BY <1>1, <1>2, <1>5

(* Subsets of a stage are finite, and a full one is the stage. *)
LEMMA StageSubset ==
  ASSUME NEW s \in Stages, NEW S \in SUBSET StageThreads(s)
  PROVE  /\ IsFiniteSet(S) /\ Cardinality(S) \in Nat /\ Cardinality(S) <= nb_thread(s)
         /\ Cardinality(S) = nb_thread(s) => S = StageThreads(s)
BY StageSize, FS_Subset, FS_CardinalityType

LEMMA InitInv == Init => IInv
<1> SUFFICES ASSUME Init PROVE IInv
  OBVIOUS
<1> USE TreeAssumption DEF Init
<1>1. TypeOK
  BY DEF TypeOK, Labels, Stages
<1>2. MutexInv /\ SpawnInv /\ ChildInv
  BY DEF MutexInv, SpawnInv, ChildInv, Critical
<1>3. CountInv
  <2>1. \A s \in Stages : Counted(s) = {}
    BY DEF Counted, StageThreads, Indexed
  <2> QED BY <2>1, FS_EmptySet DEF CountInv, Indexed
<1>4. ReadyInv
  BY DEF ReadyInv
<1>5. JoinInv
  <2>1. JoinedOf(0) = {} /\ 0 \in Stages
    BY DEF JoinedOf, Stages
  <2>2. \A t \in Threads : ~(stageOf(t) < 0)
    BY ThreadPairs DEF Stages
  <2> QED BY <2>1, <2>2, FS_EmptySet DEF JoinInv
<1> QED BY <1>1, <1>2, <1>3, <1>4, <1>5 DEF IInv

-----------------------------------------------------------------------------
(* A step of thread t that takes no index and creates no thread: nobody is *)
(* counted, and what is known of the counters, the entries and the stages  *)
(* stays, unless the step writes them.                                     *)
LEMMA ThreadMoves ==
  ASSUME IInv, NEW t \in Threads, NEW l \in Labels \ {"none"},
         pc[t] # "none", pc[t] \in Indexed <=> l \in Indexed,
         pc' = [pc EXCEPT ![t] = l], UNCHANGED <<exit_count, child, main, stage, i, joined>>,
         \A u \in Threads : u # t \/ pc[t] \in Indexed => index'[u] = index[u]
  PROVE  /\ pc' \in [Threads -> Labels]
         /\ l # "store" => CountInv'
         /\ UNCHANGED spawner /\ l # "spawn" => SpawnInv'
         /\ UNCHANGED ready => ReadyInv'
         /\ ChildInv' /\ JoinInv'
<1> USE DEF IInv, TypeOK
<1>1. pc' \in [Threads -> Labels]
  OBVIOUS
<1>2. \A u \in Threads : pc'[u] \in Indexed <=> pc[u] \in Indexed
  OBVIOUS
<1>3. l # "store" => CountInv'
  <2>1. \A s \in Stages : Counted(s)' = Counted(s)
    BY <1>2 DEF Counted, StageThreads
  <2> QED BY <1>2, <2>1 DEF CountInv
<1>4. UNCHANGED spawner /\ l # "spawn" => SpawnInv'
  BY <1>2 DEF SpawnInv, Begun, StageThreads
<1>5. UNCHANGED ready => ReadyInv'
  <2> SUFFICES ASSUME UNCHANGED ready, NEW s \in Stages, NEW j \in 0 .. nb_threads - 1,
                      ready[s][j] # NoThread
               PROVE  /\ ready[s][j] \in StageThreads(s)
                      /\ pc'[ready[s][j]] \in Indexed /\ index'[ready[s][j]] = j
    BY DEF ReadyInv
  <2>1. /\ ready[s][j] \in StageThreads(s) /\ pc[ready[s][j]] \in Indexed
        /\ index[ready[s][j]] = j
    BY DEF ReadyInv
  <2>2. ready[s][j] \in Threads
    BY <2>1 DEF StageThreads
  <2> QED BY <1>2, <2>1, <2>2
<1>6. ChildInv'
  BY DEF ChildInv
<1>7. JoinInv'
  BY <1>2 DEF JoinInv, JoinedOf
<1> QED BY <1>1, <1>3, <1>4, <1>5, <1>6, <1>7

(* The last index is taken only when every thread of the stage has one. *)
LEMMA LastMeansAll ==
  ASSUME IInv, NEW t \in Threads, pc[t] \in Indexed, IsLast(t)
  PROVE  \A u \in StageThreads(stageOf(t)) : pc[u] \in Indexed
<1> DEFINE s == stageOf(t)
<1>1. s \in Stages
  BY ThreadPairs
<1>2. Counted(s) \in SUBSET StageThreads(s)
  BY DEF Counted
<1>3. exit_count[s] = Cardinality(Counted(s)) /\ index[t] < exit_count[s]
  BY <1>1 DEF IInv, CountInv
<1>4. Cardinality(Counted(s)) = nb_thread(s)
  <2>1. Cardinality(Counted(s)) \in Nat /\ Cardinality(Counted(s)) <= nb_thread(s)
    BY <1>1, <1>2, StageSubset
  <2>2. nb_thread(s) \in Nat /\ index[t] = nb_thread(s) - 1
    BY <1>1, StageSize DEF IsLast
  <2> QED BY ONLY <1>3, <2>1, <2>2
<1>5. Counted(s) = StageThreads(s)
  BY <1>1, <1>2, <1>4, StageSubset
<1> QED BY <1>5 DEF Counted

LEMMA LockKeeps ==
  ASSUME IInv, NEW t \in Threads, Lock(t)
  PROVE  IInv'
<1> USE ThreadPairs DEF Lock, Alive, Goto
<1>1. pc' \in [Threads -> Labels] /\ CountInv' /\ SpawnInv' /\ ReadyInv' /\ ChildInv' /\ JoinInv'
  BY ThreadMoves DEF Labels, Indexed, IInv, TypeOK
<1>2. TypeOK'
  <2>1. stageOf(t) \in Stages /\ mutex[stageOf(t)] = 1
    BY DEF IInv, TypeOK, MutexInv, Critical
  <2>2. mutex' = [mutex EXCEPT ![stageOf(t)] = mutex[stageOf(t)] - 1]
    OBVIOUS
  <2>3. mutex' \in [Stages -> {0, 1}]
    BY ONLY IInv, <2>1, <2>2 DEF IInv, TypeOK
  <2> QED BY <1>1, <2>3 DEF IInv, TypeOK
<1>3. MutexInv'
  <2>1. mutex[stageOf(t)] = 1 /\ mutex'[stageOf(t)] = 0
    BY DEF IInv, TypeOK
  <2>2. \A u \in Threads : stageOf(u) = stageOf(t) => pc[u] \notin Critical
    BY <2>1 DEF IInv, MutexInv
  <2>3. \A u \in Threads : u # t => pc'[u] = pc[u]
    BY DEF IInv, TypeOK
  <2>4. \A s \in Stages : s # stageOf(t) => mutex'[s] = mutex[s]
    BY DEF IInv, TypeOK
  <2> QED BY <2>1, <2>2, <2>3, <2>4 DEF IInv, MutexInv
<1> QED BY <1>1, <1>2, <1>3 DEF IInv

LEMMA UnlockKeeps ==
  ASSUME IInv, NEW t \in Threads, Unlock(t)
  PROVE  IInv'
<1> USE ThreadPairs DEF Unlock, Alive, Goto
<1>1. pc' \in [Threads -> Labels] /\ CountInv' /\ SpawnInv' /\ ReadyInv' /\ ChildInv' /\ JoinInv'
  BY ThreadMoves DEF Labels, Indexed, IInv, TypeOK
<1>2. TypeOK'
  <2>1. stageOf(t) \in Stages /\ mutex[stageOf(t)] = 0
    BY DEF IInv, TypeOK, MutexInv, Critical
  <2>2. mutex' = [mutex EXCEPT ![stageOf(t)] = mutex[stageOf(t)] + 1]
    OBVIOUS
  <2>3. mutex' \in [Stages -> {0, 1}]
    BY ONLY IInv, <2>1, <2>2 DEF IInv, TypeOK
  <2> QED BY <1>1, <2>3 DEF IInv, TypeOK
<1>3. MutexInv'
  <2>1. \A u \in Threads : pc'[u] \in Critical => pc[u] \in Critical /\ u # t
    BY DEF IInv, TypeOK, Critical
  <2>2. \A u \in Threads : pc'[u] \in Critical => stageOf(u) # stageOf(t)
    BY <2>1 DEF IInv, MutexInv, Critical
  <2>3. \A s \in Stages : s # stageOf(t) => mutex'[s] = mutex[s]
    BY DEF IInv, TypeOK
  <2> QED BY <2>1, <2>2, <2>3 DEF IInv, MutexInv
<1> QED BY <1>1, <1>2, <1>3 DEF IInv

LEMMA ReadCountKeeps ==
  ASSUME IInv, NEW t \in Threads, ReadCount(t)
  PROVE  IInv'
<1> USE ThreadPairs DEF ReadCount, Alive, Goto
<1>1. pc' \in [Threads -> Labels] /\ SpawnInv' /\ ReadyInv' /\ ChildInv' /\ JoinInv'
  BY ThreadMoves DEF Labels, Indexed, IInv, TypeOK
<1>2. TypeOK'
  BY <1>1 DEF IInv, TypeOK
<1>3. MutexInv'
  BY DEF IInv, TypeOK, MutexInv, Critical
<1>4. CountInv'
  <2>1. \A s \in Stages : Counted(s)' = Counted(s)
    BY DEF Counted, StageThreads, Indexed, IInv, TypeOK
  <2> QED BY <2>1 DEF IInv, TypeOK, CountInv, Indexed
<1> QED BY <1>1, <1>2, <1>3, <1>4 DEF IInv

(* The thread that stores exit_count is counted. *)
LEMMA StoreCountKeeps ==
  ASSUME IInv, NEW t \in Threads, StoreCount(t)
  PROVE  IInv'
<1> USE DEF StoreCount, Alive, Goto
<1> DEFINE s == stageOf(t)
<1>1. s \in Stages
  BY ThreadPairs
<1>2. /\ Counted(s)' = Counted(s) \cup {t} /\ t \notin Counted(s)
      /\ \A r \in Stages \ {s} : Counted(r)' = Counted(r)
  BY DEF Counted, StageThreads, Indexed, IInv, TypeOK
<1>3. Counted(s) \in SUBSET StageThreads(s)
  BY DEF Counted
<1>4. Cardinality(Counted(s)') = Cardinality(Counted(s)) + 1 /\ Cardinality(Counted(s)) \in Nat
  BY <1>1, <1>2, <1>3, StageSubset, FS_AddElement
<1>5. index[t] = exit_count[s] /\ exit_count[s] = Cardinality(Counted(s))
  BY <1>1 DEF IInv, CountInv
<1>6. TypeOK'
  BY <1>1 DEF IInv, TypeOK, Labels
<1>7. MutexInv'
  BY DEF IInv, TypeOK, MutexInv, Critical
<1>8. CountInv'
  <2>1. \A r \in Stages : exit_count'[r] = Cardinality(Counted(r)')
    BY <1>1, <1>2, <1>4, <1>5 DEF IInv, TypeOK, CountInv
  <2>2. ASSUME NEW u \in Threads
        PROVE  /\ pc'[u] \in Indexed => index'[u] < exit_count'[stageOf(u)]
               /\ pc'[u] = "store" => index'[u] = exit_count'[stageOf(u)]
    <3>1. CASE u = t
      BY <1>1, <3>1 DEF IInv, TypeOK
    <3>2. CASE u # t /\ stageOf(u) = s
      BY <1>1, <1>5, <3>2 DEF IInv, TypeOK, CountInv, MutexInv, Critical
    <3>3. CASE stageOf(u) # s
      BY <1>1, <3>3 DEF IInv, TypeOK, CountInv
    <3> QED BY <3>1, <3>2, <3>3
  <2> QED BY <2>1, <2>2 DEF CountInv
<1>9. SpawnInv'
  BY DEF IInv, TypeOK, SpawnInv, Begun, StageThreads, Indexed
<1>10. ReadyInv' /\ ChildInv' /\ JoinInv'
  BY DEF IInv, TypeOK, ReadyInv, ChildInv, JoinInv, JoinedOf, StageThreads, Indexed
<1> QED BY <1>6, <1>7, <1>8, <1>9, <1>10 DEF IInv

LEMMA AddReadyKeeps ==
  ASSUME IInv, NEW t \in Threads, AddReady(t)
  PROVE  IInv'
<1> USE ThreadPairs DEF AddReady, Alive, Goto
<1>1. pc' \in [Threads -> Labels] /\ CountInv' /\ SpawnInv' /\ ChildInv' /\ JoinInv'
  BY ThreadMoves DEF Labels, Indexed, IInv, TypeOK
<1>2. TypeOK'
  BY <1>1 DEF IInv, TypeOK
<1>3. MutexInv'
  BY DEF IInv, TypeOK, MutexInv, Critical
<1>4. ReadyInv'
  <2> SUFFICES ASSUME NEW s \in Stages, NEW j \in 0 .. nb_threads - 1, ready'[s][j] # NoThread
               PROVE  /\ ready'[s][j] \in StageThreads(s)
                      /\ pc'[ready'[s][j]] \in Indexed /\ index'[ready'[s][j]] = j
    BY DEF ReadyInv
  <2>1. CASE s = stageOf(t) /\ j = index[t]
    <3>1. ready'[s][j] = t
      BY <2>1 DEF IInv, TypeOK
    <3> QED BY <2>1, <3>1 DEF IInv, TypeOK, StageThreads, Indexed
  <2>2. CASE ~(s = stageOf(t) /\ j = index[t])
    <3>1. ready'[s][j] = ready[s][j]
      BY <2>2 DEF IInv, TypeOK
    <3> QED BY <3>1 DEF IInv, TypeOK, ReadyInv, StageThreads, Indexed
  <2> QED BY <2>1, <2>2
<1> QED BY <1>1, <1>2, <1>3, <1>4 DEF IInv

LEMMA PostReadyKeeps ==
  ASSUME IInv, NEW t \in Threads, PostReady(t)
  PROVE  IInv'
<1> USE ThreadPairs DEF PostReady, Alive, Goto
<1>1. pc' \in [Threads -> Labels] /\ CountInv' /\ SpawnInv' /\ ReadyInv' /\ ChildInv' /\ JoinInv'
  BY ThreadMoves DEF Labels, Indexed, IInv, TypeOK
<1>2. TypeOK'
  BY <1>1 DEF IInv, TypeOK
<1>3. MutexInv'
  BY DEF IInv, TypeOK, MutexInv, Critical
<1> QED BY <1>1, <1>2, <1>3 DEF IInv

(* The thread with the last index begins the next stage. *)
LEMMA CheckLastKeeps ==
  ASSUME IInv, NEW t \in Threads, CheckLast(t)
  PROVE  IInv'
<1> USE ThreadPairs DEF CheckLast, Alive, Goto
<1>1. pc' \in [Threads -> Labels] /\ CountInv' /\ ReadyInv' /\ ChildInv' /\ JoinInv'
  BY ThreadMoves DEF Labels, Indexed, IInv, TypeOK
<1>2. TypeOK'
  BY <1>1 DEF IInv, TypeOK
<1>3. MutexInv'
  BY DEF IInv, TypeOK, MutexInv, Critical
<1>4. SpawnInv'
  <2>1. CASE IsLast(t) /\ HasNext(t)
    <3>1. \A u \in StageThreads(stageOf(t)) : pc[u] \in Indexed
      BY <2>1, LastMeansAll DEF Indexed
    <3>2. /\ pc' = [pc EXCEPT ![t] = "spawn"] /\ pc[t] = "last" /\ stageOf(t) + 1 \in Stages
          /\ spawner' = [spawner EXCEPT ![stageOf(t) + 1] = t]
      BY <2>1 DEF HasNext
    <3>3. \A s \in Stages : s + 1 \in Stages /\ Begun(s) => Begun(s)'
      <4>1. \A u \in Threads : pc[u] \in Indexed => pc'[u] \in Indexed
        BY <3>2 DEF IInv, TypeOK, Indexed
      <4>2. \A s \in Stages : s + 1 \in Stages =>
              stageOf(spawner'[s + 1]) = s \/ spawner'[s + 1] = spawner[s + 1]
        <5>1. DOMAIN spawner = Stages /\ stageOf(t) \in Int /\ \A s \in Stages : s \in Int
          BY DEF IInv, TypeOK, Stages
        <5> QED BY ONLY <3>2, <5>1
      <4> QED BY <4>1, <4>2 DEF Begun, StageThreads
    <3>4. Begun(stageOf(t))'
      BY <3>1, <3>2 DEF Begun, StageThreads, Indexed, IInv, TypeOK
    <3>5. ASSUME NEW u \in Threads
          PROVE  /\ pc'[u] = "spawn" => stageOf(u) + 1 \in Stages /\ Begun(stageOf(u))'
                 /\ pc'[u] # "none" /\ stageOf(u) > 0 => Begun(stageOf(u) - 1)'
      <4>1. /\ stageOf(u) \in Stages
            /\ stageOf(u) > 0 => stageOf(u) - 1 \in Stages /\ stageOf(u) - 1 + 1 = stageOf(u)
        BY TreeAssumption DEF Stages
      <4>2. CASE u = t
        BY <3>2, <3>3, <3>4, <4>1, <4>2 DEF IInv, TypeOK, SpawnInv
      <4>3. CASE u # t
        BY <3>2, <3>3, <4>1, <4>3 DEF IInv, TypeOK, SpawnInv
      <4> QED BY <4>2, <4>3
    <3> QED BY <3>5 DEF SpawnInv
  <2>2. CASE ~(IsLast(t) /\ HasNext(t))
    BY <2>2, ThreadMoves DEF IInv, TypeOK, Labels, Indexed
  <2> QED BY <2>1, <2>2
<1> QED BY <1>1, <1>2, <1>3, <1>4 DEF IInv

LEMMA ThreadSpawnedKeeps ==
  ASSUME IInv, NEW t \in Threads, ThreadSpawned(t)
  PROVE  IInv'
<1> USE ThreadPairs DEF ThreadSpawned, Alive, Goto
<1>1. pc' \in [Threads -> Labels] /\ CountInv' /\ SpawnInv' /\ ReadyInv' /\ ChildInv' /\ JoinInv'
  BY ThreadMoves DEF Labels, Indexed, IInv, TypeOK
<1>2. TypeOK'
  BY <1>1 DEF IInv, TypeOK
<1>3. MutexInv'
  BY DEF IInv, TypeOK, MutexInv, Critical
<1> QED BY <1>1, <1>2, <1>3 DEF IInv

(* A thread is created once, so nobody loses its index. *)
LEMMA SpawnKeeps ==
  ASSUME IInv, NEW s \in Stages, SpawnOne(s), s > 0 => Begun(s - 1),
         UNCHANGED <<exit_count, mutex, sem_ready, ready, index, spawner, main, stage, i, joined>>
  PROVE  IInv'
<1> DEFINE t == <<s, child[s]>>
<1>1. t \in Threads /\ stageOf(t) = s /\ t[2] = child[s]
  BY StageSize, PairThreads DEF SpawnOne, IInv, TypeOK
<1>2. pc[t] = "none" /\ pc' = [pc EXCEPT ![t] = "run"] /\ child' = [child EXCEPT ![s] = @ + 1]
  BY <1>1 DEF SpawnOne, IInv, TypeOK, ChildInv
<1> HIDE DEF t
<1>3. TypeOK'
  BY <1>1, <1>2 DEF IInv, TypeOK, Labels
<1>4. \A u \in Threads : pc'[u] \in Indexed <=> pc[u] \in Indexed
  BY <1>1, <1>2 DEF IInv, TypeOK, Indexed
<1>5. MutexInv'
  BY <1>1, <1>2 DEF IInv, TypeOK, MutexInv, Critical
<1>6. CountInv'
  <2>1. \A r \in Stages : Counted(r)' = Counted(r)
    BY <1>4 DEF Counted, StageThreads
  <2> QED BY <1>1, <1>2, <1>4, <2>1 DEF IInv, TypeOK, CountInv
<1>7. SpawnInv'
  BY <1>1, <1>2, <1>4 DEF IInv, TypeOK, SpawnInv, Begun, StageThreads
<1>8. ReadyInv'
  BY <1>4 DEF IInv, ReadyInv, StageThreads
<1>9. ChildInv'
  <2> SUFFICES ASSUME NEW u \in Threads, u[2] >= child'[stageOf(u)] PROVE pc'[u] = "none"
    BY DEF ChildInv
  <2>1. u[2] \in Nat /\ stageOf(u) \in Stages
    BY ThreadPairs, StageSize
  <2>2. u # t
    BY <1>1, <1>2, <2>1 DEF IInv, TypeOK
  <2>3. u[2] >= child[stageOf(u)]
    BY <1>2, <2>1 DEF IInv, TypeOK
  <2> QED BY <1>2, <2>2, <2>3 DEF IInv, TypeOK, ChildInv
<1>10. JoinInv'
  BY <1>4 DEF IInv, JoinInv, JoinedOf, TypeOK
<1> QED BY <1>3, <1>5, <1>6, <1>7, <1>8, <1>9, <1>10 DEF IInv

LEMMA ThreadSpawnKeeps ==
  ASSUME IInv, NEW t \in Threads, ThreadSpawn(t)
  PROVE  IInv'
<1> DEFINE s == stageOf(t) + 1
<1>1. s \in Stages /\ Begun(stageOf(t)) /\ SpawnOne(s) /\ stageOf(t) \in Nat
  BY ThreadPairs DEF ThreadSpawn, Alive, IInv, SpawnInv, Stages
<1>2. s > 0 /\ s - 1 = stageOf(t)
  BY <1>1
<1>3. UNCHANGED <<exit_count, mutex, sem_ready, ready, index, spawner, main, stage, i, joined>>
  BY DEF ThreadSpawn
<1> HIDE DEF s
<1> QED BY <1>1, <1>2, <1>3, SpawnKeeps

-----------------------------------------------------------------------------
(* The steps of main. *)

LEMMA MainSpawnKeeps ==
  ASSUME IInv, MainSpawn
  PROVE  IInv'
BY TreeAssumption, SpawnKeeps DEF MainSpawn, Stages

LEMMA MainWaits ==
  ASSUME IInv, MainSpawned \/ WaitReady \/ JoinNull \/ FreeTask
  PROVE  IInv'
<1> USE DEF MainSpawned, WaitReady, JoinNull, FreeTask
<1>1. UNCHANGED <<exit_count, mutex, ready, pc, index, spawner, child, stage, i, joined>>
  OBVIOUS
<1>2. TypeOK'
  BY DEF IInv, TypeOK
<1>3. MutexInv' /\ CountInv' /\ SpawnInv' /\ ReadyInv' /\ ChildInv'
  BY <1>1 DEF IInv, MutexInv, CountInv, Counted, SpawnInv, Begun, ReadyInv, ChildInv
<1>4. JoinInv'
  BY <1>1 DEF IInv, JoinInv, JoinedOf
<1> QED BY <1>2, <1>3, <1>4 DEF IInv

(* The thread that is joined has index i and was not joined before. *)
LEMMA JoinReadyKeeps ==
  ASSUME IInv, JoinReady
  PROVE  IInv'
<1> DEFINE u == ready[stage][i]
<1>1. stage \in Stages /\ i \in 0 .. nb_threads - 1 /\ i < nb_thread(stage)
  <2>1. stage \in Stages /\ i \in Nat /\ i < nb_thread(stage)
    BY DEF JoinReady, IInv, TypeOK, JoinInv
  <2>2. nb_thread(stage) \in Nat /\ nb_thread(stage) <= nb_threads /\ nb_threads \in Nat
    BY <2>1, StageSize, TreeAssumption
  <2> QED BY ONLY <2>1, <2>2
<1>2. u \in StageThreads(stage) /\ u \in Threads /\ stageOf(u) = stage /\ index[u] = i
      /\ pc[u] \in Indexed
  BY <1>1 DEF JoinReady, IInv, ReadyInv, StageThreads
<1>3. /\ joined' = joined \cup {u} /\ i' = i + 1 /\ main' = "wait"
      /\ UNCHANGED <<exit_count, mutex, sem_ready, ready, pc, index, spawner, child, stage>>
  BY DEF JoinReady
<1> HIDE DEF u
<1>4. TypeOK'
  BY <1>2, <1>3 DEF IInv, TypeOK
<1>5. MutexInv' /\ CountInv' /\ SpawnInv' /\ ReadyInv' /\ ChildInv'
  BY <1>3 DEF IInv, MutexInv, CountInv, Counted, SpawnInv, Begun, ReadyInv, ChildInv
<1>6. JoinInv'
  <2>1. u \notin joined /\ JoinedOf(stage)' = JoinedOf(stage) \cup {u}
    BY <1>2, <1>3 DEF IInv, TypeOK, JoinInv, JoinedOf
  <2>2. u \notin JoinedOf(stage) /\ JoinedOf(stage) \in SUBSET StageThreads(stage)
    BY <2>1 DEF JoinedOf
  <2>3. Cardinality(JoinedOf(stage)') = Cardinality(JoinedOf(stage)) + 1
    BY <1>1, <2>1, <2>2, StageSubset, FS_AddElement
  <2>4. Cardinality(JoinedOf(stage)) = i
    BY <1>1 DEF IInv, JoinInv
  <2> QED BY <1>1, <1>2, <1>3, <2>3, <2>4 DEF IInv, TypeOK, JoinInv
<1> QED BY <1>4, <1>5, <1>6 DEF IInv

(* All nb_thread threads of the stage have been joined. *)
LEMMA NextStageKeeps ==
  ASSUME IInv, NextStage
  PROVE  IInv'
<1> USE DEF NextStage
<1>1. stage \in Stages /\ stage \in Nat /\ stage + 1 \in 0 .. nb_stages
  BY TreeAssumption DEF Stages
<1>2. TypeOK'
  BY <1>1 DEF IInv, TypeOK
<1>3. MutexInv' /\ CountInv' /\ SpawnInv' /\ ReadyInv' /\ ChildInv'
  BY DEF IInv, MutexInv, CountInv, Counted, SpawnInv, Begun, ReadyInv, ChildInv
<1>4. StageThreads(stage) \subseteq joined
  <2>1. Cardinality(JoinedOf(stage)) = nb_thread(stage)
    BY <1>1 DEF IInv, JoinInv
  <2>2. JoinedOf(stage) = StageThreads(stage)
    BY <1>1, <2>1, StageSubset DEF JoinedOf
  <2> QED BY <2>2 DEF JoinedOf
<1>5. JoinInv'
  <2>1. stage + 1 \in Stages \/ stage + 1 = nb_stages
    BY <1>1, TreeAssumption DEF Stages
  <2>2. JoinedOf(stage + 1) = {}
    BY <1>1 DEF IInv, JoinInv, JoinedOf, StageThreads
  <2>3. ASSUME NEW t \in Threads, stageOf(t) < stage + 1 PROVE t \in joined
    <3>1. stageOf(t) \in Int
      BY ThreadPairs DEF Stages
    <3>2. CASE stageOf(t) = stage
      BY <1>4, <3>2 DEF StageThreads
    <3>3. CASE stageOf(t) < stage
      BY <3>3 DEF IInv, JoinInv
    <3> QED BY <1>1, <2>3, <3>1, <3>2, <3>3
  <2>4. ASSUME NEW t \in joined
        PROVE  stageOf(t) <= stage + 1 /\ stageOf(t) # stage + 1 /\ pc[t] \in Indexed
    <3>1. stageOf(t) \in Int /\ stageOf(t) <= stage /\ pc[t] \in Indexed
      BY ThreadPairs DEF Stages, IInv, TypeOK, JoinInv
    <3> QED BY <1>1, <3>1
  <2>5. Cardinality(JoinedOf(stage + 1)) = 0
    BY <2>2, FS_EmptySet
  <2>6. JoinedOf(stage)' = JoinedOf(stage + 1)
    BY DEF JoinedOf
  <2> QED BY <1>1, <2>1, <2>3, <2>4, <2>5, <2>6 DEF JoinInv
<1> QED BY <1>2, <1>3, <1>5 DEF IInv

LEMMA StutterKeeps ==
  ASSUME IInv, UNCHANGED vars
  PROVE  IInv'
<1> USE DEF IInv, vars
<1>1. TypeOK' /\ JoinInv'
  BY DEF TypeOK, JoinInv, JoinedOf
<1>2. MutexInv' /\ CountInv' /\ SpawnInv' /\ ReadyInv' /\ ChildInv'
  BY DEF MutexInv, CountInv, Counted, SpawnInv, Begun, ReadyInv, ChildInv
<1> QED BY <1>1, <1>2

LEMMA NextKeeps == IInv /\ [Next]_vars => IInv'
BY LockKeeps, ReadCountKeeps, StoreCountKeeps, UnlockKeeps, AddReadyKeeps, PostReadyKeeps,
   CheckLastKeeps, ThreadSpawnKeeps, ThreadSpawnedKeeps, MainSpawnKeeps, MainWaits,
   JoinReadyKeeps, NextStageKeeps, StutterKeeps
   DEF Next, MainStep, thread_worker

LEMMA Invariant == Spec => []IInv
BY InitInv, NextKeeps, PTL DEF Spec

(* A stage is spawned by a thread of the stage before that has the last    *)
(* index, and at that time all threads of that stage have theirs.          *)
THEOREM StagesDoNotOverlap == Spec => []StagesInOrder
<1>1. IInv => StagesInOrder
  <2> SUFFICES ASSUME IInv, NEW t \in Threads, pc[t] # "none", stageOf(t) > 0
               PROVE  /\ stageOf(spawner[stageOf(t)]) = stageOf(t) - 1
                      /\ \A u \in Threads : stageOf(u) = stageOf(t) - 1 => pc[u] \in Indexed
    BY DEF StagesInOrder, Indexed
  <2>1. Begun(stageOf(t) - 1)
    BY DEF IInv, SpawnInv
  <2>2. (stageOf(t) - 1) + 1 = stageOf(t)
    BY ThreadPairs DEF Stages
  <2> QED BY <2>1, <2>2 DEF Begun, StageThreads
<1> QED BY <1>1, Invariant, PTL

(* free_task comes after the join of every thread of every stage. *)
THEOREM FreedAfterJoins == Spec => []NoUseAfterFree
<1>1. IInv => NoUseAfterFree
  <2> SUFFICES ASSUME IInv, main = "end" PROVE joined = Threads
    BY DEF NoUseAfterFree
  <2>1. \A t \in Threads : stageOf(t) < stage
    BY ThreadPairs, TreeAssumption DEF IInv, JoinInv, Stages
  <2> QED BY <2>1 DEF IInv, TypeOK, JoinInv
<1> QED BY <1>1, Invariant, PTL

=============================================================================
