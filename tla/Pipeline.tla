------------------------------ MODULE Pipeline ------------------------------
(***************************************************************************)
(* wk-pipeline (src/pipeline.c): three worker threads connected by two     *)
(* bounded ring queues.  Each queue is an array of QUEUE_LENGTH slots      *)
(* guarded by two counting semaphores, sem_free and sem_busy; its index ip *)
(* is private to the producing thread and ic to the consuming one, so the  *)
(* slots and the semaphores are the only shared state and one step of this *)
(* module touches at most one of them.                                     *)
(*                                                                         *)
(* A slot holds the char the code stores (val) and, as a history field     *)
(* that no guard reads, the number of the item it belongs to (id).         *)
(***************************************************************************)
EXTENDS Integers

CONSTANTS QUEUE_LENGTH, MAX_ITEMS

ASSUME ConstantsAssumption ==
  /\ QUEUE_LENGTH \in Nat \ {0}
  /\ MAX_ITEMS \in Nat

PIPELINE_DEPTH == 3
Queues  == 0 .. PIPELINE_DEPTH - 2
Workers == 1 .. PIPELINE_DEPTH
Slots   == 0 .. QUEUE_LENGTH - 1

VARIABLES
  data, sem_free, sem_busy, ip, ic,  \* queue_t queues[PIPELINE_DEPTH - 1]
  pc,                                \* the next statement of each worker
  c,                                 \* the local char c of each worker
  processed,                         \* the local counter of worker_1
  delivered,                         \* history: items worker_3 has finished
  main                               \* pthread_create and pthread_join calls done

queues == <<data, sem_free, sem_busy, ip, ic>>
vars   == <<data, sem_free, sem_busy, ip, ic, pc, c, processed, delivered, main>>

Item(n, v) == [id |-> n, val |-> v]
Empty      == Item(0, 0)
Items      == [id : 0 .. MAX_ITEMS + 1, val : -1 .. PIPELINE_DEPTH]

Labels == {"wait", "waitfree", "read", "write", "postfree", "postbusy",
           "postend", "done"}

(* Mutant: one token more than the ring has slots. *)
InitExtraToken ==
  /\ data = [q \in Queues |-> [i \in Slots |-> Empty]]
  /\ sem_free = [q \in Queues |-> QUEUE_LENGTH + 1]
  /\ sem_busy = [q \in Queues |-> 0]
  /\ ip = [q \in Queues |-> 0]
  /\ ic = [q \in Queues |-> 0]
  /\ pc = [w \in Workers |-> "wait"]
  /\ c = [w \in Workers |-> Empty]
  /\ processed = 0 /\ delivered = 0 /\ main = 0

Init ==
  /\ data = [q \in Queues |-> [i \in Slots |-> Empty]]
  /\ sem_free = [q \in Queues |-> QUEUE_LENGTH]
  /\ sem_busy = [q \in Queues |-> 0]
  /\ ip = [q \in Queues |-> 0]
  /\ ic = [q \in Queues |-> 0]
  /\ pc = [w \in Workers |-> "wait"]
  /\ c = [w \in Workers |-> Empty]
  /\ processed = 0
  /\ delivered = 0
  /\ main = 0

-----------------------------------------------------------------------------
(* Building blocks *)

Created(w) == main >= w

At(w, here) == Created(w) /\ pc[w] = here

Goto(w, there) == pc' = [pc EXCEPT ![w] = there]

sem_wait(sem, q) == sem[q] > 0 /\ sem' = [sem EXCEPT ![q] = @ - 1]
(* Mutant: the post is lost when the semaphore is already positive, as     *)
(* with a binary semaphore.                                                *)
sem_post_binary(sem, q) == sem' = [sem EXCEPT ![q] = IF @ > 0 THEN @ ELSE 1]

sem_post(sem, q) == sem' = [sem EXCEPT ![q] = @ + 1]

(* Writing a slot; only a real item advances the index past it. *)
Store(q, item) == data' = [data EXCEPT ![q][ip[q]] = item]
Advance(i, q)  == i' = [i EXCEPT ![q] = (@ + 1) % QUEUE_LENGTH]

do_action(item) == [item EXCEPT !.val = @ + 1]

-----------------------------------------------------------------------------
(* worker_1: fills queue 0 with MAX_ITEMS items, then with the value -1. *)

Worker1Wait ==
  /\ At(1, "wait")
  /\ sem_wait(sem_free, 0)
  /\ Goto(1, "write")
  /\ UNCHANGED <<data, sem_busy, ip, ic, c, processed, delivered, main>>

(* Mutant: the first stage forgets to advance ip. *)
Worker1WriteSameSlot ==
  /\ At(1, "write")
  /\ processed < MAX_ITEMS
  /\ Store(0, do_action(Item(processed + 1, 0)))
  /\ Goto(1, "postbusy")
  /\ UNCHANGED <<sem_free, sem_busy, ip, ic, c, processed, delivered, main>>

Worker1Write ==
  /\ At(1, "write")
  /\ processed < MAX_ITEMS
  /\ Store(0, do_action(Item(processed + 1, 0)))
  /\ Advance(ip, 0)
  /\ Goto(1, "postbusy")
  /\ UNCHANGED <<sem_free, sem_busy, ic, c, processed, delivered, main>>

Worker1Post ==
  /\ At(1, "postbusy")
  /\ sem_post(sem_busy, 0)
  /\ processed' = processed + 1
  /\ Goto(1, "wait")
  /\ UNCHANGED <<data, sem_free, ip, ic, c, delivered, main>>

Worker1End ==
  /\ At(1, "write")
  /\ processed >= MAX_ITEMS
  /\ Store(0, Item(processed + 1, -1))
  /\ Goto(1, "postend")
  /\ UNCHANGED <<sem_free, sem_busy, ip, ic, c, processed, delivered, main>>

Worker1PostEnd ==
  /\ At(1, "postend")
  /\ sem_post(sem_busy, 0)
  /\ Goto(1, "done")
  /\ UNCHANGED <<data, sem_free, ip, ic, c, processed, delivered, main>>

-----------------------------------------------------------------------------
(* worker_2: moves items from queue 0 to queue 1.  It takes a slot of both *)
(* queues before it reads, and gives both back after it has written.       *)

(* Mutant: the slot is given back before it is read. *)
Worker2WaitEarlyFree ==
  /\ At(2, "wait")
  /\ sem_wait(sem_busy, 0)
  /\ sem_post(sem_free, 0)
  /\ Goto(2, "waitfree")
  /\ UNCHANGED <<data, ip, ic, c, processed, delivered, main>>

Worker2Wait ==
  /\ At(2, "wait")
  /\ sem_wait(sem_busy, 0)
  /\ Goto(2, "waitfree")
  /\ UNCHANGED <<data, sem_free, ip, ic, c, processed, delivered, main>>

Worker2WaitFree ==
  /\ At(2, "waitfree")
  /\ sem_wait(sem_free, 1)
  /\ Goto(2, "read")
  /\ UNCHANGED <<data, sem_busy, ip, ic, c, processed, delivered, main>>

Worker2Read ==
  /\ At(2, "read")
  /\ c' = [c EXCEPT ![2] = data[0][ic[0]]]
  /\ Goto(2, "write")
  /\ UNCHANGED <<queues, processed, delivered, main>>

Worker2Write ==
  /\ At(2, "write")
  /\ c[2].val >= 0
  /\ c' = [c EXCEPT ![2] = do_action(@)]
  /\ Store(1, do_action(c[2]))
  /\ Advance(ic, 0)
  /\ Advance(ip, 1)
  /\ Goto(2, "postfree")
  /\ UNCHANGED <<sem_free, sem_busy, processed, delivered, main>>

Worker2PostFree ==
  /\ At(2, "postfree")
  /\ sem_post(sem_free, 0)
  /\ Goto(2, "postbusy")
  /\ UNCHANGED <<data, sem_busy, ip, ic, c, processed, delivered, main>>

Worker2PostBusy ==
  /\ At(2, "postbusy")
  /\ sem_post(sem_busy, 1)
  /\ Goto(2, "wait")
  /\ UNCHANGED <<data, sem_free, ip, ic, c, processed, delivered, main>>

Worker2End ==
  /\ At(2, "write")
  /\ c[2].val < 0
  /\ Store(1, c[2])
  /\ Goto(2, "postend")
  /\ UNCHANGED <<sem_free, sem_busy, ip, ic, c, processed, delivered, main>>

Worker2PostEnd ==
  /\ At(2, "postend")
  /\ sem_post(sem_busy, 1)
  /\ Goto(2, "done")
  /\ UNCHANGED <<data, sem_free, ip, ic, c, processed, delivered, main>>

-----------------------------------------------------------------------------
(* worker_3: drains queue 1 until it reads a negative value. *)

Worker3Wait ==
  /\ At(3, "wait")
  /\ sem_wait(sem_busy, 1)
  /\ Goto(3, "read")
  /\ UNCHANGED <<data, sem_free, ip, ic, c, processed, delivered, main>>

Worker3Read ==
  /\ At(3, "read")
  /\ c' = [c EXCEPT ![3] = data[1][ic[1]]]
  /\ Goto(3, "write")
  /\ UNCHANGED <<queues, processed, delivered, main>>

Worker3Process ==
  /\ At(3, "write")
  /\ c[3].val >= 0
  /\ c' = [c EXCEPT ![3] = do_action(@)]
  /\ delivered' = delivered + 1
  /\ Advance(ic, 1)
  /\ Goto(3, "postfree")
  /\ UNCHANGED <<data, sem_free, sem_busy, ip, processed, main>>

Worker3PostFree ==
  /\ At(3, "postfree")
  /\ sem_post(sem_free, 1)
  /\ Goto(3, "wait")
  /\ UNCHANGED <<data, sem_busy, ip, ic, c, processed, delivered, main>>

Worker3End ==
  /\ At(3, "write")
  /\ c[3].val < 0
  /\ Goto(3, "done")
  /\ UNCHANGED <<queues, c, processed, delivered, main>>

-----------------------------------------------------------------------------
(* main: creates the three threads in order, then joins them in order. *)

MainCreate ==
  /\ main < PIPELINE_DEPTH
  /\ main' = main + 1
  /\ UNCHANGED <<queues, pc, c, processed, delivered>>

(* Mutant: main joins only the first threads. *)
MainJoinFirst ==
  /\ main \in PIPELINE_DEPTH .. 2 * PIPELINE_DEPTH - 1
  /\ pc[1] = "done"
  /\ main' = main + 1
  /\ UNCHANGED <<queues, pc, c, processed, delivered>>

MainJoin ==
  /\ main \in PIPELINE_DEPTH .. 2 * PIPELINE_DEPTH - 1
  /\ pc[main - PIPELINE_DEPTH + 1] = "done"
  /\ main' = main + 1
  /\ UNCHANGED <<queues, pc, c, processed, delivered>>

Exited == main = 2 * PIPELINE_DEPTH

Terminated == Exited /\ UNCHANGED vars

Worker1 == Worker1Wait \/ Worker1Write \/ Worker1Post \/ Worker1End \/ Worker1PostEnd

Worker2 == \/ Worker2Wait \/ Worker2WaitFree \/ Worker2Read \/ Worker2Write
           \/ Worker2PostFree \/ Worker2PostBusy \/ Worker2End \/ Worker2PostEnd

Worker3 == Worker3Wait \/ Worker3Read \/ Worker3Process \/ Worker3PostFree \/ Worker3End

Main == MainCreate \/ MainJoin

Next == Worker1 \/ Worker2 \/ Worker3 \/ Main \/ Terminated

Spec == Init /\ [][Next]_vars

(* Every thread that can run is eventually scheduled. *)
Fairness == WF_vars(Worker1) /\ WF_vars(Worker2) /\ WF_vars(Worker3) /\ WF_vars(Main)

FairSpec == Spec /\ Fairness

-----------------------------------------------------------------------------
(* Every variable keeps its C type and every ring index stays inside its   *)
(* array; no semaphore is ever posted above the capacity of its queue.     *)
TypeOK ==
  /\ data \in [Queues -> [Slots -> Items]]
  /\ sem_free \in [Queues -> 0 .. QUEUE_LENGTH]
  /\ sem_busy \in [Queues -> 0 .. QUEUE_LENGTH]
  /\ ip \in [Queues -> Slots]
  /\ ic \in [Queues -> Slots]
  /\ pc \in [Workers -> Labels]
  /\ c \in [Workers -> Items]
  /\ processed \in 0 .. MAX_ITEMS
  /\ delivered \in 0 .. MAX_ITEMS
  /\ main \in 0 .. 2 * PIPELINE_DEPTH

(* The semaphores are the only synchronisation of the slots: a thread that *)
(* is about to write a slot of a queue and the thread that is about to     *)
(* read one never touch the same slot.                                     *)
NoSlotRace ==
  /\ pc[1] = "write" /\ pc[2] = "read" => ip[0] # ic[0]
  /\ pc[2] = "write" /\ pc[3] = "read" => ip[1] # ic[1]

(* The item in the hands of the last stage is the next one in the order in *)
(* which worker_1 made them, and has been through each earlier stage       *)
(* exactly once; -1 reaches worker_3 only after all MAX_ITEMS items.       *)
InOrder ==
  pc[3] = "write" =>
    \/ delivered < MAX_ITEMS /\ c[3] = Item(delivered + 1, 2)
    \/ delivered = MAX_ITEMS /\ c[3].val = -1

(* When main returns, every item went through all three stages and only    *)
(* the slot of the -1 is still taken in each queue.                        *)
DrainedAtExit ==
  Exited => /\ delivered = MAX_ITEMS
            /\ \A q \in Queues : /\ sem_busy[q] = 0
                                 /\ sem_free[q] = QUEUE_LENGTH - 1
                                 /\ ip[q] = ic[q]

(* The program always ends: no wait on a semaphore and no join blocks      *)
(* forever.                                                                *)
Termination == <>Exited

=============================================================================
