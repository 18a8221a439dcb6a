------------------------- MODULE PipelineRefinement -------------------------
(***************************************************************************)
(* How the rings and semaphores of Pipeline implement the three stages of  *)
(* PipelineStages, and the invariant that makes them do so.                *)
(***************************************************************************)
EXTENDS Pipeline

Ended(w) == pc[w] \in {"postend", "done"}

(* Items that have left a stage.  Worker 2 keeps no count: the number of   *)
(* the item it holds tells how far it is.                                  *)
made  == IF pc[1] = "postbusy" THEN processed + 1 ELSE processed
moved == IF pc[2] = "write" \/ Ended(2) THEN c[2].id - 1 ELSE c[2].id
ended == IF pc[3] = "done" THEN 3 ELSE
         IF Ended(2) THEN 2 ELSE
         IF Ended(1) THEN 1 ELSE 0

Stages == INSTANCE PipelineStages
            WITH made <- made, moved <- moved, delivered <- delivered, ended <- ended

(* Pipeline implements PipelineStages: whatever the interleaving of the    *)
(* threads, ring slots and semaphores behave as bounded FIFO channels.     *)
ImplementsStages == Stages!Spec

-----------------------------------------------------------------------------
(* The inductive invariant *)

One(b) == IF b THEN 1 ELSE 0

(* What stage s (1 or 2) puts at position j: the j-th item, or the -1. *)
Passed(s, j) == Item(j + 1, IF j < MAX_ITEMS THEN s ELSE -1)

LabelsInv ==
  /\ pc[1] \in {"wait", "write", "postbusy", "postend", "done"}
  /\ pc[2] \in {"wait", "waitfree", "read", "write", "postfree", "postbusy",
                "postend", "done"}
  /\ pc[3] \in {"wait", "read", "write", "postfree", "done"}

(* A slot is counted by one of the two semaphores or held by a thread. *)
TokenInv ==
  /\ sem_free[0] + One(pc[1] \in {"write", "postbusy", "postend"}) + sem_busy[0]
       + One(pc[2] \in {"waitfree", "read", "write", "postfree", "postend", "done"})
     = QUEUE_LENGTH
  /\ sem_free[1] + One(pc[2] \in {"read", "write", "postfree", "postbusy", "postend"})
       + sem_busy[1] + One(pc[3] \in {"read", "write", "postfree", "done"})
     = QUEUE_LENGTH

(* Entries a stage has written, the -1 included. *)
written1 == made + One(Ended(1))
written2 == moved + One(Ended(2))

(* Entries written and not yet consumed. *)
OccupancyInv ==
  /\ written1 - moved
     = One(pc[1] \in {"postbusy", "postend"}) + sem_busy[0]
       + One(pc[2] \in {"waitfree", "read", "write", "postend", "done"})
  /\ written2 - delivered
     = One(pc[2] \in {"postfree", "postbusy", "postend"}) + sem_busy[1]
       + One(pc[3] \in {"read", "write", "done"})

(* Each private index is the stage's count modulo the length of the ring. *)
IndexInv ==
  /\ ip[0] = made % QUEUE_LENGTH
  /\ ic[0] = moved % QUEUE_LENGTH
  /\ ip[1] = moved % QUEUE_LENGTH
  /\ ic[1] = delivered % QUEUE_LENGTH

ContentsInv ==
  /\ \A j \in moved .. written1 - 1 :
        data[0][j % QUEUE_LENGTH] = Passed(1, j)
  /\ \A j \in delivered .. written2 - 1 :
        data[1][j % QUEUE_LENGTH] = Passed(2, j)

(* What a worker holds in its local c. *)
HeldInv ==
  /\ moved \in 0 .. MAX_ITEMS
  /\ pc[2] = "write" \/ Ended(2) => c[2] = Passed(1, moved)
  /\ pc[3] \in {"write", "done"} => c[3] = Passed(2, delivered)

EndInv ==
  /\ made <= MAX_ITEMS
  /\ Ended(1) => processed = MAX_ITEMS
  /\ Ended(2) => moved = MAX_ITEMS
  /\ pc[3] = "done" => delivered = MAX_ITEMS
  /\ \A w \in Workers : main >= PIPELINE_DEPTH + w => pc[w] = "done"

(* The inductive invariant of Pipeline: every slot is accounted for by a   *)
(* semaphore or a thread, and the occupied slots hold consecutive items.   *)
IInv ==
  /\ TypeOK /\ LabelsInv /\ TokenInv /\ OccupancyInv
  /\ IndexInv /\ ContentsInv /\ HeldInv /\ EndInv

=============================================================================
