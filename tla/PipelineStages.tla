--------------------------- MODULE PipelineStages ---------------------------
(***************************************************************************)
(* What wk-pipeline promises: items 1, 2, ..., MAX_ITEMS pass through      *)
(* three stages one after the other, none is lost, repeated or overtaken,  *)
(* a stage runs at most QUEUE_LENGTH items ahead of the next one, and a    *)
(* stage ends only after it has passed on everything.  Rings, semaphores   *)
(* and threads do not appear here: Pipeline implements this specification. *)
(***************************************************************************)
EXTENDS Integers

CONSTANTS QUEUE_LENGTH, MAX_ITEMS

VARIABLES
  made, moved, delivered,  \* items that have left stage 1, 2 and 3
  ended                    \* how many stages have ended, in pipeline order

vars == <<made, moved, delivered, ended>>

Init == made = 0 /\ moved = 0 /\ delivered = 0 /\ ended = 0

Make ==
  /\ ended = 0
  /\ made < MAX_ITEMS
  /\ made - moved < QUEUE_LENGTH
  /\ made' = made + 1
  /\ UNCHANGED <<moved, delivered, ended>>

Move ==
  /\ moved < made
  /\ moved - delivered < QUEUE_LENGTH
  /\ moved' = moved + 1
  /\ UNCHANGED <<made, delivered, ended>>

Deliver ==
  /\ delivered < moved
  /\ delivered' = delivered + 1
  /\ UNCHANGED <<made, moved, ended>>

End ==
  /\ ended < 3
  /\ <<made, moved, delivered>>[ended + 1] = MAX_ITEMS
  /\ ended' = ended + 1
  /\ UNCHANGED <<made, moved, delivered>>

Next == Make \/ Move \/ Deliver \/ End

Spec == Init /\ [][Next]_vars

=============================================================================
