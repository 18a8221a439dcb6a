--------------------------- MODULE PipelineProofs ---------------------------
(***************************************************************************)
(* Proofs about Pipeline, for every QUEUE_LENGTH > 0 and every MAX_ITEMS:  *)
(* the inductive invariant IInv, and from it type correctness, the absence *)
(* of slot races, the order of the items, the state at exit, and that      *)
(* Pipeline implements PipelineStages.                                     *)
(***************************************************************************)
EXTENDS PipelineRefinement, TLAPS

-----------------------------------------------------------------------------
(* Indices that wrap around a ring of N slots. *)

(* The quotient and the remainder of a natural number. *)
LEMMA DivMod ==
  ASSUME NEW N \in Nat \ {0}, NEW x \in Nat
  PROVE  x % N \in 0 .. N - 1 /\ x \div N \in Nat /\ x = N * (x \div N) + (x % N)
OBVIOUS

(* If q exceeds p, N * q exceeds N * p by at least N. *)
LEMMA MultiplesApart ==
  ASSUME NEW N \in Nat \ {0}, NEW p \in Int, NEW q \in Int, p < q
  PROVE  N * q >= N * p + N
<1>1. PICK d \in Nat : q = p + 1 + d
  <2> q - p - 1 \in Nat
    OBVIOUS
  <2> WITNESS q - p - 1 \in Nat
  <2> QED OBVIOUS
<1>2. N * q = N * p + N + N * d
  BY <1>1
<1>3. N * d >= 0
  OBVIOUS
<1> QED BY <1>2, <1>3

(* The remainder is determined by any way of writing x as a multiple of N  *)
(* plus a slot number.                                                     *)
LEMMA ModIs ==
  ASSUME NEW N \in Nat \ {0}, NEW q \in Nat, NEW r \in 0 .. N - 1,
         NEW x \in Nat, x = N * q + r
  PROVE  x % N = r
<1>1. PICK p \in Nat, m \in 0 .. N - 1 : x = N * p + m /\ m = x % N
  BY DivMod
<1>2. ~ (p < q)
  BY <1>1, MultiplesApart
<1>3. ~ (q < p)
  BY <1>1, MultiplesApart
<1>4. p = q
  BY <1>2, <1>3
<1>5. N * p = N * q
  BY <1>4
<1> QED BY <1>1, <1>5

(* Advancing an index that is a count modulo N gives the next count        *)
(* modulo N.                                                               *)
LEMMA ModSucc ==
  ASSUME NEW N \in Nat \ {0}, NEW x \in Nat
  PROVE  ((x % N) + 1) % N = (x + 1) % N
<1>1. PICK q \in Nat, r \in 0 .. N - 1 : x = N * q + r /\ r = x % N
  BY DivMod
<1> DEFINE y == x + 1
<1>2. CASE r + 1 < N
  <2> DEFINE s == r + 1
  <2>1. s % N = s
    BY <1>2
  <2>2. y \in Nat /\ s \in 0 .. N - 1 /\ y = N * q + s
    BY <1>1, <1>2
  <2> HIDE DEF y, s
  <2>3. y % N = s
    BY <2>2, ModIs
  <2> QED BY <1>1, <2>1, <2>3 DEF y, s
<1>3. CASE r + 1 = N
  <2> DEFINE p == q + 1
  <2>1. N % N = 0
    OBVIOUS
  <2>2. y \in Nat /\ p \in Nat /\ y = N * p + 0
    BY <1>1, <1>3
  <2> HIDE DEF y, p
  <2>3. y % N = 0
    BY <2>2, ModIs
  <2> QED BY <1>1, <1>3, <2>1, <2>3 DEF y
<1> QED BY <1>2, <1>3

(* Two counts less than N apart use different slots. *)
LEMMA ModApart ==
  ASSUME NEW N \in Nat \ {0}, NEW x \in Nat, NEW y \in Nat, x < y, y < x + N
  PROVE  x % N # y % N
<1>1. PICK p \in Nat, r \in 0 .. N - 1 : x = N * p + r /\ r = x % N
  BY DivMod
<1>2. PICK q \in Nat, s \in 0 .. N - 1 : y = N * q + s /\ s = y % N
  BY DivMod
<1>3. SUFFICES ASSUME r = s PROVE FALSE
  BY <1>1, <1>2
<1>4. N * q - N * p > 0 /\ N * q - N * p < N
  BY <1>1, <1>2, <1>3
<1>5. p < q
  BY <1>4
<1> QED BY <1>4, <1>5, MultiplesApart

-----------------------------------------------------------------------------
(* What a stage passes on is a value of the slots' type. *)
LEMMA PassedType ==
  ASSUME NEW s \in {1, 2}, NEW j \in 0 .. MAX_ITEMS
  PROVE  Passed(s, j) \in Items
BY ConstantsAssumption DEF Passed, Item, Items, PIPELINE_DEPTH

(* The effect of a Store on the slots. *)
LEMMA StoreEffect ==
  ASSUME TypeOK, NEW q \in Queues, NEW i \in Slots, NEW item \in Items,
         data' = [data EXCEPT ![q][i] = item]
  PROVE  /\ data' \in [Queues -> [Slots -> Items]]
         /\ data'[q][i] = item
         /\ \A k \in Slots \ {i} : data'[q][k] = data[q][k]
         /\ \A r \in Queues \ {q} : data'[r] = data[r]
<1> USE DEF TypeOK
<1>1. data'[q] = [data[q] EXCEPT ![i] = item]
  OBVIOUS
<1>2. data[q] \in [Slots -> Items]
  OBVIOUS
<1>3. data'[q] \in [Slots -> Items]
  BY <1>1, <1>2
<1> QED BY <1>1, <1>2, <1>3

(* The counts behind the ring indices are natural numbers, the slots they  *)
(* select exist, and the window of a ring never exceeds its length.        *)
LEMMA Counts ==
  ASSUME IInv
  PROVE  /\ made \in 0 .. MAX_ITEMS
         /\ moved \in 0 .. MAX_ITEMS
         /\ delivered \in 0 .. MAX_ITEMS
         /\ written1 \in made .. made + 1
         /\ written2 \in moved .. moved + 1
         /\ moved <= written1
         /\ delivered <= written2
         /\ written1 <= moved + QUEUE_LENGTH
         /\ written2 <= delivered + QUEUE_LENGTH
BY ConstantsAssumption
   DEF IInv, TypeOK, LabelsInv, TokenInv, OccupancyInv, HeldInv, EndInv, made, moved,
       written1, written2, Ended, One, Queues, Workers, PIPELINE_DEPTH

(* A count modulo QUEUE_LENGTH is a slot. *)
LEMMA SlotOf ==
  ASSUME NEW j \in Nat
  PROVE  j % QUEUE_LENGTH \in Slots
BY ConstantsAssumption, DivMod DEF Slots

(* The slot after that of a count is the slot of the next count. *)
LEMMA NextSlot ==
  ASSUME NEW j \in Nat
  PROVE  ((j % QUEUE_LENGTH) + 1) % QUEUE_LENGTH = (j + 1) % QUEUE_LENGTH
BY ConstantsAssumption, ModSucc

(* The oldest entry of a ring that is not empty is where ic points. *)
LEMMA Heads ==
  ASSUME IInv
  PROVE  /\ moved < written1 => data[0][ic[0]] = Passed(1, moved)
         /\ delivered < written2 => data[1][ic[1]] = Passed(2, delivered)
BY Counts DEF IInv, IndexInv, ContentsInv

(* A step that writes no slot, and at most consumes, keeps the contents. *)
LEMMA ContentsFrame ==
  ASSUME IInv, UNCHANGED <<data, written1, written2>>,
         moved' >= moved, moved' \in Nat, delivered' >= delivered, delivered' \in Nat
  PROVE  ContentsInv'
BY Counts DEF IInv, ContentsInv

(* Worker 1 writes past the last entry of ring 0, which is not full. *)
LEMMA ContentsWrite1 ==
  ASSUME IInv, written1 = made, made < moved + QUEUE_LENGTH,
         data' = [data EXCEPT ![0][made % QUEUE_LENGTH] = Passed(1, made)],
         written1' = made + 1, UNCHANGED <<moved, delivered, written2>>
  PROVE  ContentsInv' /\ data' \in [Queues -> [Slots -> Items]]
<1>1. made % QUEUE_LENGTH \in Slots /\ Passed(1, made) \in Items
  BY Counts, SlotOf, PassedType
<1>2. 0 \in Queues /\ 1 \in Queues \ {0} /\ TypeOK
  BY DEF Queues, PIPELINE_DEPTH, IInv
<1>3. /\ data' \in [Queues -> [Slots -> Items]]
      /\ data'[0][made % QUEUE_LENGTH] = Passed(1, made)
      /\ \A k \in Slots \ {made % QUEUE_LENGTH} : data'[0][k] = data[0][k]
      /\ data'[1] = data[1]
  BY <1>1, <1>2, StoreEffect
<1>4. \A j \in moved .. made - 1 : data'[0][j % QUEUE_LENGTH] = Passed(1, j)
  <2> TAKE j \in moved .. made - 1
  <2>1. j \in Nat /\ j < made /\ made < j + QUEUE_LENGTH
    BY Counts, ConstantsAssumption
  <2>2. j % QUEUE_LENGTH \in Slots \ {made % QUEUE_LENGTH}
    BY <2>1, Counts, ConstantsAssumption, SlotOf, ModApart
  <2>3. data[0][j % QUEUE_LENGTH] = Passed(1, j)
    BY DEF IInv, ContentsInv
  <2> QED BY <1>3, <2>2, <2>3
<1>5. \A j \in moved .. made : j = made \/ j \in moved .. made - 1
  BY Counts
<1>6. \A j \in moved' .. written1' - 1 : data'[0][j % QUEUE_LENGTH] = Passed(1, j)
  BY <1>3, <1>4, <1>5, Counts
<1>7. \A j \in delivered' .. written2' - 1 : data'[1][j % QUEUE_LENGTH] = Passed(2, j)
  BY <1>3 DEF IInv, ContentsInv
<1> QED BY <1>3, <1>6, <1>7 DEF ContentsInv

(* Worker 2 writes past the last entry of ring 1, which is not full, and   *)
(* at most consumes an entry of ring 0.                                    *)
LEMMA ContentsWrite2 ==
  ASSUME IInv, written2 = moved, moved < delivered + QUEUE_LENGTH,
         data' = [data EXCEPT ![1][moved % QUEUE_LENGTH] = Passed(2, moved)],
         moved' \in Nat, moved' >= moved,
         written2' = moved + 1, UNCHANGED <<delivered, written1>>
  PROVE  ContentsInv' /\ data' \in [Queues -> [Slots -> Items]]
<1>1. moved % QUEUE_LENGTH \in Slots /\ Passed(2, moved) \in Items
  BY Counts, SlotOf, PassedType
<1>2. 1 \in Queues /\ 0 \in Queues \ {1} /\ TypeOK
  BY DEF Queues, PIPELINE_DEPTH, IInv
<1>3. /\ data' \in [Queues -> [Slots -> Items]]
      /\ data'[1][moved % QUEUE_LENGTH] = Passed(2, moved)
      /\ \A k \in Slots \ {moved % QUEUE_LENGTH} : data'[1][k] = data[1][k]
      /\ data'[0] = data[0]
  <2> DEFINE slot == moved % QUEUE_LENGTH
             item == Passed(2, moved)
  <2>1. data' = [data EXCEPT ![1][slot] = item]
    OBVIOUS
  <2> HIDE DEF slot, item
  <2>2. slot \in Slots /\ item \in Items
    BY <1>1 DEF slot, item
  <2>3. /\ data' \in [Queues -> [Slots -> Items]] /\ data'[1][slot] = item
        /\ \A k \in Slots \ {slot} : data'[1][k] = data[1][k]
        /\ \A r \in Queues \ {1} : data'[r] = data[r]
    <3>1. data[1] \in [Slots -> Items] /\ data \in [Queues -> [Slots -> Items]]
      BY <1>2 DEF TypeOK
    <3>2. data' = [data EXCEPT ![1] = [data[1] EXCEPT ![slot] = item]]
      BY <2>1
    <3>3. [data[1] EXCEPT ![slot] = item] \in [Slots -> Items]
      BY ONLY <2>2, <3>1
    <3> QED BY ONLY <1>2, <2>2, <3>1, <3>2, <3>3
  <2> QED BY ONLY <1>2, <2>3 DEF slot, item
<1>4. \A j \in delivered .. moved - 1 : data'[1][j % QUEUE_LENGTH] = Passed(2, j)
  <2> TAKE j \in delivered .. moved - 1
  <2>1. j \in Nat /\ j < moved /\ moved < j + QUEUE_LENGTH
    BY Counts, ConstantsAssumption
  <2>2. j % QUEUE_LENGTH \in Slots \ {moved % QUEUE_LENGTH}
    BY <2>1, Counts, ConstantsAssumption, SlotOf, ModApart
  <2>3. data[1][j % QUEUE_LENGTH] = Passed(2, j)
    BY DEF IInv, ContentsInv
  <2> QED BY <1>3, <2>2, <2>3
<1>5. \A j \in delivered .. moved : j = moved \/ j \in delivered .. moved - 1
  BY Counts
<1>6. \A j \in delivered' .. written2' - 1 : data'[1][j % QUEUE_LENGTH] = Passed(2, j)
  BY <1>3, <1>4, <1>5, Counts
<1>7. \A j \in moved' .. written1' - 1 : data'[0][j % QUEUE_LENGTH] = Passed(1, j)
  BY <1>3, Counts DEF IInv, ContentsInv
<1> QED BY <1>3, <1>6, <1>7 DEF ContentsInv

-----------------------------------------------------------------------------
(* What the writes, the reads and the index updates do to ring and items. *)

(* Passing an entry on: a real item goes through do_action, the -1 is      *)
(* copied as it is.                                                        *)
LEMMA PassOn ==
  ASSUME NEW j \in 0 .. MAX_ITEMS
  PROVE  /\ j < MAX_ITEMS => do_action(Item(j + 1, 0)) = Passed(1, j)
         /\ j = MAX_ITEMS => Item(j + 1, -1) = Passed(1, j)
         /\ Passed(1, j).val >= 0 => j < MAX_ITEMS /\ do_action(Passed(1, j)) = Passed(2, j)
         /\ Passed(1, j).val < 0 => j = MAX_ITEMS /\ Passed(1, j) = Passed(2, j)
         /\ Passed(2, j).val >= 0 => j < MAX_ITEMS /\ do_action(Passed(2, j)) \in Items
         /\ Passed(2, j).val < 0 => j = MAX_ITEMS
         /\ Passed(1, j).id = j + 1 /\ Passed(2, j).id = j + 1
BY ConstantsAssumption DEF Passed, Item, Items, do_action, PIPELINE_DEPTH

(* Worker 1 fills the slot at position made: with the next item, or, when  *)
(* all items are made, with the -1.                                        *)
LEMMA Worker1Fills ==
  ASSUME IInv, Worker1Write \/ Worker1End
  PROVE  /\ ContentsInv' /\ data' \in [Queues -> [Slots -> Items]]
         /\ ip' \in [Queues -> Slots] /\ ip'[0] = made' % QUEUE_LENGTH /\ ip'[1] = ip[1]
<1> USE DEF IInv, TypeOK, HeldInv, Queues, Workers, PIPELINE_DEPTH, At, Goto, Store, Advance
<1>1. /\ pc[1] = "write" /\ made = processed /\ written1 = made
      /\ made' = IF Worker1Write THEN made + 1 ELSE made
      /\ written1' = made + 1
      /\ UNCHANGED <<moved, delivered, written2>>
  BY ConstantsAssumption DEF Worker1Write, Worker1End, made, moved, written1, written2, Ended, One
<1>2. made < moved + QUEUE_LENGTH
  BY <1>1, ConstantsAssumption DEF TokenInv, OccupancyInv, LabelsInv, One
<1>3. data' = [data EXCEPT ![0][made % QUEUE_LENGTH] = Passed(1, made)]
  <2>1. CASE Worker1Write
    BY <1>1, <2>1, PassOn, Counts DEF Worker1Write, IndexInv
  <2>2. CASE Worker1End
    <3>1. processed = MAX_ITEMS
      BY <1>1, <2>2, Counts, ConstantsAssumption DEF Worker1End
    <3> QED BY <1>1, <2>2, <3>1, PassOn, Counts DEF Worker1End, IndexInv
  <2> QED BY <2>1, <2>2
<1>4. ContentsInv' /\ data' \in [Queues -> [Slots -> Items]]
  BY <1>1, <1>2, <1>3, ContentsWrite1
<1>5. CASE Worker1Write
  <2>1. /\ ((made % QUEUE_LENGTH) + 1) % QUEUE_LENGTH = (made + 1) % QUEUE_LENGTH
        /\ (made + 1) % QUEUE_LENGTH \in Slots
    BY Counts, NextSlot, SlotOf
  <2>2. ip' = [ip EXCEPT ![0] = (ip[0] + 1) % QUEUE_LENGTH] /\ ip[0] = made % QUEUE_LENGTH
    BY <1>5 DEF Worker1Write, IndexInv
  <2>3. made' = made + 1
    BY <1>1, <1>5
  <2> QED BY <1>4, <2>1, <2>2, <2>3
<1>6. CASE Worker1End
  <2>1. ~ Worker1Write
    BY <1>1, <1>6, Counts DEF Worker1Write, Worker1End
  <2> QED BY <1>1, <1>4, <1>6, <2>1 DEF Worker1End, IndexInv
<1> QED BY <1>5, <1>6

(* Worker 2 holds the entry at position moved of ring 0 and fills the slot *)
(* at that position of ring 1.                                             *)
LEMMA Worker2Fills ==
  ASSUME IInv, Worker2Write \/ Worker2End
  PROVE  /\ ContentsInv' /\ data' \in [Queues -> [Slots -> Items]]
         /\ ip' \in [Queues -> Slots] /\ ip'[0] = ip[0] /\ ip'[1] = moved' % QUEUE_LENGTH
         /\ ic' \in [Queues -> Slots] /\ ic'[0] = moved' % QUEUE_LENGTH /\ ic'[1] = ic[1]
         /\ moved' = IF Worker2Write THEN moved + 1 ELSE moved
         /\ c' \in [Workers -> Items] /\ c'[3] = c[3]
         /\ written2 = moved /\ written2' = moved + 1 /\ written1' = written1
         /\ Worker2Write => moved < MAX_ITEMS
         /\ Worker2End => moved = MAX_ITEMS /\ c'[2] = Passed(1, moved)
<1> USE DEF IInv, TypeOK, Queues, Workers, PIPELINE_DEPTH, At, Goto, Store, Advance
<1>1. pc[2] = "write" /\ c[2] = Passed(1, moved) /\ moved = c[2].id - 1 /\ written2 = moved
  BY Counts DEF Worker2Write, Worker2End, HeldInv, moved, written2, Ended, One
<1>2. moved < delivered + QUEUE_LENGTH
  BY <1>1, Counts, ConstantsAssumption DEF TokenInv, OccupancyInv, LabelsInv, One
<1>3. ip[1] = moved % QUEUE_LENGTH /\ ic[0] = moved % QUEUE_LENGTH
  BY DEF IndexInv
<1>4. CASE Worker2Write
  <2>1. moved < MAX_ITEMS /\ do_action(c[2]) = Passed(2, moved)
    BY <1>1, <1>4, Counts, PassOn DEF Worker2Write
  <2>2. /\ c' = [c EXCEPT ![2] = Passed(2, moved)]
        /\ data' = [data EXCEPT ![1][moved % QUEUE_LENGTH] = Passed(2, moved)]
    BY <1>3, <1>4, <2>1 DEF Worker2Write
  <2>3. pc' = [pc EXCEPT ![2] = "postfree"] /\ UNCHANGED <<delivered, processed>>
    BY <1>4 DEF Worker2Write
  <2>4. c'[2].id = moved + 1 /\ c' \in [Workers -> Items] /\ c'[3] = c[3]
    BY <2>2, Counts, PassOn, PassedType
  <2>5. moved' = moved + 1
    BY <2>3, <2>4 DEF moved, Ended
  <2>6. written2' = moved + 1 /\ UNCHANGED <<delivered, written1>>
    BY <2>3, <2>5, Counts DEF written1, written2, made, Ended, One
  <2>7. ContentsInv' /\ data' \in [Queues -> [Slots -> Items]]
    BY <1>1, <1>2, <2>2, <2>5, <2>6, Counts, ContentsWrite2
  <2>8. /\ ((moved % QUEUE_LENGTH) + 1) % QUEUE_LENGTH = (moved + 1) % QUEUE_LENGTH
        /\ (moved + 1) % QUEUE_LENGTH \in Slots
    BY Counts, NextSlot, SlotOf
  <2>9. /\ ip' = [ip EXCEPT ![1] = (moved + 1) % QUEUE_LENGTH]
        /\ ic' = [ic EXCEPT ![0] = (moved + 1) % QUEUE_LENGTH]
    BY <1>3, <1>4, <2>8 DEF Worker2Write
  <2>10. ~ Worker2End
    BY <1>1, <2>1, <1>4, Counts, PassOn DEF Worker2Write, Worker2End, Passed, Item
  <2> QED BY <1>1, <1>4, <2>1, <2>4, <2>5, <2>6, <2>7, <2>8, <2>9, <2>10
<1>5. CASE Worker2End
  <2>1. moved = MAX_ITEMS /\ c[2] = Passed(2, moved)
    BY <1>1, <1>5, Counts, PassOn DEF Worker2End
  <2>2. /\ data' = [data EXCEPT ![1][moved % QUEUE_LENGTH] = Passed(2, moved)]
        /\ pc' = [pc EXCEPT ![2] = "postend"]
        /\ UNCHANGED <<c, ip, ic, delivered, processed>>
    BY <1>3, <1>5, <2>1 DEF Worker2End
  <2>3. moved' = moved
    BY <1>1, <2>2 DEF moved, Ended
  <2>4. written2' = moved + 1 /\ UNCHANGED <<delivered, written1>>
    BY <2>2, <2>3, Counts DEF written1, written2, made, Ended, One
  <2>5. ContentsInv' /\ data' \in [Queues -> [Slots -> Items]]
    BY <1>1, <1>2, <2>2, <2>3, <2>4, Counts, ContentsWrite2
  <2>6. ~ Worker2Write
    BY <1>1, <2>1, <1>5, Counts, PassOn, ConstantsAssumption DEF Worker2Write, Worker2End, Passed, Item
  <2> QED BY <1>1, <1>3, <1>5, <2>1, <2>2, <2>3, <2>4, <2>5, <2>6
<1> QED BY <1>4, <1>5

(* The reads take the oldest entry of the ring. *)
LEMMA Reads ==
  ASSUME IInv
  PROVE  /\ Worker2Read => c' = [c EXCEPT ![2] = Passed(1, moved)] /\ moved' = moved
         /\ Worker3Read => c' = [c EXCEPT ![3] = Passed(2, delivered)]
         /\ Worker2Read \/ Worker3Read =>
              c' \in [Workers -> Items] /\ UNCHANGED <<moved, written1, written2>>
<1> USE DEF IInv, TypeOK, Queues, Workers, PIPELINE_DEPTH, At, Goto, queues
<1>1. ASSUME Worker2Read
      PROVE  /\ c' = [c EXCEPT ![2] = Passed(1, moved)] /\ c' \in [Workers -> Items]
             /\ UNCHANGED <<moved, written1, written2>>
  <2>1. pc[2] = "read" /\ moved < written1
    BY <1>1, Counts DEF Worker2Read, OccupancyInv, LabelsInv, One
  <2>2. c' = [c EXCEPT ![2] = Passed(1, moved)]
    BY <1>1, <2>1, Heads DEF Worker2Read
  <2>5. Passed(1, moved) \in Items /\ Passed(1, moved).id = moved + 1
    BY Counts, PassedType, PassOn
  <2>6. c' \in [Workers -> Items] /\ c'[2].id = moved + 1
    BY <2>2, <2>5
  <2>3. pc' = [pc EXCEPT ![2] = "write"] /\ processed' = processed
    BY <1>1 DEF Worker2Read
  <2>4. moved' = moved
    BY <2>1, <2>3, <2>6, Counts DEF moved, Ended
  <2> QED BY <2>1, <2>2, <2>3, <2>4, <2>6 DEF written1, written2, made, Ended, One
<1>2. ASSUME Worker3Read
      PROVE  /\ c' = [c EXCEPT ![3] = Passed(2, delivered)] /\ c' \in [Workers -> Items]
             /\ UNCHANGED <<moved, written1, written2>>
  <2>1. pc[3] = "read" /\ delivered < written2
    BY <1>2, Counts DEF Worker3Read, OccupancyInv, LabelsInv, One
  <2>2. c' = [c EXCEPT ![3] = Passed(2, delivered)]
    BY <1>2, <2>1, Heads DEF Worker3Read
  <2>3. c' \in [Workers -> Items] /\ c'[2] = c[2]
    BY <2>2, Counts, PassedType
  <2>4. UNCHANGED <<moved, made>>
    BY <1>2, <2>3 DEF Worker3Read, moved, made, Ended
  <2>5. \A w \in {1, 2} : pc'[w] = pc[w]
    BY <1>2 DEF Worker3Read
  <2>6. UNCHANGED <<written1, written2>>
    BY <2>4, <2>5 DEF written1, written2, Ended
  <2> QED BY <2>2, <2>3, <2>4, <2>6
<1> QED BY <1>1, <1>2

(* Worker 3 finishes the entry at position delivered. *)
LEMMA Worker3Finishes ==
  ASSUME IInv, Worker3Process
  PROVE  /\ delivered < MAX_ITEMS
         /\ ic' \in [Queues -> Slots] /\ ic'[0] = ic[0] /\ ic'[1] = delivered' % QUEUE_LENGTH
         /\ c' \in [Workers -> Items] /\ c'[2] = c[2]
<1> USE DEF IInv, TypeOK, Queues, Workers, PIPELINE_DEPTH, At, Advance
<1>1. c[3] = Passed(2, delivered) /\ c[3].val >= 0
  BY DEF Worker3Process, HeldInv
<1>2. delivered < MAX_ITEMS /\ do_action(c[3]) \in Items
  BY <1>1, Counts, PassOn
<1>3. /\ ((delivered % QUEUE_LENGTH) + 1) % QUEUE_LENGTH = (delivered + 1) % QUEUE_LENGTH
      /\ (delivered + 1) % QUEUE_LENGTH \in Slots
  BY Counts, NextSlot, SlotOf
<1>4. ic' = [ic EXCEPT ![1] = (delivered + 1) % QUEUE_LENGTH] /\ delivered' = delivered + 1
  BY <1>3 DEF Worker3Process, IndexInv
<1> QED BY <1>2, <1>3, <1>4 DEF Worker3Process

-----------------------------------------------------------------------------
(* Init establishes the inductive invariant. *)
LEMMA InitInv == Init => IInv
<1> SUFFICES ASSUME Init PROVE IInv
  OBVIOUS
<1> USE ConstantsAssumption
<1>1. Empty \in Items
  BY DEF Empty, Item, Items, PIPELINE_DEPTH
<1>2. TypeOK
  BY <1>1 DEF Init, TypeOK, Queues, Workers, Slots, PIPELINE_DEPTH, Labels
<1>3. made = 0 /\ moved = 0 /\ written1 = 0 /\ written2 = 0
  BY DEF Init, made, moved, written1, written2, Ended, One, Workers, PIPELINE_DEPTH, Empty, Item
<1>4. LabelsInv /\ EndInv /\ HeldInv
  BY <1>3 DEF Init, LabelsInv, EndInv, HeldInv, Ended, Workers, PIPELINE_DEPTH
<1>5. TokenInv /\ OccupancyInv
  BY <1>3 DEF Init, TokenInv, OccupancyInv, One, Queues, Workers, PIPELINE_DEPTH
<1>6. IndexInv /\ ContentsInv
  BY <1>3 DEF Init, IndexInv, ContentsInv, Queues, PIPELINE_DEPTH
<1> QED BY <1>2, <1>4, <1>5, <1>6 DEF IInv

(* Every step preserves the inductive invariant. *)
LEMMA StepInv == IInv /\ [Next]_vars => IInv'
<1> SUFFICES ASSUME IInv, [Next]_vars PROVE IInv'
  OBVIOUS
<1> USE ConstantsAssumption
        DEF TypeOK, LabelsInv, TokenInv, OccupancyInv, IndexInv, HeldInv, EndInv,
            PIPELINE_DEPTH, Queues, Workers, made, moved, written1, written2, Ended, One,
            At, Created, Goto, sem_wait, sem_post, Labels, queues
<1>1. CASE Worker1Wait
  <2> USE <1>1 DEF IInv, Worker1Wait
  <2>1. UNCHANGED <<data, moved, delivered, written1, written2>>
    OBVIOUS
  <2>2. ContentsInv'
    BY <2>1, ContentsFrame, Counts
  <2>3. TypeOK'
    OBVIOUS
  <2>4. LabelsInv' /\ EndInv'
    OBVIOUS
  <2>5. TokenInv'
    OBVIOUS
  <2>6. OccupancyInv'
    OBVIOUS
  <2>7. IndexInv' /\ HeldInv'
    OBVIOUS
  <2> QED BY <2>2, <2>3, <2>4, <2>5, <2>6, <2>7
<1>2. CASE Worker1Write
  <2> USE <1>2 DEF IInv, Worker1Write
  <2> USE DEF Store, Advance
  <2>2. /\ ContentsInv' /\ data' \in [Queues -> [Slots -> Items]]
        /\ ip' \in [Queues -> Slots] /\ ip'[0] = made' % QUEUE_LENGTH /\ ip'[1] = ip[1]
    BY Worker1Fills
  <2>3. TypeOK'
    BY <2>2
  <2>4. LabelsInv' /\ EndInv'
    OBVIOUS
  <2>5. TokenInv'
    OBVIOUS
  <2>6. OccupancyInv'
    OBVIOUS
  <2>7. IndexInv' /\ HeldInv'
    BY <2>2
  <2> QED BY <2>2, <2>3, <2>4, <2>5, <2>6, <2>7
<1>3. CASE Worker1Post
  <2> USE <1>3 DEF IInv, Worker1Post
  <2>1. UNCHANGED <<data, moved, delivered, written1, written2>>
    OBVIOUS
  <2>2. ContentsInv'
    BY <2>1, ContentsFrame, Counts
  <2>3. TypeOK'
    OBVIOUS
  <2>4. LabelsInv' /\ EndInv'
    OBVIOUS
  <2>5. TokenInv'
    OBVIOUS
  <2>6. OccupancyInv'
    OBVIOUS
  <2>7. IndexInv' /\ HeldInv'
    OBVIOUS
  <2> QED BY <2>2, <2>3, <2>4, <2>5, <2>6, <2>7
<1>4. CASE Worker1End
  <2> USE <1>4 DEF IInv, Worker1End
  <2> USE DEF Store, Advance
  <2>2. /\ ContentsInv' /\ data' \in [Queues -> [Slots -> Items]]
        /\ ip' \in [Queues -> Slots] /\ ip'[0] = made' % QUEUE_LENGTH /\ ip'[1] = ip[1]
    BY Worker1Fills
  <2>3. TypeOK'
    BY <2>2
  <2>4. LabelsInv' /\ EndInv'
    OBVIOUS
  <2>5. TokenInv'
    OBVIOUS
  <2>6. OccupancyInv'
    OBVIOUS
  <2>7. IndexInv' /\ HeldInv'
    BY <2>2
  <2> QED BY <2>2, <2>3, <2>4, <2>5, <2>6, <2>7
<1>5. CASE Worker1PostEnd
  <2> USE <1>5 DEF IInv, Worker1PostEnd
  <2>1. UNCHANGED <<data, moved, delivered, written1, written2>>
    OBVIOUS
  <2>2. ContentsInv'
    BY <2>1, ContentsFrame, Counts
  <2>3. TypeOK'
    OBVIOUS
  <2>4. LabelsInv' /\ EndInv'
    OBVIOUS
  <2>5. TokenInv'
    OBVIOUS
  <2>6. OccupancyInv'
    OBVIOUS
  <2>7. IndexInv' /\ HeldInv'
    OBVIOUS
  <2> QED BY <2>2, <2>3, <2>4, <2>5, <2>6, <2>7
<1>6. CASE Worker2Wait
  <2> USE <1>6 DEF IInv, Worker2Wait
  <2>1. UNCHANGED <<data, moved, delivered, written1, written2>>
    OBVIOUS
  <2>2. ContentsInv'
    BY <2>1, ContentsFrame, Counts
  <2>3. TypeOK'
    OBVIOUS
  <2>4. LabelsInv' /\ EndInv'
    OBVIOUS
  <2>5. TokenInv'
    OBVIOUS
  <2>6. OccupancyInv'
    OBVIOUS
  <2>7. IndexInv' /\ HeldInv'
    OBVIOUS
  <2> QED BY <2>2, <2>3, <2>4, <2>5, <2>6, <2>7
<1>7. CASE Worker2WaitFree
  <2> USE <1>7 DEF IInv, Worker2WaitFree
  <2>1. UNCHANGED <<data, moved, delivered, written1, written2>>
    OBVIOUS
  <2>2. ContentsInv'
    BY <2>1, ContentsFrame, Counts
  <2>3. TypeOK'
    OBVIOUS
  <2>4. LabelsInv' /\ EndInv'
    OBVIOUS
  <2>5. TokenInv'
    OBVIOUS
  <2>6. OccupancyInv'
    OBVIOUS
  <2>7. IndexInv' /\ HeldInv'
    OBVIOUS
  <2> QED BY <2>2, <2>3, <2>4, <2>5, <2>6, <2>7
<1>8. CASE Worker2Read
  <2> USE <1>8 DEF IInv, Worker2Read
  <2>1. /\ c' = [c EXCEPT ![2] = Passed(1, moved)] /\ c' \in [Workers -> Items]
        /\ UNCHANGED <<data, moved, delivered, written1, written2>>
    BY Reads
  <2>2. ContentsInv'
    BY ONLY IInv, <2>1, ContentsFrame, Counts
  <2>3. TypeOK'
    BY <2>1
  <2>4. LabelsInv' /\ EndInv'
    BY <2>1
  <2>5. TokenInv'
    BY <2>1
  <2>6. OccupancyInv'
    <3>1. /\ pc[2] = "read" /\ pc' = [pc EXCEPT ![2] = "write"] /\ pc \in [Workers -> Labels]
          /\ UNCHANGED <<sem_busy>> /\ OccupancyInv
      BY DEF Labels
    <3> QED BY ONLY <2>1, <3>1 DEF OccupancyInv, One, Workers, PIPELINE_DEPTH
  <2>7. IndexInv' /\ HeldInv'
    <3>1. /\ pc[2] = "read" /\ pc' = [pc EXCEPT ![2] = "write"] /\ pc \in [Workers -> Labels]
          /\ UNCHANGED <<ip, ic, processed>>
          /\ IndexInv /\ HeldInv /\ c \in [Workers -> Items]
      OBVIOUS
    <3>2. IndexInv'
      BY ONLY <2>1, <3>1 DEF IndexInv, made, Workers, PIPELINE_DEPTH
    <3>3. c'[2] = Passed(1, moved) /\ c'[3] = c[3] /\ pc'[3] = pc[3]
      BY ONLY <2>1, <3>1 DEF Workers, PIPELINE_DEPTH
    <3>4. Passed(1, moved)' = Passed(1, moved') /\ Passed(2, delivered)' = Passed(2, delivered')
      BY ONLY <2>1 DEF Passed
    <3> QED BY ONLY <2>1, <3>1, <3>2, <3>3, <3>4 DEF HeldInv, Ended
  <2> QED BY <2>2, <2>3, <2>4, <2>5, <2>6, <2>7
<1>9. CASE Worker2Write
  <2> USE <1>9 DEF IInv, Worker2Write
  <2> USE DEF Store, Advance
  <2>2. /\ ContentsInv' /\ data' \in [Queues -> [Slots -> Items]]
        /\ ip' \in [Queues -> Slots] /\ ip'[0] = ip[0] /\ ip'[1] = moved' % QUEUE_LENGTH
        /\ ic' \in [Queues -> Slots] /\ ic'[0] = moved' % QUEUE_LENGTH /\ ic'[1] = ic[1]
        /\ c' \in [Workers -> Items] /\ c'[3] = c[3]
        /\ moved' = moved + 1 /\ moved < MAX_ITEMS
    BY Worker2Fills
  <2>1. /\ written2 = moved /\ written2' = moved + 1 /\ written1' = written1
        /\ moved' = moved + 1
    BY Worker2Fills
  <2>3. TypeOK'
    BY <2>2
  <2>4. LabelsInv' /\ EndInv'
    BY <2>2
  <2>5. TokenInv'
    BY <2>2
  <2>6. OccupancyInv'
      <3> HIDE DEF moved, made, written1, written2, IndexInv, HeldInv, EndInv
    <3> QED BY <2>1, Counts
  <2>7. IndexInv' /\ HeldInv'
    BY <2>2
  <2> QED BY <2>2, <2>3, <2>4, <2>5, <2>6, <2>7
<1>10. CASE Worker2PostFree
  <2> USE <1>10 DEF IInv, Worker2PostFree
  <2>1. UNCHANGED <<data, moved, delivered, written1, written2>>
    OBVIOUS
  <2>2. ContentsInv'
    BY <2>1, ContentsFrame, Counts
  <2>3. TypeOK'
    OBVIOUS
  <2>4. LabelsInv' /\ EndInv'
    OBVIOUS
  <2>5. TokenInv'
    OBVIOUS
  <2>6. OccupancyInv'
    OBVIOUS
  <2>7. IndexInv' /\ HeldInv'
    OBVIOUS
  <2> QED BY <2>2, <2>3, <2>4, <2>5, <2>6, <2>7
<1>11. CASE Worker2PostBusy
  <2> USE <1>11 DEF IInv, Worker2PostBusy
  <2>1. UNCHANGED <<data, moved, delivered, written1, written2>>
    OBVIOUS
  <2>2. ContentsInv'
    BY <2>1, ContentsFrame, Counts
  <2>3. TypeOK'
    OBVIOUS
  <2>4. LabelsInv' /\ EndInv'
    OBVIOUS
  <2>5. TokenInv'
    OBVIOUS
  <2>6. OccupancyInv'
    OBVIOUS
  <2>7. IndexInv' /\ HeldInv'
    OBVIOUS
  <2> QED BY <2>2, <2>3, <2>4, <2>5, <2>6, <2>7
<1>12. CASE Worker2End
  <2> USE <1>12 DEF IInv, Worker2End
  <2> USE DEF Store, Advance
  <2>2. /\ ContentsInv' /\ data' \in [Queues -> [Slots -> Items]]
        /\ ip' \in [Queues -> Slots] /\ ip'[0] = ip[0] /\ ip'[1] = moved' % QUEUE_LENGTH
        /\ ic' \in [Queues -> Slots] /\ ic'[0] = moved' % QUEUE_LENGTH /\ ic'[1] = ic[1]
        /\ c' \in [Workers -> Items] /\ c'[3] = c[3]
        /\ moved' = moved /\ moved = MAX_ITEMS /\ c'[2] = Passed(1, moved)
    BY Worker2Fills
  <2>1. /\ written2 = moved /\ written2' = moved + 1 /\ written1' = written1
        /\ moved' = moved
    BY Worker2Fills
  <2>3. TypeOK'
    BY <2>2
  <2>4. LabelsInv' /\ EndInv'
    BY <2>2
  <2>5. TokenInv'
    BY <2>2
  <2>6. OccupancyInv'
      <3> HIDE DEF moved, made, written1, written2, IndexInv, HeldInv, EndInv
    <3> QED BY <2>1, Counts
  <2>7. IndexInv' /\ HeldInv'
    BY <2>2
  <2> QED BY <2>2, <2>3, <2>4, <2>5, <2>6, <2>7
<1>13. CASE Worker2PostEnd
  <2> USE <1>13 DEF IInv, Worker2PostEnd
  <2>1. UNCHANGED <<data, moved, delivered, written1, written2>>
    OBVIOUS
  <2>2. ContentsInv'
    BY <2>1, ContentsFrame, Counts
  <2>3. TypeOK'
    <3>1. pc[2] = "postend" /\ sem_busy' = [sem_busy EXCEPT ![1] = @ + 1]
          /\ TokenInv /\ TypeOK /\ 1 \in Queues
      BY DEF Queues, PIPELINE_DEPTH
    <3>2. sem_busy[1] + 1 \in 0 .. QUEUE_LENGTH
      BY ONLY <3>1, ConstantsAssumption DEF TokenInv, TypeOK, One, Queues, PIPELINE_DEPTH
    <3>3. sem_busy' \in [Queues -> 0 .. QUEUE_LENGTH]
      BY ONLY <3>1, <3>2, ConstantsAssumption DEF TypeOK
    <3> QED BY <3>3
  <2>4. LabelsInv' /\ EndInv'
    OBVIOUS
  <2>5. TokenInv'
    OBVIOUS
  <2>6. OccupancyInv'
    OBVIOUS
  <2>7. IndexInv' /\ HeldInv'
    OBVIOUS
  <2> QED BY <2>2, <2>3, <2>4, <2>5, <2>6, <2>7
<1>14. CASE Worker3Wait
  <2> USE <1>14 DEF IInv, Worker3Wait
  <2>1. UNCHANGED <<data, moved, delivered, written1, written2>>
    OBVIOUS
  <2>2. ContentsInv'
    BY <2>1, ContentsFrame, Counts
  <2>3. TypeOK'
    OBVIOUS
  <2>4. LabelsInv' /\ EndInv'
    OBVIOUS
  <2>5. TokenInv'
    OBVIOUS
  <2>6. OccupancyInv'
    OBVIOUS
  <2>7. IndexInv' /\ HeldInv'
    OBVIOUS
  <2> QED BY <2>2, <2>3, <2>4, <2>5, <2>6, <2>7
<1>15. CASE Worker3Read
  <2> USE <1>15 DEF IInv, Worker3Read
  <2>1. /\ c' = [c EXCEPT ![3] = Passed(2, delivered)] /\ c' \in [Workers -> Items]
        /\ UNCHANGED <<data, moved, delivered, written1, written2>>
    BY Reads
  <2>2. ContentsInv'
    BY <2>1, ContentsFrame, Counts
  <2>3. TypeOK'
    BY <2>1
  <2>4. LabelsInv' /\ EndInv'
    BY <2>1
  <2>5. TokenInv'
    BY <2>1
  <2>6. OccupancyInv'
    BY <2>1
  <2>7. IndexInv' /\ HeldInv'
    BY <2>1
  <2> QED BY <2>2, <2>3, <2>4, <2>5, <2>6, <2>7
<1>16. CASE Worker3Process
  <2> USE <1>16 DEF IInv, Worker3Process
  <2> USE DEF Advance
  <2>1. /\ delivered' = delivered + 1 /\ UNCHANGED <<data, moved, written1, written2>>
        /\ delivered < MAX_ITEMS
        /\ ic' \in [Queues -> Slots] /\ ic'[0] = ic[0] /\ ic'[1] = delivered' % QUEUE_LENGTH
        /\ c' \in [Workers -> Items] /\ c'[2] = c[2]
    BY Worker3Finishes
  <2>2. ContentsInv'
    BY <2>1, ContentsFrame, Counts
  <2>3. TypeOK'
    BY <2>1
  <2>4. LabelsInv' /\ EndInv'
    BY <2>1
  <2>5. TokenInv'
    OBVIOUS
  <2>6. OccupancyInv'
    BY <2>1
  <2>7. IndexInv' /\ HeldInv'
    BY <2>1
  <2> QED BY <2>2, <2>3, <2>4, <2>5, <2>6, <2>7
<1>17. CASE Worker3PostFree
  <2> USE <1>17 DEF IInv, Worker3PostFree
  <2>1. UNCHANGED <<data, moved, delivered, written1, written2>>
    OBVIOUS
  <2>2. ContentsInv'
    BY <2>1, ContentsFrame, Counts
  <2>3. TypeOK'
    OBVIOUS
  <2>4. LabelsInv' /\ EndInv'
    OBVIOUS
  <2>5. TokenInv'
    OBVIOUS
  <2>6. OccupancyInv'
    OBVIOUS
  <2>7. IndexInv' /\ HeldInv'
    OBVIOUS
  <2> QED BY <2>2, <2>3, <2>4, <2>5, <2>6, <2>7
<1>18. CASE Worker3End
  <2> USE <1>18 DEF IInv, Worker3End
  <2>1. UNCHANGED <<data, moved, delivered, written1, written2>>
    OBVIOUS
  <2>2. ContentsInv'
    BY <2>1, ContentsFrame, Counts
  <2>3. TypeOK'
    OBVIOUS
  <2>4. LabelsInv' /\ EndInv'
    BY PassOn, Counts
  <2>5. TokenInv'
    OBVIOUS
  <2>6. OccupancyInv'
    OBVIOUS
  <2>7. IndexInv' /\ HeldInv'
    OBVIOUS
  <2> QED BY <2>2, <2>3, <2>4, <2>5, <2>6, <2>7
<1>19. CASE MainCreate
  <2> USE <1>19 DEF IInv, MainCreate
  <2>1. UNCHANGED <<data, moved, delivered, written1, written2>>
    OBVIOUS
  <2>2. ContentsInv'
    BY <2>1, ContentsFrame, Counts
  <2>3. TypeOK'
    OBVIOUS
  <2>4. LabelsInv' /\ EndInv'
    OBVIOUS
  <2>5. TokenInv'
    OBVIOUS
  <2>6. OccupancyInv'
    OBVIOUS
  <2>7. IndexInv' /\ HeldInv'
    OBVIOUS
  <2> QED BY <2>2, <2>3, <2>4, <2>5, <2>6, <2>7
<1>20. CASE MainJoin
  <2> USE <1>20 DEF IInv, MainJoin
  <2>1. UNCHANGED <<data, moved, delivered, written1, written2>>
    OBVIOUS
  <2>2. ContentsInv'
    BY <2>1, ContentsFrame, Counts
  <2>3. TypeOK'
    OBVIOUS
  <2>4. LabelsInv' /\ EndInv'
    OBVIOUS
  <2>5. TokenInv'
    OBVIOUS
  <2>6. OccupancyInv'
    OBVIOUS
  <2>7. IndexInv' /\ HeldInv'
    OBVIOUS
  <2> QED BY <2>2, <2>3, <2>4, <2>5, <2>6, <2>7
<1>21. CASE UNCHANGED vars
  <2>1. UNCHANGED <<data, moved, delivered, written1, written2>>
    BY <1>21 DEF vars
  <2>2. ContentsInv'
    BY <2>1, ContentsFrame, Counts
  <2> QED BY <1>21, <2>2 DEF vars, IInv
<1> QED
  BY <1>1, <1>2, <1>3, <1>4, <1>5, <1>6, <1>7, <1>8, <1>9, <1>10, <1>11, <1>12, <1>13,
     <1>14, <1>15, <1>16, <1>17, <1>18, <1>19, <1>20, <1>21
  DEF Next, Worker1, Worker2, Worker3, Main, Terminated

-----------------------------------------------------------------------------
(* The inductive invariant holds in every reachable state. *)
THEOREM Invariance == Spec => []IInv
<1>1. Init => IInv
  BY InitInv
<1>2. IInv /\ [Next]_vars => IInv'
  BY StepInv
<1> QED BY <1>1, <1>2, PTL DEF Spec

(* Type correctness: no ring index leaves its array and no semaphore is    *)
(* posted above QUEUE_LENGTH.                                              *)
THEOREM TypeCorrect == Spec => []TypeOK
<1>1. IInv => TypeOK
  BY DEF IInv
<1> QED BY <1>1, Invariance, PTL

(* The semaphores alone keep a writer and a reader of a ring on different  *)
(* slots: between the oldest entry and the next free one there are fewer   *)
(* than QUEUE_LENGTH positions.                                            *)
THEOREM SlotsNeverRace == Spec => []NoSlotRace
<1>1. IInv => NoSlotRace
  <2> SUFFICES ASSUME IInv PROVE NoSlotRace
    OBVIOUS
  <2>1. ASSUME pc[1] = "write", pc[2] = "read" PROVE ip[0] # ic[0]
    <3>1. moved < made /\ made < moved + QUEUE_LENGTH
      BY <2>1, Counts, ConstantsAssumption
      DEF IInv, TypeOK, TokenInv, OccupancyInv, LabelsInv, written1, Ended, One, Queues,
          PIPELINE_DEPTH
    <3> QED BY <3>1, Counts, ConstantsAssumption, ModApart DEF IInv, IndexInv
  <2>2. ASSUME pc[2] = "write", pc[3] = "read" PROVE ip[1] # ic[1]
    <3>1. delivered < moved /\ moved < delivered + QUEUE_LENGTH
      BY <2>2, Counts, ConstantsAssumption
      DEF IInv, TypeOK, TokenInv, OccupancyInv, LabelsInv, written2, Ended, One, Queues,
          PIPELINE_DEPTH
    <3> QED BY <3>1, Counts, ConstantsAssumption, ModApart DEF IInv, IndexInv
  <2> QED BY <2>1, <2>2 DEF NoSlotRace
<1> QED BY <1>1, Invariance, PTL

(* Items reach the last stage in the order in which they were made, each   *)
(* one after exactly one do_action of each earlier stage.                  *)
THEOREM ItemsInOrder == Spec => []InOrder
<1>1. IInv => InOrder
  <2> SUFFICES ASSUME IInv, pc[3] = "write"
               PROVE  \/ delivered < MAX_ITEMS /\ c[3] = Item(delivered + 1, 2)
                      \/ delivered = MAX_ITEMS /\ c[3].val = -1
    BY DEF InOrder
  <2>1. c[3] = Passed(2, delivered)
    BY DEF IInv, HeldInv
  <2>2. CASE delivered < MAX_ITEMS
    BY <2>1, <2>2 DEF Passed
  <2>3. CASE delivered = MAX_ITEMS
    BY <2>1, <2>3, ConstantsAssumption DEF Passed, Item
  <2> QED BY <2>2, <2>3, Counts, ConstantsAssumption
<1> QED BY <1>1, Invariance, PTL

(* When main has joined the three threads, all items have been through all *)
(* stages, and each ring still has the slot of its -1 taken.               *)
THEOREM Drained == Spec => []DrainedAtExit
<1>1. IInv => DrainedAtExit
  <2> SUFFICES ASSUME IInv, Exited
               PROVE  /\ delivered = MAX_ITEMS
                      /\ \A q \in Queues : /\ sem_busy[q] = 0
                                           /\ sem_free[q] = QUEUE_LENGTH - 1
                                           /\ ip[q] = ic[q]
    BY DEF DrainedAtExit
  <2>1. pc[1] = "done" /\ pc[2] = "done" /\ pc[3] = "done"
    BY DEF IInv, EndInv, Exited, Workers, PIPELINE_DEPTH
  <2>2. made = MAX_ITEMS /\ moved = MAX_ITEMS /\ delivered = MAX_ITEMS
    BY <2>1 DEF IInv, EndInv, made, Ended
  <2>3. written1 = MAX_ITEMS + 1 /\ written2 = MAX_ITEMS + 1
    BY <2>1, <2>2, ConstantsAssumption DEF written1, written2, Ended, One
  <2>4. \A q \in Queues : sem_busy[q] = 0 /\ sem_free[q] = QUEUE_LENGTH - 1
    <3>1. TypeOK /\ TokenInv /\ OccupancyInv
      BY DEF IInv
    <3>2. sem_busy[0] = 0 /\ sem_busy[1] = 0
      BY ONLY <2>1, <2>2, <2>3, <3>1, ConstantsAssumption
      DEF TypeOK, OccupancyInv, One, Queues, PIPELINE_DEPTH
    <3>3. sem_free[0] = QUEUE_LENGTH - 1 /\ sem_free[1] = QUEUE_LENGTH - 1
      BY ONLY <2>1, <3>1, <3>2, ConstantsAssumption
      DEF TypeOK, TokenInv, One, Queues, PIPELINE_DEPTH
    <3> QED BY ONLY <3>2, <3>3 DEF Queues, PIPELINE_DEPTH
  <2>5. \A q \in Queues : ip[q] = ic[q]
    BY <2>2 DEF IInv, IndexInv, Queues, PIPELINE_DEPTH
  <2> QED BY <2>2, <2>4, <2>5
<1> QED BY <1>1, Invariance, PTL

-----------------------------------------------------------------------------
(* Pipeline implements PipelineStages *)

(* The stages end in pipeline order, each only after its last item. *)
LEMMA EndOrder ==
  ASSUME IInv
  PROVE  /\ Ended(2) => Ended(1)
         /\ pc[3] = "done" => Ended(2)
         /\ Ended(1) => made = MAX_ITEMS
         /\ Ended(2) => moved = MAX_ITEMS
         /\ pc[3] = "done" => delivered = MAX_ITEMS
<1> USE ConstantsAssumption, Counts DEF IInv, EndInv, TypeOK, OccupancyInv, LabelsInv, Queues, PIPELINE_DEPTH
<1>1. Ended(1) => made = MAX_ITEMS
  BY DEF Ended, made
<1>2. Ended(2) => Ended(1)
  <2> SUFFICES ASSUME Ended(2), ~ Ended(1) PROVE FALSE
    OBVIOUS
  <2>1. written1 = made /\ moved = MAX_ITEMS
    BY DEF written1, One
  <2> QED BY <2>1 DEF Ended, One
<1>3. pc[3] = "done" => Ended(2)
  <2> SUFFICES ASSUME pc[3] = "done", ~ Ended(2) PROVE FALSE
    OBVIOUS
  <2>1. written2 = moved /\ delivered = MAX_ITEMS
    BY DEF written2, One
  <2> QED BY <2>1 DEF One
<1> QED BY <1>1, <1>2, <1>3

(* What a step of Pipeline does to the four variables of PipelineStages.   *)
LEMMA StepRefines ==
  ASSUME IInv, IInv', [Next]_vars
  PROVE  [Stages!Next]_(Stages!vars)
<1> USE DEF IInv, TypeOK, Queues, Workers, PIPELINE_DEPTH, At, Created, Goto, Stages!vars
<1>1. CASE Worker1Write
  <2>1. made < MAX_ITEMS /\ made' = made + 1 /\ UNCHANGED <<moved, delivered>>
    BY <1>1, ConstantsAssumption DEF Worker1Write, made, moved, Ended
  <2>2. made - moved < QUEUE_LENGTH
    <3>1. written1 = made
      BY <1>1, Counts DEF Worker1Write, written1, Ended, One
    <3> QED BY <1>1, <3>1, Counts, ConstantsAssumption
            DEF Worker1Write, TokenInv, OccupancyInv, LabelsInv, One
  <2>3. pc[1] = "write" /\ pc' = [pc EXCEPT ![1] = "postbusy"]
    BY <1>1 DEF Worker1Write
  <2>4. ended = 0 /\ ended' = 0
    BY <2>3, EndOrder DEF ended, Ended
  <2> QED BY <2>1, <2>2, <2>4 DEF Stages!Next, Stages!Make
<1>2. CASE Worker2Write
  <2>1. moved' = moved + 1 /\ written2 = moved
    BY <1>2, Worker2Fills
  <2>2. pc[2] = "write" /\ pc' = [pc EXCEPT ![2] = "postfree"] /\ UNCHANGED <<processed, delivered>>
    BY <1>2 DEF Worker2Write
  <2>3. UNCHANGED <<made, ended>>
    BY <2>2 DEF made, ended, Ended
  <2>4. moved < MAX_ITEMS /\ moved < written1
    BY <1>2, <2>2, Worker2Fills, Counts, ConstantsAssumption DEF OccupancyInv, LabelsInv, One
  <2>5. moved < made
    BY <2>4, Counts, EndOrder, ConstantsAssumption DEF written1, One
  <2>6. moved - delivered < QUEUE_LENGTH
    BY <2>1, <2>2, Counts, ConstantsAssumption DEF TokenInv, OccupancyInv, LabelsInv, One
  <2> QED BY <2>1, <2>2, <2>3, <2>5, <2>6 DEF Stages!Next, Stages!Move
<1>3. CASE Worker3Process
  <2>1. /\ pc[3] = "write" /\ pc' = [pc EXCEPT ![3] = "postfree"] /\ delivered' = delivered + 1
        /\ processed' = processed /\ c' \in [Workers -> Items] /\ c'[2] = c[2]
    BY <1>3, Worker3Finishes DEF Worker3Process
  <2>2. UNCHANGED <<made, moved, ended>>
    BY <2>1 DEF made, moved, ended, Ended
  <2>3. delivered < MAX_ITEMS /\ delivered < written2
    BY <1>3, <2>1, Worker3Finishes, Counts, ConstantsAssumption DEF OccupancyInv, LabelsInv, One
  <2>4. delivered < moved
    BY <2>3, Counts, EndOrder, ConstantsAssumption DEF written2, One
  <2> QED BY <2>1, <2>2, <2>4 DEF Stages!Next, Stages!Deliver
<1>4. CASE Worker1End
  <2>1. pc[1] = "write" /\ pc' = [pc EXCEPT ![1] = "postend"] /\ UNCHANGED <<c, delivered, processed>>
    BY <1>4 DEF Worker1End
  <2>2. ended = 0 /\ UNCHANGED <<made, moved, delivered>>
    BY <2>1, EndOrder DEF ended, made, moved, Ended
  <2>3. made = MAX_ITEMS /\ ended' = 1
    BY <2>1, <2>2, EndOrder, Counts, ConstantsAssumption DEF EndInv, made, ended, Ended
  <2> QED BY <2>2, <2>3 DEF Stages!Next, Stages!End
<1>5. CASE Worker2End
  <2>1. pc[2] = "write" /\ pc' = [pc EXCEPT ![2] = "postend"] /\ UNCHANGED <<c, delivered, processed>>
    BY <1>5 DEF Worker2End
  <2>2. moved = MAX_ITEMS /\ UNCHANGED <<made, moved, delivered>>
    BY <1>5, <2>1, Worker2Fills DEF made, moved, Ended
  <2>3. Ended(1)
    <3>1. moved < written1
      BY <2>1, Counts DEF OccupancyInv, LabelsInv, One
    <3> QED BY <2>2, <3>1, Counts, ConstantsAssumption DEF written1, One
  <2>4. ended = 1 /\ ended' = 2
    BY <2>1, <2>3, EndOrder DEF ended, Ended
  <2> QED BY <2>2, <2>4 DEF Stages!Next, Stages!End
<1>6. CASE Worker3End
  <2>1. pc[3] = "write" /\ pc' = [pc EXCEPT ![3] = "done"] /\ UNCHANGED <<c, delivered, processed>>
    BY <1>6 DEF Worker3End, queues
  <2>2. UNCHANGED <<made, moved, delivered>>
    BY <2>1 DEF made, moved, Ended
  <2>3. delivered = MAX_ITEMS /\ pc'[3] = "done"
    BY <2>1 DEF EndInv
  <2>4. Ended(2)
    <3>1. delivered < written2
      BY <2>1, Counts DEF OccupancyInv, LabelsInv, One
    <3> QED BY <2>3, <3>1, Counts, ConstantsAssumption DEF written2, One
  <2>5. ended = 2 /\ ended' = 3
    BY <2>1, <2>4 DEF ended, Ended
  <2> QED BY <2>2, <2>3, <2>5 DEF Stages!Next, Stages!End
<1>7. CASE Worker2Read \/ Worker3Read
  <2>1. UNCHANGED <<moved, delivered>>
    BY <1>7, Reads DEF Worker2Read, Worker3Read
  <2>2. UNCHANGED <<made, ended>>
    <3>1. CASE Worker2Read
      BY <3>1 DEF Worker2Read, made, ended, Ended
    <3>2. CASE Worker3Read
      BY <3>2 DEF Worker3Read, made, ended, Ended
    <3> QED BY <1>7, <3>1, <3>2
  <2> QED BY <2>1, <2>2
<1>8. CASE Worker1Wait \/ Worker1Post \/ Worker1PostEnd
  <2>1. CASE Worker1Wait
    <3>1. UNCHANGED <<made, moved, delivered, ended>>
      BY <2>1 DEF Worker1Wait, made, moved, ended, Ended
    <3> QED BY <3>1
  <2>2. CASE Worker1Post
    <3>1. UNCHANGED <<made, moved, delivered, ended>>
      BY <2>2 DEF Worker1Post, made, moved, ended, Ended
    <3> QED BY <3>1
  <2>3. CASE Worker1PostEnd
    <3>1. UNCHANGED <<made, moved, delivered, ended>>
      BY <2>3 DEF Worker1PostEnd, made, moved, ended, Ended
    <3> QED BY <3>1
  <2> QED BY <1>8, <2>1, <2>2, <2>3
<1>9. CASE Worker2Wait \/ Worker2WaitFree \/ Worker2PostFree \/ Worker2PostBusy \/ Worker2PostEnd
  <2>1. CASE Worker2Wait
    <3>1. UNCHANGED <<made, moved, delivered, ended>>
      BY <2>1 DEF Worker2Wait, made, moved, ended, Ended
    <3> QED BY <3>1
  <2>2. CASE Worker2WaitFree
    <3>1. UNCHANGED <<made, moved, delivered, ended>>
      BY <2>2 DEF Worker2WaitFree, made, moved, ended, Ended
    <3> QED BY <3>1
  <2>3. CASE Worker2PostFree
    <3>1. UNCHANGED <<made, moved, delivered, ended>>
      BY <2>3 DEF Worker2PostFree, made, moved, ended, Ended
    <3> QED BY <3>1
  <2>4. CASE Worker2PostBusy
    <3>1. UNCHANGED <<made, moved, delivered, ended>>
      BY <2>4 DEF Worker2PostBusy, made, moved, ended, Ended
    <3> QED BY <3>1
  <2>5. CASE Worker2PostEnd
    <3>1. UNCHANGED <<made, moved, delivered, ended>>
      BY <2>5 DEF Worker2PostEnd, made, moved, ended, Ended
    <3> QED BY <3>1
  <2> QED BY <1>9, <2>1, <2>2, <2>3, <2>4, <2>5
<1>10. CASE Worker3Wait \/ Worker3PostFree
  <2>1. CASE Worker3Wait
    <3>1. UNCHANGED <<made, moved, delivered, ended>>
      BY <2>1 DEF Worker3Wait, made, moved, ended, Ended
    <3> QED BY <3>1
  <2>2. CASE Worker3PostFree
    <3>1. UNCHANGED <<made, moved, delivered, ended>>
      BY <2>2 DEF Worker3PostFree, made, moved, ended, Ended
    <3> QED BY <3>1
  <2> QED BY <1>10, <2>1, <2>2
<1>11. CASE MainCreate \/ MainJoin \/ UNCHANGED vars
  BY <1>11 DEF MainCreate, MainJoin, vars, made, moved, ended, Ended
<1> QED
  BY <1>1, <1>2, <1>3, <1>4, <1>5, <1>6, <1>7, <1>8, <1>9, <1>10, <1>11
  DEF Next, Worker1, Worker2, Worker3, Main, Terminated

(* The rings and semaphores implement the three bounded FIFO stages. *)
THEOREM Refinement == Spec => ImplementsStages
<1>1. Init => Stages!Init
  BY ConstantsAssumption
  DEF Init, Stages!Init, made, moved, ended, Ended, Workers, PIPELINE_DEPTH, Empty, Item
<1>2. IInv /\ IInv' /\ [Next]_vars => [Stages!Next]_(Stages!vars)
  BY StepRefines
<1> QED BY <1>1, <1>2, Invariance, PTL DEF Spec, ImplementsStages, Stages!Spec

=============================================================================
