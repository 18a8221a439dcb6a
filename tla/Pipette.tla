------------------------------ MODULE Pipette -------------------------------
(***************************************************************************)
(* wk-pipette (src/pipette.c): main forks a producer and a consumer that   *)
(* exchange count blocks of size bytes through a pipe.  do_transfer moves  *)
(* a block in chunks of at most PAGE_SIZE bytes, the size up to which a    *)
(* write to a pipe is atomic; a read takes some of what is there.  main    *)
(* keeps both ends of the pipe open while it waits.                        *)
(***************************************************************************)
EXTENDS Integers, Sequences, FiniteSets

CONSTANTS
  PAGE_SIZE,       \* the largest chunk, in bytes
  PIPE_SIZE,       \* what the pipe holds
  Sizes, Counts,   \* the values of --size and --count that are used
  FAILURES         \* how many calls of pipe, fork and calloc may fail

ASSUME PipetteAssumption ==
  /\ PAGE_SIZE \in Nat \ {0} /\ PIPE_SIZE \in Nat /\ PAGE_SIZE <= PIPE_SIZE
  /\ Sizes \subseteq Nat \ {0} /\ Counts \subseteq Nat \ {0}
  /\ FAILURES \in Nat

Children == {"producer", "consumer"}

VARIABLES
  size, count,     \* the options
  pipe,            \* the bytes in the pipe
  writers, readers,\* the processes that have its write and its read end open
  state,           \* each child: "none", "start", "block", "transfer" or how
                   \* it ended: "done" or "failed"
  i, len,          \* its loop counter and the len of do_transfer
  buf,             \* the consumer's buffer
  main,            \* main: "pipe", "fork1", "fork2", "wait" or "exit"
  failures         \* the calls that have failed

pipeVars == <<size, count, pipe, writers, readers, state, i, len, buf, main, failures>>

Byte(n) == n % 256                    \* memset stores a char
Block(n) == [j \in 1 .. size |-> Byte(n)]

Least(a, b) == IF a < b THEN a ELSE b

PipeInit ==
  /\ size \in Sizes /\ count \in Counts
  /\ pipe = <<>> /\ writers = {} /\ readers = {}
  /\ state = [c \in Children |-> "none"]
  /\ i = [c \in Children |-> 0] /\ len = [c \in Children |-> 0]
  /\ buf = <<>>
  /\ main = "pipe" /\ failures = {}

MayFail(call) ==
  /\ Cardinality(failures) < FAILURES
  /\ failures' = failures \cup {call}

Over(c) == state[c] \in {"done", "failed"}

-----------------------------------------------------------------------------
(* main *)

OpenPipe ==
  /\ main = "pipe"
  /\ \/ /\ writers' = {"main"} /\ readers' = {"main"}
        /\ main' = "fork1"
        /\ UNCHANGED failures
     \/ MayFail(<<"pipe", "main">>) /\ main' = "exit" /\ UNCHANGED <<writers, readers>>
  /\ UNCHANGED <<size, count, pipe, state, i, len, buf>>

(* The child inherits both ends of the pipe and closes the one it does     *)
(* not use.  A fork that fails is not noticed.                             *)
Fork(c, here, there) ==
  /\ main = here
  /\ \/ /\ state' = [state EXCEPT ![c] = "start"]
        /\ IF c = "producer" THEN writers' = writers \cup {c} /\ UNCHANGED readers
                             ELSE readers' = readers \cup {c} /\ UNCHANGED writers
        /\ UNCHANGED failures
     \/ MayFail(<<"fork", c>>) /\ UNCHANGED <<state, writers, readers>>
  /\ main' = there
  /\ UNCHANGED <<size, count, pipe, i, len, buf>>

(* Mutant: main closes its ends of the pipe once both children are there. *)
ForkConsumerAndClose ==
  /\ main = "fork2"
  /\ \/ state' = [state EXCEPT !["consumer"] = "start"] /\ UNCHANGED failures
     \/ MayFail(<<"fork", "consumer">>) /\ UNCHANGED state
  /\ writers' = writers \ {"main"}
  /\ readers' = (readers \ {"main"}) \cup {"consumer"}
  /\ main' = "wait"
  /\ UNCHANGED <<size, count, pipe, i, len, buf>>

ForkProducer == Fork("producer", "fork1", "fork2")
ForkConsumer == Fork("consumer", "fork2", "wait")

(* Two calls of wait, which fail at once when there is no child. *)
Wait ==
  /\ main = "wait"
  /\ \A c \in Children : state[c] = "none" \/ Over(c)
  /\ main' = "exit"
  /\ writers' = writers \ {"main"} /\ readers' = readers \ {"main"}
  /\ UNCHANGED <<size, count, pipe, state, i, len, buf, failures>>

Main == OpenPipe \/ ForkProducer \/ ForkConsumer \/ Wait

-----------------------------------------------------------------------------
(* producer and consumer *)

Goto(c, there) ==
  /\ state' = [state EXCEPT ![c] = there]
  /\ IF there \in {"done", "failed"} THEN writers' = writers \ {c} /\ readers' = readers \ {c}
                                     ELSE UNCHANGED <<writers, readers>>

AllocBuffer(c) ==
  /\ state[c] = "start"
  /\ \/ Goto(c, "block") /\ UNCHANGED failures
     \/ MayFail(<<"calloc", c>>) /\ Goto(c, "failed")
  /\ UNCHANGED <<size, count, pipe, i, len, buf, main>>

(* The head of the loop: the delay, and a new transfer.  Mutant: len is    *)
(* not reset.                                                              *)
NextBlockKeepsLen(c) ==
  /\ state[c] = "block"
  /\ Goto(c, IF i[c] < count THEN "transfer" ELSE "done")
  /\ buf' = IF c = "consumer" THEN <<>> ELSE buf
  /\ UNCHANGED <<size, count, pipe, i, len, main, failures>>

NextBlock(c) ==
  /\ state[c] = "block"
  /\ Goto(c, IF i[c] < count THEN "transfer" ELSE "done")
  /\ len' = [len EXCEPT ![c] = 0]
  /\ buf' = IF c = "consumer" THEN <<>> ELSE buf
  /\ UNCHANGED <<size, count, pipe, i, main, failures>>

(* Mutant: the block is not counted. *)
EndBlockNoCount(c) ==
  /\ state[c] = "transfer" /\ len[c] >= size
  /\ Goto(c, "block")
  /\ UNCHANGED <<size, count, pipe, i, len, buf, main, failures>>

EndBlock(c) ==
  /\ state[c] = "transfer" /\ len[c] >= size
  /\ Goto(c, "block")
  /\ i' = [i EXCEPT ![c] = @ + 1]
  /\ UNCHANGED <<size, count, pipe, len, buf, main, failures>>

chunk(c) == Least(PAGE_SIZE, size - len[c])

Write ==
  LET c == "producer" IN
  /\ state[c] = "transfer" /\ len[c] < size
  /\ readers # {}
  /\ Len(pipe) + chunk(c) <= PIPE_SIZE
  /\ pipe' = pipe \o [j \in 1 .. chunk(c) |-> Byte(i[c])]
  /\ len' = [len EXCEPT ![c] = @ + chunk(c)]
  /\ UNCHANGED <<size, count, writers, readers, state, i, buf, main, failures>>

(* A read may return less than is there. *)
Read ==
  LET c == "consumer" IN
  /\ state[c] = "transfer" /\ len[c] < size
  /\ \E n \in 1 .. Least(chunk(c), Len(pipe)) :
       /\ buf' = buf \o SubSeq(pipe, 1, n)
       /\ pipe' = SubSeq(pipe, n + 1, Len(pipe))
       /\ len' = [len EXCEPT ![c] = @ + n]
  /\ UNCHANGED <<size, count, writers, readers, state, i, main, failures>>

producer == AllocBuffer("producer") \/ NextBlock("producer") \/ Write \/ EndBlock("producer")
consumer == AllocBuffer("consumer") \/ NextBlock("consumer") \/ Read \/ EndBlock("consumer")

(* A failed call may leave the other child, and main, blocked for ever. *)
Blocked == main = "wait" /\ failures # {}

PipeNext ==
  \/ Main \/ producer \/ consumer
  \/ (main = "exit" \/ Blocked) /\ UNCHANGED pipeVars

PipeSpec ==
  /\ PipeInit /\ [][PipeNext]_pipeVars
  /\ WF_pipeVars(Main) /\ WF_pipeVars(producer) /\ WF_pipeVars(consumer)

-----------------------------------------------------------------------------
(* However short the reads are and wherever the pipe was full or empty,    *)
(* the consumer's n-th block is the producer's n-th block.                 *)
BlocksIntact ==
  state["consumer"] = "transfer" /\ len["consumer"] >= size => buf = Block(i["consumer"])

(* do_transfer takes the 0 of the end of the file for progress and would   *)
(* loop for ever.  It never reads one: as long as the consumer runs, main  *)
(* waits with the write end open.  For the same reason the producer never  *)
(* gets SIGPIPE.                                                           *)
NeverEndOfFile ==
  /\ state["consumer"] \in {"block", "transfer"} => writers # {}
  /\ state["producer"] \in {"block", "transfer"} => readers # {}

(* Unless a call fails, main returns. *)
Ends == <>(main = "exit" \/ failures # {})

=============================================================================
