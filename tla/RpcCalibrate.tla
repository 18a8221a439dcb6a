---------------------------- MODULE RpcCalibrate ----------------------------
(***************************************************************************)
(* rpc_calibrate (src/rpc-client.c): clients started on one machine share  *)
(* the file ~/.wk-calibrate.  A client that finds it reads the calibration *)
(* from it; one that does not calibrates and writes it.  Nothing           *)
(* serialises them, and the write is not atomic: fopen("w") truncates the  *)
(* file and the value only reaches it with fclose.                         *)
(***************************************************************************)
EXTENDS Integers

CONSTANT Clients

VARIABLES
  file,          \* "absent", "empty" (just truncated) or "full"
  pc, count      \* each client: its statement and its result, 0 or 1 for a
                 \* calibrated value

vars == <<file, pc, count>>

Init ==
  /\ file \in {"absent", "full"}
  /\ pc = [c \in Clients |-> "stat"]
  /\ count = [c \in Clients |-> 0]

Goto(c, there) == pc' = [pc EXCEPT ![c] = there]

(* When stat fails, info is not written: st_mode is whatever the stack     *)
(* held, and S_ISREG of it may be true.                                    *)
Stat(c) ==
  /\ pc[c] = "stat"
  /\ \/ Goto(c, "read")
     \/ file = "absent" /\ Goto(c, "calibrate")
  /\ UNCHANGED <<file, count>>

(* fopen for reading of a missing file returns NULL, which fread           *)
(* dereferences; fread of an empty file leaves count at 0.                 *)
Read(c) ==
  /\ pc[c] = "read"
  /\ Goto(c, IF file = "absent" THEN "crashed" ELSE "done")
  /\ count' = [count EXCEPT ![c] = IF file = "full" THEN 1 ELSE 0]
  /\ UNCHANGED file

Calibrate(c) ==
  /\ pc[c] = "calibrate"
  /\ count' = [count EXCEPT ![c] = 1]
  /\ Goto(c, "open")
  /\ UNCHANGED file

OpenForWriting(c) ==
  /\ pc[c] = "open"
  /\ file' = "empty"
  /\ Goto(c, "close")
  /\ UNCHANGED count

WriteAndClose(c) ==
  /\ pc[c] = "close"
  /\ file' = "full"
  /\ Goto(c, "done")
  /\ UNCHANGED count

rpc_calibrate(c) ==
  Stat(c) \/ Read(c) \/ Calibrate(c) \/ OpenForWriting(c) \/ WriteAndClose(c)

Ended == \A c \in Clients : pc[c] \in {"done", "crashed"}

Next == (\E c \in Clients : rpc_calibrate(c)) \/ (Ended /\ UNCHANGED vars)

Spec == Init /\ [][Next]_vars

-----------------------------------------------------------------------------
(* "amount of asynchronous processing (ms)" (usage): do_hog gets           *)
(* async * count iterations, so a count of 0 asks for none, whatever the   *)
(* option says.                                                            *)
CountIsCalibrated ==
  \A c \in Clients : pc[c] = "done" => count[c] > 0

=============================================================================
