------------------------------- MODULE Profile ------------------------------
(***************************************************************************)
(* The time arithmetic and the statistics of utils.c.  A timespec is a     *)
(* record of seconds and nanoseconds; NSEC nanoseconds make a second.      *)
(***************************************************************************)
EXTENDS Integers, Sequences

CONSTANT NSEC

ASSUME ProfileAssumption == NSEC \in Nat \ {0}

timespec(ns) == [tv_sec |-> ns \div NSEC, tv_nsec |-> ns % NSEC]

timespec_to_double_ns(t) == t.tv_sec * NSEC + t.tv_nsec

(* Mutant: the borrow leaves the seconds alone. *)
time_sub_no_borrow(x, y) ==
  [tv_sec |-> x.tv_sec - y.tv_sec, tv_nsec |-> (x.tv_nsec - y.tv_nsec) % NSEC]

time_sub(x, y) ==
  IF x.tv_nsec < y.tv_nsec
  THEN [tv_sec |-> x.tv_sec - y.tv_sec - 1, tv_nsec |-> x.tv_nsec - y.tv_nsec + NSEC]
  ELSE [tv_sec |-> x.tv_sec - y.tv_sec, tv_nsec |-> x.tv_nsec - y.tv_nsec]

time_add(x, y) ==
  LET nsec == x.tv_nsec + y.tv_nsec
  IN  IF nsec >= NSEC
      THEN [tv_sec |-> x.tv_sec + y.tv_sec + 1, tv_nsec |-> nsec - NSEC]
      ELSE [tv_sec |-> x.tv_sec + y.tv_sec, tv_nsec |-> nsec]

(* The total that profile_stats divides by the number of samples; the      *)
(* deviation is left out.                                                  *)
profile_stats(data) ==
  LET delta(i) == time_sub(data[i + 1], data[i])
      total[i \in 0 .. Len(data) - 1] ==
        IF i = 0 THEN timespec(0) ELSE time_add(total[i - 1], delta(i))
  IN  total[Len(data) - 1]

=============================================================================
