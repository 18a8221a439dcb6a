----------------------------- MODULE MCPerfUser -----------------------------
(***************************************************************************)
(* PerfUser with two threads and sequences small enough for TLC.           *)
(***************************************************************************)
EXTENDS PerfUser

SomeOverheads == <<0, 2>>
SomePeriods == <<2, 3>>

=============================================================================
