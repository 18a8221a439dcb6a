--------------------------- MODULE MCLttngSimple ----------------------------
(* Command lines for LttngSimple. *)
EXTENDS LttngSimple

Base == [kernel |-> FALSE, ust |-> FALSE, all |-> FALSE, syscall |-> FALSE,
         stateless |-> FALSE, daemon |-> FALSE, dry_run |-> FALSE, clear |-> FALSE,
         batch |-> FALSE, command |-> TRUE, targets |-> 1, events |-> {"sched_switch"}]

(* One command or none, with every choice of tracers, events and modes; and *)
(* batches of none to three commands.                                      *)
ManyOptions ==
  [kernel : BOOLEAN, ust : BOOLEAN, all : BOOLEAN, syscall : BOOLEAN,
   stateless : BOOLEAN, daemon : BOOLEAN, dry_run : BOOLEAN, clear : BOOLEAN,
   batch : {FALSE}, command : BOOLEAN, targets : {1}, events : {{}, {"sched_switch"}, {"irq", "sched_switch"}}]
  \cup
  {[Base EXCEPT !.batch = TRUE, !.targets = t, !.clear = cl, !.daemon = d] :
     t \in 0 .. 3, cl \in BOOLEAN, d \in BOOLEAN}

=============================================================================
