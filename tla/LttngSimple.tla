---------------------------- MODULE LttngSimple -----------------------------
(***************************************************************************)
(* lttng-simple (utils/lttng-simple): run each target command inside a     *)
(* tracing session made with a series of lttng commands, each of which may *)
(* fail, or not even start.  A failing lttng command changes nothing,      *)
(* except that a failing create may leave a stalled session.  The commands *)
(* without a session name act on the session created last, the one of the  *)
(* current target.                                                         *)
(***************************************************************************)
EXTENDS Integers, Sequences, SequencesExt

CONSTANTS
  Options,         \* the command lines: records of parsed options
  MAX_FAILURES     \* bound on the commands that fail in one run

(* Without --batch there is one target, whose command may be missing; a    *)
(* list of events is finite.                                               *)
ASSUME LttngAssumption ==
  /\ MAX_FAILURES \in Nat
  /\ \A o \in Options :
        /\ {o.kernel, o.ust, o.all, o.syscall, o.stateless} \subseteq BOOLEAN
        /\ {o.daemon, o.dry_run, o.clear, o.batch, o.command} \subseteq BOOLEAN
        /\ o.targets \in Nat /\ (IF o.batch THEN o.command ELSE o.targets = 1)
        /\ IsFiniteSet(o.events)

VARIABLES
  opts,            \* options, with targets, the number of things to trace
  phase,           \* the next lttng command, or "run", "end", "killed"
  target, step,    \* the target being traced, and its next enabling command
  sessions,        \* the sessions that exist: those of targets, and Other
  conf,            \* what was enabled in the session of the target
  out,             \* the output directory of each target
  failed,          \* history: the phases of the commands that failed
  raised,          \* history: where an exception for main was raised
  traces           \* history: the targets whose command was run, in turn

vars == <<opts, phase, target, step, sessions, conf, out, failed, raised, traces>>

Kernel == opts.kernel \/ ~opts.ust     \* if neither is given, both are set
Ust    == opts.ust \/ ~opts.kernel
Tracers == {c \in {"k", "u"} : (c = "k" /\ Kernel) \/ (c = "u" /\ Ust)}

(* A session is named after its target and a uuid; Other is one that the   *)
(* user had before.  The global that cmd_stub destroys is always the empty *)
(* name of no session: do_trace assigns a local variable of that name.     *)
Other   == 0
current == -1

Init ==
  /\ opts \in Options
  /\ phase = "parse" /\ target = 1 /\ step = 1
  /\ sessions = {Other} /\ conf = {}
  /\ out \in [1 .. opts.targets -> {"absent", "old"}]
  /\ failed = <<>> /\ raised = "none" /\ traces = <<>>

-----------------------------------------------------------------------------
(* cmd_stub *)

(* A command that succeeds, or a dry run, which executes none. *)
Succeeds(newSessions, newConf, there) ==
  /\ IF opts.dry_run THEN UNCHANGED <<sessions, conf>>
                     ELSE sessions' = newSessions /\ conf' = newConf
  /\ phase' = there
  /\ UNCHANGED <<failed, raised>>

(* A command that fails and leaves the given sessions. *)
Fails(leftSessions, there) ==
  /\ ~opts.dry_run
  /\ Len(failed) < MAX_FAILURES \/ (phase = "recreate" /\ target \in sessions)
  /\ failed' = Append(failed, phase)
  /\ sessions' = leftSessions
  /\ phase' = there
  /\ raised' = IF there = "destroyall" THEN phase ELSE raised
  /\ UNCHANGED conf

(* An exception of the library, out of subprocess.call for a command that  *)
(* cannot be started or out of shutil.rmtree: the handler of main gets it. *)
Raises ==
  /\ ~opts.dry_run
  /\ raised' = phase
  /\ phase' = "destroyall"
  /\ UNCHANGED <<sessions, conf, failed>>

-----------------------------------------------------------------------------
(* do_trace *)

(* Batch and daemon mode exclude each other; an empty batch has nothing    *)
(* to trace.                                                               *)
ParseOptions ==
  /\ phase = "parse"
  /\ phase' = IF opts.targets = 0 \/ (opts.batch /\ opts.daemon) THEN "end" ELSE "clean"
  /\ UNCHANGED <<opts, target, step, sessions, conf, out, failed, raised, traces>>

Clean ==
  /\ phase = "clean"
  /\ \/ /\ out' = IF opts.clear /\ ~opts.dry_run THEN [out EXCEPT ![target] = "absent"] ELSE out
        /\ phase' = "create"
        /\ UNCHANGED <<sessions, conf, failed, raised>>
     \/ opts.clear /\ out[target] # "absent" /\ Raises /\ UNCHANGED out
  /\ UNCHANGED <<opts, target, step, traces>>

(* lttng create; the name of a session is new, but a stalled one of the    *)
(* first attempt makes the second fail.                                    *)
Create(retry, there) ==
  /\ \/ target \notin sessions /\ Succeeds(sessions \cup {target}, {}, retry)
     \/ Fails(sessions \ {current}, there)
     \/ Fails((sessions \cup {target}) \ {current}, there)
  /\ step' = 1
  /\ UNCHANGED <<opts, target, out, traces>>

CreateFirst == phase = "create" /\ Create("enable", "destroystalled")

DestroyStalled ==
  /\ phase = "destroystalled"
  /\ Succeeds(sessions \ {target}, conf, "recreate") \/ Fails(sessions, "recreate") \/ Raises
  /\ UNCHANGED <<opts, target, step, out, traces>>

CreateAgain == phase = "recreate" /\ Create("enable", "destroyall")

add_context == Kernel /\ ("sched_switch" \notin opts.events \/ opts.stateless)

If(b, what) == IF b THEN <<what>> ELSE <<>>

EnableKernel ==
  <<"channel k">> \o If(add_context, "context k") \o If(opts.syscall, "syscalls")
    \o IF opts.all THEN <<"all k">> ELSE SetToSeq(opts.events)

(* Mutant: no context beside a kernel trace. *)
EnableUstBare == <<"channel u", "all u">> \o If(~Kernel, "context u")

EnableUst == <<"channel u", "all u">> \o If(~Kernel \/ add_context, "context u")

(* The commands of steps 2 and 3; only that for syscalls is not checked. *)
Commands ==
  (IF Kernel THEN EnableKernel ELSE <<>>) \o (IF Ust THEN EnableUst ELSE <<>>) \o <<"start">>

Enable ==
  /\ phase = "enable" /\ step <= Len(Commands)
  /\ step' = step + 1
  /\ LET cmd == Commands[step] IN
     \/ Succeeds(sessions, conf \cup {cmd}, phase)
     \/ cmd = "syscalls" /\ (Fails(sessions, phase) \/ Raises)
     \/ cmd # "syscalls" /\ Fails(sessions \ {current}, "destroyall")
  /\ UNCHANGED <<opts, target, out, traces>>

(* Tracing has begun: the session writes to the output directory. *)
Started ==
  /\ phase = "enable" /\ step > Len(Commands)
  /\ phase' = IF opts.daemon THEN "next" ELSE "run"
  /\ out' = IF opts.dry_run THEN out
            ELSE [out EXCEPT ![target] = IF @ = "absent" THEN "new" ELSE "mixed"]
  /\ UNCHANGED <<opts, target, step, sessions, conf, failed, raised, traces>>

(* Mutant: a target that cannot be started is passed over. *)
RunOrPass ==
  /\ phase = "run"
  /\ traces' \in {traces} \cup (IF opts.command THEN {Append(traces, target)} ELSE {})
  /\ phase' = "stop"
  /\ UNCHANGED <<opts, target, step, sessions, conf, out, failed, raised>>

(* The command, if there is one, whatever it returns; a dry run only       *)
(* announces it.  A batch takes every file of its directory, and one that  *)
(* is not executable cannot be started.                                    *)
Run ==
  /\ phase = "run"
  /\ \/ /\ traces' = IF opts.command THEN Append(traces, target) ELSE traces
        /\ phase' = "stop"
        /\ UNCHANGED <<sessions, conf, failed, raised>>
     \/ opts.command /\ Raises /\ UNCHANGED traces
  /\ UNCHANGED <<opts, target, step, out>>

Stop ==
  /\ phase = "stop"
  /\ Succeeds(sessions, conf \ {"start"}, "destroy") \/ Fails(sessions, "destroy") \/ Raises
  /\ UNCHANGED <<opts, target, step, out, traces>>

Destroy ==
  /\ phase = "destroy"
  /\ Succeeds(sessions \ {target}, conf, "next") \/ Fails(sessions, "next") \/ Raises
  /\ UNCHANGED <<opts, target, step, out, traces>>

-----------------------------------------------------------------------------
(* main *)

(* Mutant: the last target is left out. *)
NextTargetEarly ==
  /\ phase = "next"
  /\ target' = target + 1
  /\ phase' = IF target + 1 < opts.targets THEN "clean" ELSE "end"
  /\ UNCHANGED <<opts, step, sessions, conf, out, failed, raised, traces>>

NextTarget ==
  /\ phase = "next"
  /\ target' = target + 1
  /\ phase' = IF target < opts.targets THEN "clean" ELSE "end"
  /\ UNCHANGED <<opts, step, sessions, conf, out, failed, raised, traces>>

(* Mutant: the handler of main relies on the clean-up of cmd_stub. *)
DestroyNone ==
  /\ phase = "destroyall"
  /\ Succeeds(sessions \ {current}, conf, "end") \/ Fails(sessions, "end")
  /\ UNCHANGED <<opts, target, step, out, traces>>

(* The handler of main. *)
DestroyAll ==
  /\ phase = "destroyall"
  /\ Succeeds({}, conf, "end") \/ Fails(sessions, "end")
  /\ UNCHANGED <<opts, target, step, out, traces>>

(* KeyboardInterrupt is not an Exception: nothing is cleaned up. *)
Interrupt ==
  /\ phase \notin {"end", "killed"}
  /\ phase' = "killed"
  /\ UNCHANGED <<opts, target, step, sessions, conf, out, failed, raised, traces>>

Steps ==
  \/ ParseOptions \/ Clean \/ CreateFirst \/ DestroyStalled \/ CreateAgain \/ Enable \/ Started
  \/ Run \/ Stop \/ Destroy \/ NextTarget \/ DestroyAll

Ended == phase \in {"end", "killed"}

Next == Steps \/ Interrupt \/ (Ended /\ UNCHANGED vars)

Spec == Init /\ [][Next]_vars

-----------------------------------------------------------------------------
Failed(where) == \E j \in DOMAIN failed : failed[j] = where

(* The loop over the targets was ended by an exception. *)
Aborted == phase = "end" /\ target <= opts.targets /\ ~(opts.batch /\ opts.daemon)

(* A command only ever runs in a session that has been started with every  *)
(* tracer asked for, whatever failed before; and each event it produces    *)
(* can be attributed to its thread, by a context or by the sched_switch    *)
(* events of the kernel trace.  With --clear the trace is not mixed with   *)
(* an older one.                                                           *)
TracedAsAsked ==
  phase = "run" /\ ~opts.dry_run =>
    /\ target \in sessions /\ "start" \in conf
    /\ Kernel => "channel k" \in conf
    /\ Ust => "channel u" \in conf
    /\ \A c \in Tracers : \/ (IF c = "k" THEN "context k" ELSE "context u") \in conf
                          \/ "sched_switch" \in conf \/ "all k" \in conf
    /\ opts.clear => out[target] = "new"

(* When main returns no session of this run is left, whichever command     *)
(* failed, unless the failing command is the one that destroys it: the     *)
(* clean-up of cmd_stub never destroys anything, only the handler of main  *)
(* does, and it takes the sessions of others along, which are kept in      *)
(* every run that was not aborted.  An interrupt, which that handler does  *)
(* not see, leaves no more than the session of the current target.         *)
SessionsAtEnd ==
  /\ Other \notin sessions => Aborted
  /\ Ended /\ ~opts.daemon /\ ~Failed("destroy") /\ ~Failed("destroyall") =>
       sessions \subseteq {Other} \cup (IF phase = "killed" THEN {target} ELSE {})

(* How many commands have been run when n targets are done: none by a      *)
(* daemon, and none if there is none.                                      *)
Ran(n) == IF opts.command /\ ~opts.daemon THEN n ELSE 0

(* Every target's command is run once and in turn, with both tracers at    *)
(* once when neither -k nor -u was given (the usage and a comment of main  *)
(* promise three traces).  What keeps the later targets from being run is  *)
(* an exception: a checked command that failed (create has to fail twice), *)
(* a trace that could not be removed, an lttng command or a target that    *)
(* could not be started.  The target at hand was run exactly if it came    *)
(* after that, and without an exception none is left out.                  *)
TargetsInTurn ==
  /\ \A j \in DOMAIN traces : traces[j] = j
  /\ Aborted => /\ raised \notin {"none", "create"}
                /\ Len(traces) = Ran(IF raised \in {"stop", "destroy"} THEN target ELSE target - 1)
  /\ phase = "end" /\ target > opts.targets => raised = "none" /\ Len(traces) = Ran(opts.targets)

=============================================================================
