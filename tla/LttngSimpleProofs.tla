-------------------------- MODULE LttngSimpleProofs -------------------------
(***************************************************************************)
(* lttng-simple for every set of command lines, any number of targets and  *)
(* any number of failing commands.  The inductive invariant relates the    *)
(* next command to the sessions that may exist, to the commands that have  *)
(* failed, to the targets already run and to what was enabled so far.      *)
(***************************************************************************)
EXTENDS LttngSimple, FiniteSetTheorems, TLAPS

Phases == {"parse", "clean", "create", "destroystalled", "recreate", "enable", "run", "stop",
           "destroy", "next", "destroyall", "end", "killed"}

TypeOK ==
  /\ opts \in Options
  /\ phase \in Phases
  /\ target \in Nat \ {0} /\ step \in Nat \ {0}
  /\ out \in [1 .. opts.targets -> {"absent", "old", "new", "mixed"}]
  /\ failed \in Seq(Phases)
  /\ traces \in Seq(Nat)

(* The loop over the targets: after the options have been accepted there   *)
(* is a target, and a daemon has only one.                                 *)
LoopInv ==
  /\ phase \notin {"parse", "end", "killed"} =>
       target <= opts.targets /\ ~(opts.batch /\ opts.daemon)
  /\ phase = "parse" => target = 1
  /\ phase \in {"run", "stop", "destroy"} => ~opts.daemon

(* The sessions: a target has one from its create to its destroy, and the  *)
(* one of the user is there until all are destroyed.                       *)
Clean0 == ~opts.daemon /\ ~Failed("destroy") /\ ~Failed("destroyall")
SessionInv ==
  /\ Other \notin sessions => Aborted
  /\ opts.dry_run => sessions = {Other}
  /\ Clean0 =>
       /\ sessions \subseteq {Other, target}
       /\ phase \in {"parse", "clean", "create", "next", "end"} => sessions \subseteq {Other}

(* The targets that have been run, and why a run was aborted. *)
TracesInv ==
  /\ \A j \in DOMAIN traces : traces[j] = j
  /\ phase \in {"parse", "clean", "create", "destroystalled", "recreate", "enable", "run"} =>
       raised = "none" /\ Len(traces) = Ran(target - 1)
  /\ phase \in {"stop", "destroy", "next"} => raised = "none" /\ Len(traces) = Ran(target)
  /\ phase = "destroyall" \/ Aborted =>
       /\ raised \notin {"none", "create"}
       /\ Len(traces) = Ran(IF raised \in {"stop", "destroy"} THEN target ELSE target - 1)
  /\ phase = "end" /\ target > opts.targets =>
       raised = "none" /\ target = opts.targets + 1 /\ Len(traces) = Ran(opts.targets)

(* What is enabled: every command before step has succeeded, but that for  *)
(* system calls.                                                           *)
Enabled(n) == \A j \in 1 .. Len(Commands) : j < n => Commands[j] \in conf \/ Commands[j] = "syscalls"
EnableInv ==
  ~opts.dry_run =>
    /\ phase \in {"enable", "run"} => target \in sessions
    /\ phase = "enable" => Enabled(step)
    /\ phase = "run" => Enabled(Len(Commands) + 1)
    /\ phase \in {"create", "destroystalled", "recreate", "enable"} /\ opts.clear => out[target] = "absent"
    /\ phase = "run" /\ opts.clear => out[target] = "new"

IInv == TypeOK /\ LoopInv /\ SessionInv /\ TracesInv /\ EnableInv

-----------------------------------------------------------------------------
(* Histories and lists of commands *)

(* A failure is recorded, and no record is lost. *)
LEMMA Recorded ==
  ASSUME NEW S, NEW s \in Seq(S), NEW p \in S, NEW w
  PROVE  /\ Append(s, p) \in Seq(S)
         /\ (\E j \in DOMAIN Append(s, p) : Append(s, p)[j] = w) <=>
              (\E j \in DOMAIN s : s[j] = w) \/ p = w
<1>1. /\ Append(s, p) \in Seq(S) /\ Len(Append(s, p)) = Len(s) + 1 /\ Len(s) \in Nat
      /\ DOMAIN s = 1 .. Len(s) /\ DOMAIN Append(s, p) = 1 .. Len(s) + 1
      /\ \A j \in 1 .. Len(s) : Append(s, p)[j] = s[j]
      /\ Append(s, p)[Len(s) + 1] = p
  BY SMT
<1>2. ASSUME NEW j \in DOMAIN Append(s, p), Append(s, p)[j] = w
      PROVE  (\E k \in DOMAIN s : s[k] = w) \/ p = w
  BY <1>1, <1>2, SMT
<1>3. ASSUME NEW j \in DOMAIN s, s[j] = w
      PROVE  \E k \in DOMAIN Append(s, p) : Append(s, p)[k] = w
  BY <1>1, <1>3, SMT
<1>4. p = w => \E k \in DOMAIN Append(s, p) : Append(s, p)[k] = w
  BY <1>1, SMT
<1>. QED BY <1>1, <1>2, <1>3, <1>4

Occurs(e, s) == \E i \in 1 .. Len(s) : s[i] = e

(* Whatever occurs in a list occurs in a longer one. *)
LEMMA OccursCat ==
  ASSUME NEW S, NEW s \in Seq(S), NEW t \in Seq(S), NEW e, Occurs(e, s) \/ Occurs(e, t)
  PROVE  Occurs(e, s \o t)
<1>1. /\ s \o t \in Seq(S) /\ Len(s \o t) = Len(s) + Len(t)
      /\ Len(s) \in Nat /\ Len(t) \in Nat
      /\ \A i \in 1 .. Len(s) : (s \o t)[i] = s[i]
      /\ \A i \in 1 .. Len(t) : (s \o t)[Len(s) + i] = t[i]
  BY SMT
<1>2. CASE Occurs(e, s)
  BY <1>1, <1>2, SMT DEF Occurs
<1>3. CASE Occurs(e, t)
  <2>1. PICK i \in 1 .. Len(t) : t[i] = e BY <1>3 DEF Occurs
  <2>2. Len(s) + i \in 1 .. Len(s \o t) /\ (s \o t)[Len(s) + i] = e BY <1>1, <2>1, SMT
  <2>. QED BY <2>2 DEF Occurs
<1>. QED BY <1>2, <1>3

(* A finite set is made a list of all its members. *)
LEMMA ListOfSet ==
  ASSUME NEW S, IsFiniteSet(S)
  PROVE  SetToSeq(S) \in Seq(S) /\ \A e \in S : Occurs(e, SetToSeq(S))
<1>. DEFINE n == Cardinality(S)
<1>1. n \in Nat /\ ExistsBijection(1 .. n, S)
  BY FS_CardinalityType
<1>2. \E f \in [1 .. n -> S] : IsInjective(f)
  BY <1>1 DEF ExistsBijection, Bijection, Injection
<1>3. SetToSeq(S) \in [1 .. n -> S] /\ IsInjective(SetToSeq(S))
  BY <1>2, Zenon DEF SetToSeq
<1>4. SetToSeq(S) \in Injection(1 .. n, S)
  BY <1>3 DEF Injection
<1>5. Cardinality(1 .. n) = n /\ IsFiniteSet(1 .. n)
  BY <1>1, FS_Interval
<1>6. SetToSeq(S) \in Surjection(1 .. n, S)
  BY <1>4, <1>5, FS_Injection
<1>7. Len(SetToSeq(S)) = n /\ SetToSeq(S) \in Seq(S)
  BY <1>1, <1>3
<1>. QED BY <1>6, <1>7 DEF Surjection, Occurs

(* Lists of one, and lists put together. *)
LEMMA Lists ==
  ASSUME NEW S
  PROVE  /\ \A e \in S : <<e>> \in Seq(S) /\ Occurs(e, <<e>>)
         /\ \A s, t \in Seq(S) : s \o t \in Seq(S)
         /\ \A T \in SUBSET S : \A s \in Seq(T) : s \in Seq(S)
         /\ \A s \in Seq(S) : Len(s) \in Nat
<1>1. ASSUME NEW e \in S PROVE <<e>> \in Seq(S) /\ Occurs(e, <<e>>)
  <2>1. <<e>> \in Seq(S) /\ Len(<<e>>) = 1 /\ <<e>>[1] = e OBVIOUS
  <2>. QED BY <2>1 DEF Occurs
<1>2. ASSUME NEW T \in SUBSET S, NEW s \in Seq(T) PROVE s \in Seq(S)
  OBVIOUS
<1>3. \A s, t \in Seq(S) : s \o t \in Seq(S)
  OBVIOUS
<1>4. \A s \in Seq(S) : Len(s) \in Nat
  OBVIOUS
<1>. QED BY <1>1, <1>2, <1>3, <1>4

(* The commands of do_trace: each tracer has its channel, and its events   *)
(* can be attributed to their threads.                                     *)
Attributed(c) ==
  \/ Occurs(IF c = "k" THEN "context k" ELSE "context u", Commands)
  \/ Occurs("sched_switch", Commands) \/ Occurs("all k", Commands)

LEMMA CommandList ==
  ASSUME opts \in Options
  PROVE  /\ Len(Commands) \in Nat
         /\ Occurs("start", Commands)
         /\ Kernel => Occurs("channel k", Commands)
         /\ Ust => Occurs("channel u", Commands)
         /\ \A c \in Tracers : Attributed(c)
<1>. DEFINE S == opts.events \cup
              {"channel k", "context k", "syscalls", "all k", "channel u", "all u", "context u", "start"}
            evs == IF opts.all THEN <<"all k">> ELSE SetToSeq(opts.events)
            ctx == If(add_context, "context k")
            sys == If(opts.syscall, "syscalls")
            uctx == If(~Kernel \/ add_context, "context u")
            k == IF Kernel THEN EnableKernel ELSE <<>>
            u == IF Ust THEN EnableUst ELSE <<>>
<1>1. IsFiniteSet(opts.events)
  BY LttngAssumption
<1>2. /\ SetToSeq(opts.events) \in Seq(opts.events)
      /\ \A e \in opts.events : Occurs(e, SetToSeq(opts.events))
  BY <1>1, ListOfSet
<1>3. \A e : e \in S => <<e>> \in Seq(S) /\ Occurs(e, <<e>>)
  BY Lists
<1>4. <<>> \in Seq(S)
  OBVIOUS
<1>5. evs \in Seq(S)
  <2>1. opts.events \in SUBSET S /\ "all k" \in S OBVIOUS
  <2>2. SetToSeq(opts.events) \in Seq(S) BY <1>2, <2>1, Lists
  <2>. QED BY <1>3, <2>1, <2>2
<1>6. \A s, t \in Seq(S) : s \o t \in Seq(S)
  BY Lists
<1>7. ctx \in Seq(S) /\ sys \in Seq(S) /\ uctx \in Seq(S)
  BY <1>3, <1>4 DEF If
<1>8. EnableKernel = ((<<"channel k">> \o ctx) \o sys) \o evs
  BY DEF EnableKernel
<1>9. /\ <<"channel k">> \o ctx \in Seq(S)
      /\ (<<"channel k">> \o ctx) \o sys \in Seq(S)
      /\ ((<<"channel k">> \o ctx) \o sys) \o evs \in Seq(S)
  <2>1. <<"channel k">> \o ctx \in Seq(S) BY <1>3, <1>6, <1>7
  <2>2. (<<"channel k">> \o ctx) \o sys \in Seq(S) BY <1>6, <1>7, <2>1
  <2>. QED BY <1>5, <1>6, <2>1, <2>2
<1>10. EnableUst = <<"channel u", "all u">> \o uctx /\ <<"channel u", "all u">> \in Seq(S)
  BY DEF EnableUst
<1>11. EnableUst \in Seq(S) /\ EnableKernel \in Seq(S)
  BY <1>6, <1>7, <1>8, <1>9, <1>10
<1>12. k \in Seq(S) /\ u \in Seq(S) /\ k \o u \in Seq(S)
  <2>1. k \in Seq(S) /\ u \in Seq(S) BY <1>4, <1>11
  <2>. QED BY <1>6, <2>1
<1>13. Commands = (k \o u) \o <<"start">> /\ <<"start">> \in Seq(S)
  BY <1>3 DEF Commands
<1>14. Commands \in Seq(S)
  BY <1>6, <1>12, <1>13
<1>15. ASSUME NEW e, Occurs(e, k) \/ Occurs(e, u) PROVE Occurs(e, Commands)
  <2>1. Occurs(e, k \o u) BY <1>12, <1>15, OccursCat
  <2>. QED BY <1>12, <1>13, <2>1, OccursCat
<1>16. ASSUME NEW e, Occurs(e, <<"channel k">>) \/ Occurs(e, ctx) \/ Occurs(e, evs)
       PROVE  Occurs(e, EnableKernel)
  <2>1. CASE Occurs(e, <<"channel k">>) \/ Occurs(e, ctx)
    <3>1. Occurs(e, <<"channel k">> \o ctx) BY <1>3, <1>7, <2>1, OccursCat
    <3>2. Occurs(e, (<<"channel k">> \o ctx) \o sys) BY <1>7, <1>9, <3>1, OccursCat
    <3>. QED BY <1>5, <1>8, <1>9, <3>2, OccursCat
  <2>2. CASE Occurs(e, evs)
    BY <1>5, <1>8, <1>9, <2>2, OccursCat
  <2>. QED BY <1>16, <2>1, <2>2
<1>17. Kernel => Occurs("channel k", Commands)
  BY <1>3, <1>15, <1>16
<1>18. ASSUME NEW e, Occurs(e, <<"channel u", "all u">>) \/ Occurs(e, uctx), Ust
       PROVE  Occurs(e, Commands)
  <2>1. Occurs(e, EnableUst) BY <1>7, <1>10, <1>18, OccursCat
  <2>. QED BY <1>15, <1>18, <2>1
<1>19. Ust => Occurs("channel u", Commands)
  <2>1. Len(<<"channel u", "all u">>) = 2 /\ <<"channel u", "all u">>[1] = "channel u" OBVIOUS
  <2>2. 1 \in 1 .. Len(<<"channel u", "all u">>) BY <2>1
  <2>3. Occurs("channel u", <<"channel u", "all u">>) BY <2>1, <2>2, Zenon DEF Occurs
  <2>. QED BY <1>18, <2>3
<1>20. Occurs("start", Commands)
  BY <1>3, <1>12, <1>13, OccursCat
<1>21. Kernel /\ add_context => Occurs("context k", Commands)
  BY <1>3, <1>15, <1>16 DEF If
<1>22. Ust /\ (~Kernel \/ add_context) => Occurs("context u", Commands)
  BY <1>3, <1>18 DEF If
<1>23. Kernel /\ ~add_context => Occurs("sched_switch", Commands) \/ Occurs("all k", Commands)
  <2>1. SUFFICES ASSUME Kernel, "sched_switch" \in opts.events
                 PROVE  Occurs("sched_switch", Commands) \/ Occurs("all k", Commands)
    BY DEF add_context
  <2>2. CASE opts.all BY <1>3, <1>15, <1>16, <2>1, <2>2
  <2>3. CASE ~opts.all BY <1>2, <1>15, <1>16, <2>1, <2>3
  <2>. QED BY <2>2, <2>3
<1>24. ASSUME NEW c \in Tracers PROVE Attributed(c)
  <2>1. CASE c = "k" BY <2>1, <1>21, <1>23 DEF Attributed, Tracers
  <2>2. CASE c = "u" BY <2>2, <1>22, <1>23 DEF Attributed, Tracers
  <2>. QED BY <2>1, <2>2 DEF Tracers
<1>25. Len(Commands) \in Nat
  BY <1>14, Lists
<1>. QED BY <1>17, <1>19, <1>20, <1>24, <1>25

-----------------------------------------------------------------------------
(* Each part of the invariant is kept by every step. *)

LEMMA FailuresKept ==
  ASSUME TypeOK, [Next]_vars
  PROVE  /\ failed' \in Seq(Phases)
         /\ \A w : Failed(w) => Failed(w)'
         /\ \A w : failed' = Append(failed, phase) /\ phase = w => Failed(w)'
<1>1. failed' = failed \/ failed' = Append(failed, phase)
  BY DEF Next, Steps, ParseOptions, Clean, CreateFirst, Create, DestroyStalled, CreateAgain, Enable,
     Started, Run, Stop, Destroy, NextTarget, DestroyAll, Interrupt, Succeeds, Fails, Raises, vars
<1>2. CASE failed' = failed BY <1>2 DEF TypeOK, Failed
<1>3. CASE failed' = Append(failed, phase)
  <2>1. failed \in Seq(Phases) /\ phase \in Phases BY DEF TypeOK
  <2>2. failed' \in Seq(Phases) BY <1>3, <2>1, Recorded
  <2>3. \A w : Failed(w) \/ phase = w => Failed(w)' BY <1>3, <2>1, Recorded DEF Failed
  <2>. QED BY <2>2, <2>3
<1>. QED BY <1>1, <1>2, <1>3

(* What a create may do to the sessions, whether it succeeds or not. *)
LEMMA CreateLeaves ==
  ASSUME TypeOK, NEW there, NEW back, there # back, Create(there, back)
  PROVE  /\ sessions' \subseteq sessions \cup {target}
         /\ Other \in sessions => Other \in sessions'
         /\ opts.dry_run => sessions' = sessions
         /\ phase' = there => opts.dry_run \/ target \in sessions'
         /\ phase' \in {there, back} /\ UNCHANGED <<opts, target, out, traces>>
<1>. USE DEF current, Other
<1>1. CASE target \notin sessions /\ Succeeds(sessions \cup {target}, {}, there)
  BY <1>1 DEF Create, Succeeds
<1>2. CASE Fails(sessions \ {current}, back)
  BY <1>2 DEF Create, Fails, TypeOK
<1>3. CASE Fails((sessions \cup {target}) \ {current}, back)
  BY <1>3 DEF Create, Fails, TypeOK
<1>. QED BY <1>1, <1>2, <1>3 DEF Create

LEMMA TypeKept == TypeOK /\ LoopInv /\ [Next]_vars => TypeOK'
<1>. SUFFICES ASSUME TypeOK, LoopInv, [Next]_vars PROVE TypeOK'
  OBVIOUS
<1>. USE LttngAssumption DEF current, Phases
<1>0. failed' \in Seq(Phases) BY FailuresKept
<1>1. CASE ParseOptions BY <1>0, <1>1 DEF ParseOptions, TypeOK, LoopInv
<1>2. CASE Clean BY <1>0, <1>2 DEF Clean, Raises, TypeOK, LoopInv
<1>3. CASE CreateFirst BY <1>0, <1>3 DEF CreateFirst, Create, Succeeds, Fails, Raises, TypeOK
<1>4. CASE DestroyStalled BY <1>0, <1>4 DEF DestroyStalled, Succeeds, Fails, Raises, TypeOK, LoopInv
<1>5. CASE CreateAgain BY <1>0, <1>5 DEF CreateAgain, Create, Succeeds, Fails, Raises, TypeOK
<1>6. CASE Enable BY <1>0, <1>6 DEF Enable, Succeeds, Fails, Raises, TypeOK
<1>7. CASE Started BY <1>0, <1>7 DEF Started, TypeOK, LoopInv
<1>8. CASE Run
  <2>1. traces' = traces \/ traces' = Append(traces, target) BY <1>8 DEF Run
  <2>2. traces \in Seq(Nat) /\ target \in Nat BY DEF TypeOK
  <2>3. Append(traces, target) \in Seq(Nat) BY <2>2
  <2>4. traces' \in Seq(Nat) BY ONLY <2>1, <2>2, <2>3
  <2>5. phase' \in {"stop", "destroyall"} /\ UNCHANGED <<opts, target, step, out>>
    BY <1>8 DEF Run, Raises
  <2>. QED BY <1>0, <2>4, <2>5 DEF TypeOK
<1>9. CASE Stop BY <1>0, <1>9 DEF Stop, Succeeds, Fails, Raises, TypeOK, LoopInv
<1>10. CASE Destroy BY <1>0, <1>10 DEF Destroy, Succeeds, Fails, Raises, TypeOK, LoopInv
<1>11. CASE NextTarget BY <1>0, <1>11 DEF NextTarget, TypeOK, LoopInv
<1>12. CASE DestroyAll BY <1>0, <1>12 DEF DestroyAll, Succeeds, Fails, Raises, TypeOK, LoopInv
<1>13. CASE Interrupt BY <1>0, <1>13 DEF Interrupt, TypeOK, LoopInv
<1>14. CASE UNCHANGED vars BY <1>0, <1>14 DEF TypeOK, LoopInv, vars
<1>. QED BY <1>1, <1>2, <1>3, <1>4, <1>5, <1>6, <1>7, <1>8, <1>9, <1>10, <1>11, <1>12, <1>13, <1>14 DEF Next, Steps

LEMMA LoopKept == TypeOK /\ LoopInv /\ [Next]_vars => LoopInv'
<1>. SUFFICES ASSUME TypeOK, LoopInv, [Next]_vars PROVE LoopInv'
  OBVIOUS
<1>. USE LttngAssumption DEF Phases
<1>1. CASE ParseOptions BY <1>1 DEF ParseOptions, TypeOK, LoopInv
<1>2. CASE Clean BY <1>2 DEF Clean, Raises, TypeOK, LoopInv
<1>3. CASE CreateFirst BY <1>3 DEF CreateFirst, Create, Succeeds, Fails, Raises, TypeOK, LoopInv
<1>4. CASE DestroyStalled BY <1>4 DEF DestroyStalled, Succeeds, Fails, Raises, TypeOK, LoopInv
<1>5. CASE CreateAgain BY <1>5 DEF CreateAgain, Create, Succeeds, Fails, Raises, TypeOK, LoopInv
<1>6. CASE Enable BY <1>6 DEF Enable, Succeeds, Fails, Raises, TypeOK, LoopInv
<1>7. CASE Started BY <1>7 DEF Started, TypeOK, LoopInv
<1>8. CASE Run BY <1>8 DEF Run, Raises, TypeOK, LoopInv
<1>9. CASE Stop BY <1>9 DEF Stop, Succeeds, Fails, Raises, TypeOK, LoopInv
<1>10. CASE Destroy BY <1>10 DEF Destroy, Succeeds, Fails, Raises, TypeOK, LoopInv
<1>11. CASE NextTarget BY <1>11 DEF NextTarget, TypeOK, LoopInv
<1>12. CASE DestroyAll BY <1>12 DEF DestroyAll, Succeeds, Fails, Raises, TypeOK, LoopInv
<1>13. CASE Interrupt BY <1>13 DEF Interrupt, TypeOK, LoopInv
<1>14. CASE UNCHANGED vars BY <1>14 DEF TypeOK, LoopInv, vars
<1>. QED BY <1>1, <1>2, <1>3, <1>4, <1>5, <1>6, <1>7, <1>8, <1>9, <1>10, <1>11, <1>12, <1>13, <1>14 DEF Next, Steps


LEMMA SessionsKept == TypeOK /\ LoopInv /\ SessionInv /\ [Next]_vars => SessionInv'
<1>. SUFFICES ASSUME TypeOK, LoopInv, SessionInv, [Next]_vars PROVE SessionInv'
  OBVIOUS
<1>. USE LttngAssumption DEF current, Other, Phases
<1>0. /\ \A w : Failed(w) => Failed(w)'
      /\ \A w : failed' = Append(failed, phase) /\ phase = w => Failed(w)'
  BY FailuresKept
<1>1. CASE ParseOptions BY <1>0, <1>1 DEF ParseOptions, TypeOK, LoopInv, SessionInv, Clean0, Aborted
<1>2. CASE Clean BY <1>0, <1>2 DEF Clean, Raises, TypeOK, LoopInv, SessionInv, Clean0, Aborted
<1>3. CASE CreateFirst
  <2>1. Create("enable", "destroystalled") BY <1>3 DEF CreateFirst
  <2>. QED BY <1>0, <1>3, <2>1, CreateLeaves DEF CreateFirst, LoopInv, SessionInv, Clean0, Aborted
<1>4. CASE DestroyStalled BY <1>0, <1>4 DEF DestroyStalled, Succeeds, Fails, Raises, TypeOK, LoopInv, SessionInv, Clean0, Aborted
<1>5. CASE CreateAgain
  <2>1. Create("enable", "destroyall") BY <1>5 DEF CreateAgain
  <2>. QED BY <1>0, <1>5, <2>1, CreateLeaves DEF CreateAgain, LoopInv, SessionInv, Clean0, Aborted
<1>6. CASE Enable
  <2>1. /\ phase = "enable" /\ phase' \in {"enable", "destroyall"}
        /\ UNCHANGED <<opts, target>>
    BY <1>6 DEF Enable, Succeeds, Fails, Raises
  <2>2. sessions' = sessions \/ (sessions' = sessions \ {current} /\ ~opts.dry_run)
    <3>1. CASE Succeeds(sessions, conf \cup {Commands[step]}, phase) BY <3>1 DEF Succeeds
    <3>2. CASE Fails(sessions, phase) BY <3>2 DEF Fails
    <3>3. CASE Fails(sessions \ {current}, "destroyall") BY <3>3 DEF Fails
    <3>4. CASE Raises BY <3>4 DEF Raises
    <3>. QED BY <1>6, <3>1, <3>2, <3>3, <3>4 DEF Enable
  <2>. QED BY <1>0, <2>1, <2>2 DEF LoopInv, SessionInv, Clean0, Aborted
<1>7. CASE Started BY <1>0, <1>7 DEF Started, TypeOK, LoopInv, SessionInv, Clean0, Aborted
<1>8. CASE Run BY <1>0, <1>8 DEF Run, Raises, TypeOK, LoopInv, SessionInv, Clean0, Aborted
<1>9. CASE Stop BY <1>0, <1>9 DEF Stop, Succeeds, Fails, Raises, TypeOK, LoopInv, SessionInv, Clean0, Aborted
<1>10. CASE Destroy BY <1>0, <1>10 DEF Destroy, Succeeds, Fails, Raises, TypeOK, LoopInv, SessionInv, Clean0, Aborted
<1>11. CASE NextTarget BY <1>0, <1>11 DEF NextTarget, TypeOK, LoopInv, SessionInv, Clean0, Aborted
<1>12. CASE DestroyAll BY <1>0, <1>12 DEF DestroyAll, Succeeds, Fails, Raises, TypeOK, LoopInv, SessionInv, Clean0, Aborted
<1>13. CASE Interrupt BY <1>0, <1>13 DEF Interrupt, TypeOK, LoopInv, SessionInv, Clean0, Aborted
<1>14. CASE UNCHANGED vars BY <1>0, <1>14 DEF TypeOK, LoopInv, SessionInv, Clean0, Aborted, vars
<1>. QED BY <1>1, <1>2, <1>3, <1>4, <1>5, <1>6, <1>7, <1>8, <1>9, <1>10, <1>11, <1>12, <1>13, <1>14 DEF Next, Steps

LEMMA TracesKept == TypeOK /\ LoopInv /\ TracesInv /\ [Next]_vars => TracesInv'
<1>. SUFFICES ASSUME TypeOK, LoopInv, TracesInv, [Next]_vars PROVE TracesInv'
  OBVIOUS
<1>. USE LttngAssumption DEF Phases
<1>0. /\ \A w : Failed(w) => Failed(w)'
      /\ \A w : failed' = Append(failed, phase) /\ phase = w => Failed(w)'
  BY FailuresKept
<1>1. CASE ParseOptions BY <1>0, <1>1 DEF ParseOptions, TypeOK, LoopInv, TracesInv, Aborted, Ran
<1>2. CASE Clean BY <1>0, <1>2 DEF Clean, Raises, TypeOK, LoopInv, TracesInv, Aborted, Ran
<1>3. CASE CreateFirst BY <1>0, <1>3 DEF CreateFirst, Create, Succeeds, Fails, Raises, TypeOK, LoopInv, TracesInv, Aborted, Ran
<1>4. CASE DestroyStalled BY <1>0, <1>4 DEF DestroyStalled, Succeeds, Fails, Raises, TypeOK, LoopInv, TracesInv, Aborted, Ran
<1>5. CASE CreateAgain BY <1>0, <1>5 DEF CreateAgain, Create, Succeeds, Fails, Raises, TypeOK, LoopInv, TracesInv, Aborted, Ran
<1>6. CASE Enable BY <1>0, <1>6 DEF Enable, Succeeds, Fails, Raises, TypeOK, LoopInv, TracesInv, Aborted, Ran
<1>7. CASE Started BY <1>0, <1>7 DEF Started, TypeOK, LoopInv, TracesInv, Aborted, Ran
<1>8. CASE Run
  <2>1. /\ phase = "run" /\ UNCHANGED <<opts, target>>
        /\ raised = "none" /\ ~opts.daemon /\ Len(traces) = Ran(target - 1)
    BY <1>8 DEF Run, LoopInv, TracesInv
  <2>2. CASE opts.command /\ Raises /\ UNCHANGED traces
    BY <2>1, <2>2 DEF Raises, TracesInv, Aborted, Ran
  <2>3. CASE opts.command /\ phase' = "stop" /\ raised' = raised /\ traces' = Append(traces, target)
    <3>1. Len(traces) = target - 1 BY <2>1, <2>3 DEF Ran
    <3>2. /\ Len(traces') = target
          /\ \A j \in DOMAIN traces' : traces'[j] = j
      BY <2>3, <3>1 DEF TypeOK, TracesInv
    <3>. QED BY <2>1, <2>3, <3>2 DEF TracesInv, Aborted, Ran
  <2>4. CASE ~opts.command /\ phase' = "stop" /\ UNCHANGED <<raised, traces>>
    BY <2>1, <2>4 DEF TracesInv, Aborted, Ran
  <2>. QED BY <1>8, <2>2, <2>3, <2>4 DEF Run
<1>9. CASE Stop BY <1>0, <1>9 DEF Stop, Succeeds, Fails, Raises, TypeOK, LoopInv, TracesInv, Aborted, Ran
<1>10. CASE Destroy BY <1>0, <1>10 DEF Destroy, Succeeds, Fails, Raises, TypeOK, LoopInv, TracesInv, Aborted, Ran
<1>11. CASE NextTarget BY <1>0, <1>11 DEF NextTarget, TypeOK, LoopInv, TracesInv, Aborted, Ran
<1>12. CASE DestroyAll BY <1>0, <1>12 DEF DestroyAll, Succeeds, Fails, Raises, TypeOK, LoopInv, TracesInv, Aborted, Ran
<1>13. CASE Interrupt BY <1>0, <1>13 DEF Interrupt, TypeOK, LoopInv, TracesInv, Aborted, Ran
<1>14. CASE UNCHANGED vars BY <1>0, <1>14 DEF TypeOK, LoopInv, TracesInv, Aborted, Ran, vars
<1>. QED BY <1>1, <1>2, <1>3, <1>4, <1>5, <1>6, <1>7, <1>8, <1>9, <1>10, <1>11, <1>12, <1>13, <1>14 DEF Next, Steps

LEMMA EnabledKept == TypeOK /\ LoopInv /\ EnableInv /\ [Next]_vars => EnableInv'
<1>. SUFFICES ASSUME TypeOK, LoopInv, EnableInv, [Next]_vars PROVE EnableInv'
  OBVIOUS
<1>1. Commands' = Commands /\ opts' = opts
  <2>1. opts' = opts
    BY DEF Next, Steps, ParseOptions, Clean, CreateFirst, Create, DestroyStalled, CreateAgain, Enable,
       Started, Run, Stop, Destroy, NextTarget, DestroyAll, Interrupt, vars
  <2>. QED BY <2>1 DEF Commands, EnableKernel, EnableUst, Kernel, Ust, add_context
<1>. HIDE DEF Commands
<1>2. Len(Commands) \in Nat
  BY CommandList DEF TypeOK
<1>. SUFFICES ASSUME ~opts.dry_run PROVE EnableInv'
  BY <1>1 DEF EnableInv
<1>3. CASE Clean
  <2>1. target \in 1 .. opts.targets BY <1>3 DEF Clean, TypeOK, LoopInv
  <2>2. CASE phase' = "create"
    <3>1. UNCHANGED target /\ (opts.clear => out' = [out EXCEPT ![target] = "absent"])
      BY <1>3, <2>2 DEF Clean, Raises
    <3>2. opts.clear => out'[target] = "absent" BY <2>1, <3>1 DEF TypeOK
    <3>. QED BY <1>1, <2>2, <3>1, <3>2 DEF EnableInv
  <2>3. CASE phase' = "destroyall" BY <2>3 DEF EnableInv
  <2>. QED BY <1>3, <2>2, <2>3 DEF Clean, Raises
<1>4. CASE CreateFirst \/ CreateAgain
  <2>1. PICK back : Create("enable", back) /\ back \in {"destroystalled", "destroyall"}
    BY <1>4 DEF CreateFirst, CreateAgain
  <2>2. /\ phase' \in {"enable", back} /\ (phase' = "enable" => target \in sessions')
        /\ UNCHANGED <<target, out>>
    BY <2>1, CreateLeaves
  <2>3. step' = 1 /\ phase \in {"create", "recreate"} BY <1>4 DEF CreateFirst, CreateAgain, Create
  <2>4. Enabled(step)' BY <1>1, <1>2, <2>3 DEF Enabled
  <2>. QED BY <1>1, <2>1, <2>2, <2>3, <2>4 DEF EnableInv
<1>5. CASE DestroyStalled
  <2>1. /\ phase = "destroystalled" /\ phase' \in {"recreate", "destroyall"}
        /\ UNCHANGED <<target, out>>
    BY <1>5 DEF DestroyStalled, Succeeds, Fails, Raises
  <2>. QED BY <1>1, <2>1 DEF EnableInv
<1>6. CASE Enable
  <2>1. /\ phase = "enable" /\ step' = step + 1 /\ step \in 1 .. Len(Commands)
        /\ UNCHANGED <<target, out>>
    BY <1>2, <1>6 DEF Enable, TypeOK
  <2>2. target \in sessions /\ Enabled(step) /\ (opts.clear => out[target] = "absent")
    BY <2>1 DEF EnableInv
  <2>3. CASE Succeeds(sessions, conf \cup {Commands[step]}, phase)
    <3>1. sessions' = sessions /\ conf' = conf \cup {Commands[step]} /\ phase' = phase
      BY <2>3 DEF Succeeds
    <3>2. Enabled(step)' BY <1>1, <1>2, <2>1, <2>2, <3>1 DEF Enabled
    <3>. QED BY <1>1, <2>1, <2>2, <3>1, <3>2 DEF EnableInv
  <2>4. CASE Commands[step] = "syscalls" /\ Fails(sessions, phase)
    <3>1. UNCHANGED <<sessions, conf, phase>> BY <2>4 DEF Fails
    <3>2. Enabled(step)' BY <1>1, <1>2, <2>1, <2>2, <2>4, <3>1 DEF Enabled
    <3>. QED BY <1>1, <2>1, <2>2, <3>1, <3>2 DEF EnableInv
  <2>5. CASE phase' = "destroyall" BY <2>5 DEF EnableInv
  <2>. QED BY <1>6, <2>3, <2>4, <2>5 DEF Enable, Fails, Raises
<1>7. CASE Started
  <2>1. /\ phase = "enable" /\ phase' \in {"run", "next"} /\ step > Len(Commands)
        /\ UNCHANGED <<target, sessions, conf>>
        /\ out' = [out EXCEPT ![target] = IF @ = "absent" THEN "new" ELSE "mixed"]
    BY <1>7 DEF Started
  <2>2. target \in sessions /\ Enabled(step) /\ (opts.clear => out[target] = "absent")
    BY <2>1 DEF EnableInv
  <2>3. target \in 1 .. opts.targets /\ step \in Nat /\ DOMAIN out = 1 .. opts.targets
    BY <2>1 DEF TypeOK, LoopInv
  <2>4. opts.clear => out'[target] = "new" BY <2>1, <2>2, <2>3
  <2>5. Enabled(Len(Commands) + 1)' BY <1>1, <1>2, <2>1, <2>2, <2>3 DEF Enabled
  <2>. QED BY <1>1, <2>1, <2>2, <2>4, <2>5 DEF EnableInv
<1>8. CASE \/ ParseOptions \/ Run \/ Stop \/ Destroy \/ NextTarget \/ DestroyAll \/ Interrupt
  <2>1. phase' \in {"end", "clean", "stop", "destroy", "next", "destroyall", "killed"}
    BY <1>8 DEF ParseOptions, Run, Stop, Destroy, NextTarget, DestroyAll, Interrupt, Succeeds, Fails,
       Raises
  <2>. QED BY <2>1 DEF EnableInv
<1>9. CASE UNCHANGED vars
  <2>1. UNCHANGED <<phase, target, step, sessions, conf, out>> BY <1>9 DEF vars
  <2>. QED BY <1>1, <2>1 DEF EnableInv, Enabled
<1>. QED BY <1>3, <1>4, <1>5, <1>6, <1>7, <1>8, <1>9 DEF Next, Steps

-----------------------------------------------------------------------------
LEMMA InvInitial == Init => IInv
BY LttngAssumption DEF Init, IInv, TypeOK, LoopInv, SessionInv, Clean0, TracesInv, EnableInv, Aborted, Ran, Other, Phases

LEMMA InvInductive == IInv /\ [Next]_vars => IInv'
BY TypeKept, LoopKept, SessionsKept, TracesKept, EnabledKept DEF IInv

LEMMA InvHolds == Spec => []IInv
BY InvInitial, InvInductive, PTL DEF Spec

(* Whichever commands of lttng-simple fail, every target is run in a       *)
(* session that was started with a channel for each tracer asked for and   *)
(* whose events can be attributed to their threads, and with --clear it    *)
(* writes to a new trace.                                                  *)
THEOREM EveryRunIsTraced == Spec => []TracedAsAsked
<1>1. IInv => TracedAsAsked
  <2>1. SUFFICES ASSUME IInv, phase = "run", ~opts.dry_run
                 PROVE  /\ target \in sessions /\ "start" \in conf
                        /\ Kernel => "channel k" \in conf
                        /\ Ust => "channel u" \in conf
                        /\ \A c \in Tracers :
                             \/ (IF c = "k" THEN "context k" ELSE "context u") \in conf
                             \/ "sched_switch" \in conf \/ "all k" \in conf
                        /\ opts.clear => out[target] = "new"
    BY DEF TracedAsAsked
  <2>2. /\ Len(Commands) \in Nat
        /\ Occurs("start", Commands)
        /\ Kernel => Occurs("channel k", Commands)
        /\ Ust => Occurs("channel u", Commands)
        /\ \A c \in Tracers : Attributed(c)
    BY <2>1, CommandList DEF IInv, TypeOK
  <2>3. /\ Enabled(Len(Commands) + 1) /\ target \in sessions
        /\ opts.clear => out[target] = "new"
    BY <2>1 DEF IInv, EnableInv
  <2>4. ASSUME NEW e, Occurs(e, Commands), e # "syscalls" PROVE e \in conf
    <3>1. PICK j \in 1 .. Len(Commands) : Commands[j] = e BY <2>4 DEF Occurs
    <3>2. j < Len(Commands) + 1
      <4>1. Len(Commands) \in Nat BY <2>2
      <4>. QED BY <4>1, SMT
    <3>. QED BY <2>3, <2>4, <3>1, <3>2 DEF Enabled
  <2>. QED BY <2>2, <2>3, <2>4 DEF Attributed
<1>. QED BY <1>1, InvHolds, PTL

(* When lttng-simple ends, however it ends, it leaves no session of its    *)
(* own behind, unless the command that destroys it has failed; the         *)
(* sessions of others survive every run that was not aborted.              *)
THEOREM NoSessionIsLeft == Spec => []SessionsAtEnd
<1>1. IInv => SessionsAtEnd
  BY DEF IInv, SessionInv, SessionsAtEnd, Clean0, Ended
<1>. QED BY <1>1, InvHolds, PTL

(* However many targets a batch has, lttng-simple runs each of them once   *)
(* and in turn; only an exception ends the loop early, and whether the     *)
(* target at hand was run depends on where it was raised.                  *)
THEOREM EveryTargetInTurn == Spec => []TargetsInTurn
<1>1. IInv => TargetsInTurn
  BY LttngAssumption DEF IInv, TypeOK, TracesInv, TargetsInTurn, Aborted, Ran
<1>. QED BY <1>1, InvHolds, PTL

=============================================================================
