--------------------------- MODULE ChannelProofs ----------------------------
(***************************************************************************)
(* Proofs about the two workloads whose processes exchange data through    *)
(* the kernel: the rpc programs over TCP (Rpc) and wk-pipette over a pipe  *)
(* (Pipette).                                                              *)
(*                                                                         *)
(* Rpc, for any set of clients, any --repeat and any number of killed      *)
(* clients: the commands of a client are executed once and in order,       *)
(* followed by one phantom, and only a client that is killed in the middle *)
(* of a command brings the server down.                                    *)
(*                                                                         *)
(* Pipette, for any sizes of the pages, the pipe and the blocks, and any   *)
(* number of blocks: the blocks arrive intact, and nobody meets the end of *)
(* the file or SIGPIPE.                                                    *)
(***************************************************************************)
EXTENDS Rpc, Pipette, TLAPS

-----------------------------------------------------------------------------
(* Rpc *)

Messages == [cmd : Commands, cnt : Nat]
Sides == {"client", "server"}

TypeOK ==
  /\ cpc \in [Clients -> {"connect", "write", "read"} \cup Dead]
  /\ cmd \in [Clients -> Commands] /\ left \in [Clients -> Nat]
  /\ request \in [Clients -> Seq(Messages)] /\ answer \in [Clients -> Seq(Messages)]
  /\ shut \in [Clients -> SUBSET Sides] /\ reset \in [Clients -> SUBSET Sides]
  /\ backlog \in Seq(Clients)
  /\ spc \in {"start", "failed", "accept", "read", "execute", "write", "close", "dead"}
  /\ conn \in Clients \cup {None} /\ msg \in Messages
  /\ made \in [Clients -> Nat] /\ served \in [Clients -> Seq(Messages)]

Pending == {backlog[j] : j \in DOMAIN backlog}

Connected(c) == cpc[c] \notin {"connect", "failed"}
Gone(c) == cpc[c] \in {"done", "killed"}

(* A connection is in the backlog, in the hands of the server, or closed   *)
(* by it, and the server closes no connection before its client has.       *)
PlaceInv ==
  /\ conn \in Clients <=> spc \in {"read", "execute", "write", "close"}
  /\ conn \notin Pending
  /\ \A j, k \in DOMAIN backlog : backlog[j] = backlog[k] => j = k
  /\ spc \in {"start", "failed", "dead"} => backlog = <<>>
  /\ \A c \in Clients :
       /\ Connected(c) <=> c \in Pending \/ c = conn \/ "server" \in shut[c]
       /\ "server" \in shut[c] => c \notin Pending /\ c # conn
       /\ "server" \in shut[c] /\ spc # "dead" => Gone(c)
       /\ "client" \in shut[c] <=> Gone(c)
       /\ "client" \in reset[c] => "server" \in shut[c]

(* The commands executed for a client count down; only the last one can    *)
(* be a phantom.                                                           *)
CountsDown(c) ==
  \A j \in DOMAIN served[c] :
    /\ served[c][j].cnt > 0 => /\ served[c][j].cmd = cmd[c]
                               /\ j > 1 => served[c][j].cnt = served[c][j - 1].cnt - 1
    /\ served[c][j].cnt = 0 => j = Len(served[c])

Last(c) == served[c][Len(served[c])].cnt
Command(c) == Message(cmd[c], left[c])
Quiet(c) == request[c] = <<>> /\ answer[c] = <<>> /\ reset[c] = {}
Asking(c) == cpc[c] \in {"read", "killed"} /\ left[c] > 0 /\ made[c] > 0
Serves(c, there) == conn = c /\ spc = there

(* Where the command of a client is: not yet made, in the request, read,   *)
(* executed, answered, or lost with the client; then the phantom, read and *)
(* executed.                                                               *)
Idle(c) ==
  /\ cpc[c] # "read" /\ Quiet(c) /\ (conn = c => spc = "read")
  /\ cpc[c] = "done" => left[c] = 0
  /\ Len(served[c]) = made[c] /\ (made[c] > 0 => Last(c) = left[c] + 1)

InRequest(c) ==
  /\ Asking(c) /\ request[c] = <<Command(c)>> /\ answer[c] = <<>> /\ reset[c] = {}
  /\ conn = c => spc = "read"
  /\ Len(served[c]) = made[c] - 1 /\ (made[c] > 1 => Last(c) = left[c] + 1)

Taken(c) ==
  /\ Asking(c) /\ Quiet(c) /\ Serves(c, "execute") /\ msg = Command(c)
  /\ Len(served[c]) = made[c] - 1 /\ (made[c] > 1 => Last(c) = left[c] + 1)

Ran(c) == Len(served[c]) = made[c] /\ Last(c) = left[c]

Unanswered(c) == Asking(c) /\ Quiet(c) /\ Serves(c, "write") /\ msg = Command(c) /\ Ran(c)

InAnswer(c) ==
  /\ Asking(c) /\ cpc[c] = "read" /\ request[c] = <<>> /\ answer[c] = <<Command(c)>>
  /\ reset[c] = {} /\ Serves(c, "read") /\ Ran(c)

Lost(c) ==
  /\ Asking(c) /\ cpc[c] = "killed" /\ request[c] = <<>> /\ Len(answer[c]) <= 1
  /\ reset[c] \subseteq {"server"} /\ (answer[c] # <<>> => reset[c] = {"server"})
  /\ Serves(c, "read") /\ Ran(c)

PhantomRead(c) ==
  /\ Gone(c) /\ Quiet(c) /\ Serves(c, "execute") /\ msg = Zeroed
  /\ Len(served[c]) = made[c] /\ (made[c] > 0 => Last(c) > 0)

PhantomRan(c) ==
  /\ Gone(c) /\ request[c] = <<>> /\ answer[c] = <<>> /\ msg = Zeroed
  /\ conn = c /\ spc \in {"write", "close"}
  /\ "client" \notin reset[c] /\ (spc = "write" => reset[c] = {})
  /\ Len(served[c]) = made[c] + 1 /\ Last(c) = 0

Dialogue(c) ==
  \/ Idle(c) \/ InRequest(c) \/ Taken(c) \/ Unanswered(c) \/ InAnswer(c)
  \/ Lost(c) \/ PhantomRead(c) \/ PhantomRan(c)

(* What is left of a connection the server has closed. *)
Closed(c) ==
  /\ Len(request[c]) + Len(answer[c]) <= 1
  /\ answer[c] # <<>> => cpc[c] = "killed"
  /\ cpc[c] = "read" => left[c] > 0
  /\ spc # "dead" => Len(served[c]) = made[c] + 1

Talk(c) == IF "server" \in shut[c] THEN Closed(c) ELSE Dialogue(c)

DialogueInv == \A c \in Clients : Talk(c)

CountInv == \A c \in Clients : CountsDown(c)

(* The inductive invariant. *)
IInv == TypeOK /\ PlaceInv /\ CountInv /\ DialogueInv /\ ServerOutlivesOrderlyClients

-----------------------------------------------------------------------------
LEMMA InitInv == Init => IInv
<1> SUFFICES ASSUME Init PROVE IInv
  OBVIOUS
<1>1. TypeOK
  <2>1. cmd \in [Clients -> Commands] /\ left \in [Clients -> Nat]
    BY RpcAssumption DEF Init
  <2>2. msg \in Messages
    BY DEF Init, Zeroed, Message, Messages, Commands
  <2> QED BY <2>1, <2>2 DEF Init, TypeOK, Dead, Sides
<1>2. PlaceInv
  BY RpcAssumption DEF Init, PlaceInv, Pending, Connected, Gone
<1>3. CountInv
  BY DEF Init, CountInv, CountsDown
<1>4. DialogueInv
  BY RpcAssumption DEF Init, DialogueInv, Talk, Dialogue, Idle, Quiet
<1> QED BY <1>1, <1>2, <1>3, <1>4 DEF IInv, Init, ServerOutlivesOrderlyClients

-----------------------------------------------------------------------------
(* What a step must leave alone so that the dialogue with d is where it    *)
(* was.                                                                    *)
Untouched(d) ==
  /\ cpc'[d] = cpc[d] /\ cmd'[d] = cmd[d] /\ left'[d] = left[d]
  /\ request'[d] = request[d] /\ answer'[d] = answer[d]
  /\ shut'[d] = shut[d] /\ reset'[d] = reset[d]
  /\ made'[d] = made[d] /\ served'[d] = served[d]
  /\ conn' = d <=> conn = d
  /\ conn = d => spc' = spc /\ msg' = msg

LEMMA Others ==
  ASSUME NEW d \in Clients, Talk(d), Untouched(d), spc = "dead" => spc' = "dead"
  PROVE  Talk(d)'
<1> USE DEF Untouched
<1>1. CASE "server" \in shut[d]
  BY <1>1 DEF Talk, Closed
<1>2. CASE "server" \notin shut[d]
  <2>1. Dialogue(d) BY <1>2 DEF Talk
  <2>2. Dialogue(d)'
    BY <2>1 DEF Dialogue, Idle, InRequest, Taken, Unanswered, InAnswer, Lost, PhantomRead,
       PhantomRan, Quiet, Asking, Serves, Ran, Gone, Last, Command
  <2> QED BY <1>2, <2>2 DEF Talk
<1> QED BY <1>1, <1>2

LEMMA SameServed ==
  ASSUME CountInv, UNCHANGED <<cmd, served>>
  PROVE  CountInv'
BY DEF CountInv, CountsDown

LEMMA SamePlace ==
  ASSUME PlaceInv, UNCHANGED <<backlog, spc, conn, shut>>,
         \A d \in Clients : /\ Connected(d)' <=> Connected(d)
                            /\ Gone(d)' <=> Gone(d)
                            /\ "client" \in reset'[d] => "server" \in shut[d]
  PROVE  PlaceInv'
<1>1. Pending' = Pending
  BY DEF Pending
<1> QED BY <1>1 DEF PlaceInv

LEMMA OneInFlight ==
  ASSUME NEW s \in Seq(Messages), NEW t \in Seq(Messages), NEW m,
         \/ s = <<>> /\ (t = <<>> \/ t = <<m>> \/ Len(t) <= 1)
         \/ s = <<m>> /\ t = <<>>
  PROVE  Len(s) + Len(t) <= 1
<1>1. CASE s = <<>> /\ t = <<>>
  BY <1>1
<1>2. CASE s = <<>> /\ t = <<m>>
  BY <1>2
<1>3. CASE s = <<>> /\ Len(t) <= 1
  BY <1>3
<1>4. CASE s = <<m>> /\ t = <<>>
  BY <1>4
<1> QED BY <1>1, <1>2, <1>3, <1>4

(* The other members of the backlog stay when one is added or taken. *)
LEMMA PendingAppend ==
  ASSUME backlog \in Seq(Clients), NEW c \in Clients, backlog' = Append(backlog, c)
  PROVE  Pending' = Pending \cup {c}
BY DEF Pending

LEMMA PendingTail ==
  ASSUME backlog \in Seq(Clients), backlog # <<>>,
         \A j, k \in DOMAIN backlog : backlog[j] = backlog[k] => j = k,
         backlog' = Tail(backlog)
  PROVE  /\ Head(backlog) \in Pending /\ Head(backlog) \in Clients
         /\ Pending' = Pending \ {Head(backlog)}
         /\ \A j, k \in DOMAIN backlog' : backlog'[j] = backlog'[k] => j = k
<1>1. /\ Len(backlog) \in Nat \ {0} /\ DOMAIN backlog = 1 .. Len(backlog)
      /\ Head(backlog) = backlog[1] /\ Head(backlog) \in Clients
      /\ DOMAIN backlog' = 1 .. Len(backlog) - 1
      /\ \A j \in DOMAIN backlog' : backlog'[j] = backlog[j + 1]
  OBVIOUS
<1>2. Pending' \subseteq Pending \ {Head(backlog)}
  <2> SUFFICES ASSUME NEW j \in DOMAIN backlog'
               PROVE  backlog'[j] \in Pending \ {Head(backlog)}
    BY DEF Pending
  <2> QED BY <1>1 DEF Pending
<1>3. Pending \ {Head(backlog)} \subseteq Pending'
  <2> SUFFICES ASSUME NEW j \in DOMAIN backlog, backlog[j] # Head(backlog)
               PROVE  backlog[j] \in Pending'
    BY DEF Pending
  <2>1. j - 1 \in DOMAIN backlog' /\ backlog'[j - 1] = backlog[j]
    BY <1>1
  <2> QED BY <2>1 DEF Pending
<1>4. \A j, k \in DOMAIN backlog' : backlog'[j] = backlog'[k] => j = k
  <2> SUFFICES ASSUME NEW j \in DOMAIN backlog', NEW k \in DOMAIN backlog',
                      backlog'[j] = backlog'[k]
               PROVE  j = k
    OBVIOUS
  <2>1. j + 1 \in DOMAIN backlog /\ k + 1 \in DOMAIN backlog /\ backlog[j + 1] = backlog[k + 1]
    BY <1>1
  <2>2. j + 1 = k + 1
    BY <2>1
  <2> QED BY <1>1, <2>2
<1>5. Head(backlog) \in Pending
  BY <1>1 DEF Pending
<1> QED BY <1>1, <1>2, <1>3, <1>4, <1>5

-----------------------------------------------------------------------------
(* The client *)

LEMMA ConnectKeeps ==
  ASSUME IInv, NEW c \in Clients, rpc_connect(c)
  PROVE  IInv'
<1> USE DEF IInv, rpc_connect, ServerListens, net
<1>1. TypeOK'
  BY DEF TypeOK, Dead
<1>2. PlaceInv'
  <2>1. CASE ServerListens
    <3>1. Pending' = Pending \cup {c}
      BY <2>1, PendingAppend DEF TypeOK
    <3>2. ASSUME NEW j \in DOMAIN backlog', NEW k \in DOMAIN backlog', backlog'[j] = backlog'[k]
          PROVE  j = k
      <4>1. c \notin Pending
        BY DEF PlaceInv, Connected
      <4>2. /\ DOMAIN backlog = 1 .. Len(backlog) /\ Len(backlog) \in Nat
            /\ DOMAIN backlog' = 1 .. Len(backlog) + 1
            /\ backlog'[Len(backlog) + 1] = c
            /\ \A b \in DOMAIN backlog : backlog'[b] = backlog[b]
        <5>1. backlog' = Append(backlog, c) /\ backlog \in Seq(Clients)
          BY <2>1 DEF TypeOK
        <5> QED BY <5>1
      <4>4. \A b \in DOMAIN backlog : backlog[b] # c
        BY <4>1 DEF Pending
      <4>3. CASE j \in DOMAIN backlog /\ k \in DOMAIN backlog
        BY <3>2, <4>2, <4>3 DEF PlaceInv
      <4> QED BY <3>2, <4>2, <4>3, <4>4
    <3> QED BY <2>1, <3>1, <3>2 DEF TypeOK, PlaceInv, Connected, Gone
  <2>2. CASE ~ServerListens
    BY <2>2 DEF TypeOK, PlaceInv, Connected, Gone, Pending
  <2> QED BY <2>1, <2>2
<1>3. Talk(c)'
  BY DEF TypeOK, PlaceInv, Connected, DialogueInv, Talk, Dialogue, Idle, InRequest, Taken,
     Unanswered, InAnswer, Lost, PhantomRead, PhantomRan, Quiet, Asking, Serves, Gone, Last
<1>4. DialogueInv'
  <2> SUFFICES ASSUME NEW d \in Clients, d # c PROVE Talk(d)'
    BY <1>3 DEF DialogueInv
  <2> QED BY Others DEF TypeOK, DialogueInv, Untouched
<1>5. CountInv'
  BY SameServed
<1>6. ServerOutlivesOrderlyClients'
  BY DEF TypeOK, ServerOutlivesOrderlyClients
<1> QED BY <1>1, <1>2, <1>4, <1>5, <1>6

LEMMA WriteCommandKeeps ==
  ASSUME IInv, NEW c \in Clients, WriteCommand(c)
  PROVE  IInv'
<1> USE DEF IInv, WriteCommand
<1>1. TypeOK'
  <2>1. Message(cmd[c], left[c]) \in Messages
    BY DEF TypeOK, Message, Messages
  <2>2. request[c] \in Seq(Messages) /\ Append(request[c], Message(cmd[c], left[c])) \in Seq(Messages)
    BY <2>1 DEF TypeOK
  <2>3. CASE "server" \in shut[c]
    <3>1. reset[c] \cup {"client"} \in SUBSET Sides
      BY DEF TypeOK, Sides
    <3>2. reset' \in [Clients -> SUBSET Sides]
      BY <2>3, <3>1 DEF TypeOK
    <3> QED BY <2>3, <3>2 DEF TypeOK, Dead
  <2>4. CASE "server" \notin shut[c]
    <3>1. request' \in [Clients -> Seq(Messages)]
      BY <2>2, <2>4 DEF TypeOK
    <3>2. /\ cpc' \in [Clients -> {"connect", "write", "read"} \cup Dead]
          /\ made' \in [Clients -> Nat] /\ reset' = reset
      BY <2>4 DEF TypeOK
    <3> QED BY <3>1, <3>2 DEF TypeOK
  <2> QED BY <2>3, <2>4
<1>2. PlaceInv'
  BY SamePlace DEF TypeOK, PlaceInv, Connected, Gone
<1>3. Talk(c)'
  <2>1. CASE "server" \in shut[c]
    BY <2>1 DEF TypeOK, PlaceInv, Gone, DialogueInv, Talk, Closed
  <2>2. CASE "server" \notin shut[c]
    <3>1. Idle(c)
      BY <2>2 DEF DialogueInv, Talk, Dialogue, InRequest, Taken,
         Unanswered, InAnswer, Lost, PhantomRead, PhantomRan, Asking, Gone
    <3>2. InRequest(c)'
      BY <2>2, <3>1 DEF TypeOK, Idle, InRequest, Quiet, Asking, Last, Command
    <3> QED BY <2>2, <3>2 DEF Talk, Dialogue
  <2> QED BY <2>1, <2>2
<1>4. DialogueInv'
  <2> SUFFICES ASSUME NEW d \in Clients, d # c PROVE Talk(d)'
    BY <1>3 DEF DialogueInv
  <2> QED BY Others DEF TypeOK, DialogueInv, Untouched
<1>5. CountInv'
  BY SameServed
<1>6. ServerOutlivesOrderlyClients'
  BY DEF TypeOK, ServerOutlivesOrderlyClients
<1> QED BY <1>1, <1>2, <1>4, <1>5, <1>6

LEMMA WriteFailsKeeps ==
  ASSUME IInv, NEW c \in Clients, WriteFails(c)
  PROVE  IInv'
<1> USE DEF IInv, WriteFails, net
<1>1. TypeOK'
  BY DEF TypeOK
<1>2. "server" \in shut[c]
  BY DEF PlaceInv
<1>3. PlaceInv'
  BY SamePlace DEF PlaceInv, Connected, Gone
<1>4. Talk(c)'
  BY <1>2 DEF TypeOK, DialogueInv, Talk, Closed
<1>5. DialogueInv'
  <2> SUFFICES ASSUME NEW d \in Clients, d # c PROVE Talk(d)'
    BY <1>4 DEF DialogueInv
  <2> QED BY Others DEF TypeOK, DialogueInv, Untouched
<1>6. CountInv'
  BY SameServed
<1> QED BY <1>1, <1>3, <1>5, <1>6 DEF ServerOutlivesOrderlyClients

LEMMA WriteSigpipeKeeps ==
  ASSUME IInv, NEW c \in Clients, WriteSigpipe(c)
  PROVE  IInv'
<1> USE DEF IInv, WriteSigpipe
<1>1. TypeOK'
  BY DEF TypeOK, Dead, Sides
<1>2. "server" \in shut[c] /\ spc = "dead"
  BY DEF PlaceInv, Gone
<1>3. PlaceInv'
  BY <1>2 DEF TypeOK, PlaceInv, Connected, Gone, Pending
<1>4. Talk(c)'
  BY <1>2 DEF TypeOK, DialogueInv, Talk, Closed
<1>5. DialogueInv'
  <2> SUFFICES ASSUME NEW d \in Clients, d # c PROVE Talk(d)'
    BY <1>4 DEF DialogueInv
  <2> QED BY Others DEF TypeOK, DialogueInv, Untouched
<1>6. CountInv'
  BY SameServed
<1>7. ServerOutlivesOrderlyClients'
  BY DEF TypeOK, ServerOutlivesOrderlyClients
<1> QED BY <1>1, <1>3, <1>5, <1>6, <1>7

LEMMA ReadAnswerKeeps ==
  ASSUME IInv, NEW c \in Clients, ReadAnswer(c)
  PROVE  IInv'
<1> USE DEF IInv, ReadAnswer
<1>1. left[c] > 0
  BY DEF DialogueInv, Talk, Closed, Dialogue, Idle, InRequest, Taken,
     Unanswered, InAnswer, Lost, PhantomRead, PhantomRan, Asking, Gone
<1>2. TypeOK'
  BY <1>1 DEF TypeOK, Dead
<1>3. PlaceInv'
  BY SamePlace DEF TypeOK, PlaceInv, Connected, Gone
<1>4. Talk(c)'
  <2>1. CASE "server" \in shut[c]
    BY <2>1 DEF TypeOK, DialogueInv, Talk, Closed
  <2>2. CASE "server" \notin shut[c]
    <3>1. InAnswer(c)
      BY <2>2 DEF PlaceInv, DialogueInv, Talk, Dialogue, Idle, InRequest, Taken, Unanswered,
         Lost, PhantomRead, PhantomRan, Quiet, Gone
    <3>2. Idle(c)'
      BY <1>1, <2>2, <3>1 DEF TypeOK, Idle, InAnswer, Quiet, Asking, Last, Serves, Ran
    <3> QED BY <2>2, <3>2 DEF Talk, Dialogue
  <2> QED BY <2>1, <2>2
<1>5. DialogueInv'
  <2> SUFFICES ASSUME NEW d \in Clients, d # c PROVE Talk(d)'
    BY <1>4 DEF DialogueInv
  <2> QED BY Others DEF TypeOK, DialogueInv, Untouched
<1>6. CountInv'
  BY SameServed
<1>7. ServerOutlivesOrderlyClients'
  BY DEF TypeOK, ServerOutlivesOrderlyClients
<1> QED BY <1>2, <1>3, <1>5, <1>6, <1>7

(* A socket closed by rpc_terminate, or by the kernel under a client that  *)
(* is killed.                                                              *)
LEMMA CloseSocketKeeps ==
  ASSUME IInv, NEW c \in Clients, NEW there \in {"done", "killed"}, CloseSocket(c, there),
         \/ cpc[c] = "write" /\ (there = "done" => left[c] = 0)
         \/ cpc[c] = "read" /\ there = "killed"
  PROVE  IInv'
<1> USE DEF IInv, CloseSocket
<1>1. TypeOK'
  BY DEF TypeOK, Dead, Sides
<1>2. PlaceInv'
  <2>1. Pending' = Pending
    BY DEF Pending
  <2>2. /\ shut'[c] = shut[c] \cup {"client"} /\ cpc'[c] = there
        /\ \A d \in Clients \ {c} : shut'[d] = shut[d] /\ cpc'[d] = cpc[d]
    BY DEF TypeOK
  <2>3. \A d \in Clients : "client" \in reset'[d] <=> "client" \in reset[d]
    BY DEF TypeOK
  <2> QED BY <2>1, <2>2, <2>3 DEF PlaceInv, Connected, Gone
<1>3. Talk(c)'
  <2>1. CASE "server" \in shut[c]
    BY <2>1 DEF TypeOK, DialogueInv, Talk, Closed
  <2>2. CASE "server" \notin shut[c]
    <3>1. Idle(c) \/ InRequest(c) \/ Taken(c) \/ Unanswered(c) \/ InAnswer(c)
      BY <2>2 DEF DialogueInv, Talk, Dialogue, Lost, PhantomRead, PhantomRan, Gone
    <3>2. CASE Idle(c)
      BY <2>2, <3>2 DEF TypeOK, Talk, Dialogue, Idle, Quiet, Last
    <3>3. CASE InRequest(c)
      BY <2>2, <3>3 DEF TypeOK, Talk, Dialogue, InRequest, Asking, Last, Command
    <3>4. CASE Taken(c)
      BY <2>2, <3>4 DEF TypeOK, Talk, Dialogue, Taken, Asking, Quiet, Last, Command, Serves
    <3>5. CASE Unanswered(c)
      BY <2>2, <3>5 DEF TypeOK, Talk, Dialogue, Unanswered, Asking, Quiet, Ran, Last, Command,
         Serves
    <3>6. CASE InAnswer(c)
      <4>1. Lost(c)'
        BY <3>6 DEF TypeOK, InAnswer, Lost, Asking, Ran, Last, Serves, Command
      <4> QED BY <2>2, <4>1 DEF TypeOK, Talk, Dialogue
    <3> QED BY <3>1, <3>2, <3>3, <3>4, <3>5, <3>6
  <2> QED BY <2>1, <2>2
<1>4. DialogueInv'
  <2> SUFFICES ASSUME NEW d \in Clients, d # c PROVE Talk(d)'
    BY <1>3 DEF DialogueInv
  <2> QED BY Others DEF TypeOK, DialogueInv, Untouched
<1>5. CountInv'
  BY SameServed
<1>6. ServerOutlivesOrderlyClients'
  BY DEF TypeOK, ServerOutlivesOrderlyClients
<1> QED BY <1>1, <1>2, <1>4, <1>5, <1>6

LEMMA ClientKeeps ==
  ASSUME IInv, NEW c \in Clients, client(c) \/ Crash(c)
  PROVE  IInv'
<1>1. CASE rpc_terminate(c) \/ Crash(c)
  BY <1>1, CloseSocketKeeps DEF rpc_terminate, Crash
<1> QED BY <1>1, ConnectKeeps, WriteCommandKeeps, WriteFailsKeeps, WriteSigpipeKeeps,
           ReadAnswerKeeps DEF client

-----------------------------------------------------------------------------
(* The server *)

LEMMA ListenKeeps ==
  ASSUME IInv, Listen
  PROVE  IInv'
<1> USE DEF IInv, Listen, net
<1>1. TypeOK'
  BY DEF TypeOK
<1>2. PlaceInv'
  BY DEF PlaceInv, Pending, Connected, Gone
<1>3. conn \notin Clients
  BY DEF PlaceInv
<1>4. DialogueInv'
  <2> SUFFICES ASSUME NEW d \in Clients PROVE Talk(d)'
    BY DEF DialogueInv
  <2> QED BY <1>3, Others DEF DialogueInv, Untouched
<1>5. CountInv'
  BY SameServed
<1> QED BY <1>1, <1>2, <1>4, <1>5 DEF ServerOutlivesOrderlyClients

LEMMA AcceptKeeps ==
  ASSUME IInv, Accept
  PROVE  IInv'
<1> USE DEF IInv, Accept, net
<1>1. PICK c \in Clients :
         /\ c = Head(backlog) /\ c \in Pending /\ Pending' = Pending \ {c}
         /\ \A j, k \in DOMAIN backlog' : backlog'[j] = backlog'[k] => j = k
  BY PendingTail DEF TypeOK, PlaceInv
<1>2. TypeOK'
  <2>1. backlog' \in Seq(Clients)
    BY DEF TypeOK
  <2> QED BY <1>1, <2>1 DEF TypeOK
<1>3. conn \notin Clients /\ conn' = c
  BY <1>1 DEF PlaceInv
<1>4. PlaceInv'
  BY <1>1, <1>3 DEF PlaceInv, Connected, Gone
<1>5. Talk(c)'
  <2>1. "server" \notin shut[c]
    BY <1>1 DEF PlaceInv
  <2>2. Idle(c) \/ InRequest(c)
    BY <1>1, <1>3, <2>1 DEF DialogueInv, Talk, Dialogue, Taken, Unanswered, InAnswer, Lost,
       PhantomRead, PhantomRan, Serves
  <2>3. Idle(c)' \/ InRequest(c)'
    BY <1>3, <2>2 DEF Idle, InRequest, Quiet, Asking, Last, Command
  <2> QED BY <2>1, <2>3 DEF Talk, Dialogue
<1>6. DialogueInv'
  <2> SUFFICES ASSUME NEW d \in Clients, d # c PROVE Talk(d)'
    BY <1>5 DEF DialogueInv
  <2> QED BY <1>3, Others DEF DialogueInv, Untouched
<1>7. CountInv'
  BY SameServed
<1> QED BY <1>2, <1>4, <1>6, <1>7 DEF ServerOutlivesOrderlyClients

LEMMA ReadMessageKeeps ==
  ASSUME IInv, ReadMessage
  PROVE  IInv'
<1> USE DEF IInv, ReadMessage
<1>1. PICK c \in Clients : c = conn /\ c \notin Pending /\ "server" \notin shut[c]
  BY DEF PlaceInv
<1>2. Idle(c) \/ InRequest(c) \/ InAnswer(c) \/ Lost(c)
  BY <1>1 DEF DialogueInv, Talk, Dialogue, Taken, Unanswered, PhantomRead, PhantomRan, Serves
<1>3. TypeOK'
  <2>1. CASE request[c] # <<>>
    <3>1. request[c] \in Seq(Messages)
      BY DEF TypeOK
    <3>2. Head(request[c]) \in Messages /\ Tail(request[c]) \in Seq(Messages)
      BY <2>1, <3>1
    <3> QED BY <1>1, <2>1, <3>2 DEF TypeOK
  <2>2. CASE request[c] = <<>>
    <3>1. Zeroed \in Messages
      BY DEF Zeroed, Message, Messages, Commands
    <3> QED BY <1>1, <2>2, <3>1 DEF TypeOK
  <2> QED BY <2>1, <2>2
<1>4. PlaceInv'
  <2>1. Pending' = Pending
    BY DEF Pending
  <2> QED BY <2>1 DEF PlaceInv, Connected, Gone
<1>5. Talk(c)'
  <2>1. CASE InRequest(c)
    <3>1. Taken(c)'
      BY <1>1, <2>1 DEF TypeOK, InRequest, Taken, Asking, Quiet, Last, Command, Serves
    <3> QED BY <1>1, <3>1 DEF Talk, Dialogue
  <2>2. CASE Idle(c) \/ InAnswer(c) \/ Lost(c)
    <3>1. request[c] = <<>> /\ "client" \in shut[c] /\ Gone(c)
      BY <1>1, <2>2 DEF PlaceInv, Idle, InAnswer, Lost, Quiet
    <3>2. Quiet(c) /\ Len(served[c]) = made[c] /\ (made[c] > 0 => Last(c) > 0)
      BY <1>1, <2>2, <3>1 DEF TypeOK, Idle, InAnswer, Lost, Ran, Asking, Quiet, Gone
    <3>3. PhantomRead(c)'
      BY <1>1, <3>1, <3>2 DEF PhantomRead, Quiet, Last, Serves, Gone
    <3> QED BY <1>1, <3>3 DEF Talk, Dialogue
  <2> QED BY <1>2, <2>1, <2>2
<1>6. DialogueInv'
  <2> SUFFICES ASSUME NEW d \in Clients, d # c PROVE Talk(d)'
    BY <1>1, <1>5 DEF DialogueInv
  <2> QED BY <1>1, Others DEF TypeOK, DialogueInv, Untouched
<1>7. CountInv'
  BY SameServed
<1> QED BY <1>3, <1>4, <1>6, <1>7 DEF ServerOutlivesOrderlyClients

(* The command just executed continues the countdown. *)
LEMMA ExecuteCounts ==
  ASSUME IInv, Execute, NEW c \in Clients, c = conn, Taken(c) \/ PhantomRead(c)
  PROVE  /\ CountsDown(c)' /\ served'[c] \in Seq(Messages)
         /\ Len(served'[c]) = Len(served[c]) + 1 /\ Last(c)' = msg.cnt
<1> DEFINE n == Len(served[c])
<1>1. /\ served[c] \in Seq(Messages) /\ n \in Nat /\ DOMAIN served[c] = 1 .. n
      /\ msg \in Messages /\ served'[c] = Append(served[c], msg)
      /\ CountsDown(c) /\ cmd' = cmd
  BY DEF IInv, Execute, TypeOK, CountInv
<1>2. /\ DOMAIN served'[c] = 1 .. n + 1 /\ served'[c][n + 1] = msg
      /\ \A j \in 1 .. n : served'[c][j] = served[c][j]
      /\ Len(served'[c]) = n + 1 /\ served'[c] \in Seq(Messages)
  BY <1>1
<1>3. n > 0 => served[c][n].cnt > 0 /\ (msg.cnt > 0 => served[c][n].cnt = msg.cnt + 1)
  <2>1. n > 0 => served[c][n] \in Messages
    BY <1>1
  <2> QED BY <2>1 DEF IInv, TypeOK, Taken, PhantomRead, Asking, Last, Command, Message, Zeroed, Messages
<1>4. msg.cnt > 0 => msg.cmd = cmd[c]
  BY DEF Taken, PhantomRead, Command, Message, Zeroed
<1> HIDE DEF n
<1>5. CountsDown(c)'
  <2> SUFFICES ASSUME NEW j \in 1 .. n + 1
               PROVE  /\ served'[c][j].cnt > 0 =>
                            /\ served'[c][j].cmd = cmd[c]
                            /\ j > 1 => served'[c][j].cnt = served'[c][j - 1].cnt - 1
                      /\ served'[c][j].cnt = 0 => j = n + 1
    BY <1>1, <1>2 DEF CountsDown
  <2>1. CASE j \in 1 .. n
    <3>1. served'[c][j] = served[c][j] /\ (j > 1 => served'[c][j - 1] = served[c][j - 1])
      BY <1>1, <1>2, <2>1
    <3>2. /\ served[c][j].cnt = 0 => j = n
          /\ served[c][j].cnt > 0 => /\ served[c][j].cmd = cmd[c]
                                     /\ j > 1 => served[c][j].cnt = served[c][j - 1].cnt - 1
      BY <1>1, <2>1 DEF CountsDown, n
    <3> QED BY <1>1, <1>3, <2>1, <3>1, <3>2
  <2>2. CASE j = n + 1
    <3>1. j > 1 => served'[c][j - 1] = served[c][n] /\ served[c][n] \in Messages
      BY <1>1, <1>2, <2>2
    <3> QED BY <1>1, <1>2, <1>3, <1>4, <2>2, <3>1 DEF Messages
  <2> QED BY <1>1, <2>1, <2>2
<1> QED BY <1>2, <1>5 DEF Last, n

LEMMA ExecuteKeeps ==
  ASSUME IInv, Execute
  PROVE  IInv'
<1> USE DEF IInv, Execute, net
<1>1. PICK c \in Clients : c = conn /\ c \notin Pending /\ "server" \notin shut[c]
  BY DEF PlaceInv
<1>2. Taken(c) \/ PhantomRead(c)
  BY <1>1 DEF DialogueInv, Talk, Dialogue, Idle, InRequest, Unanswered, InAnswer, Lost,
     PhantomRan, Serves
<1>3. /\ CountsDown(c)' /\ served'[c] \in Seq(Messages)
      /\ Len(served'[c]) = Len(served[c]) + 1 /\ Last(c)' = msg.cnt
  BY <1>1, <1>2, ExecuteCounts
<1>4. served' \in [Clients -> Seq(Messages)] /\ \A d \in Clients \ {c} : served'[d] = served[d]
  BY <1>1, <1>3 DEF TypeOK
<1>5. TypeOK'
  BY <1>4 DEF TypeOK
<1>6. PlaceInv'
  <2>1. Pending' = Pending
    BY DEF Pending
  <2> QED BY <2>1 DEF PlaceInv, Connected, Gone
<1>7. Talk(c)'
  <2>1. CASE Taken(c)
    <3>1. Unanswered(c)'
      BY <1>1, <1>3, <2>1 DEF TypeOK, Taken, Unanswered, Ran, Asking, Quiet, Command, Message, Serves
    <3> QED BY <1>1, <3>1 DEF Talk, Dialogue
  <2>2. CASE PhantomRead(c)
    <3>1. PhantomRan(c)'
      BY <1>1, <1>3, <2>2 DEF TypeOK, PhantomRead, PhantomRan, Quiet, Gone, Serves, Zeroed, Message
    <3> QED BY <1>1, <3>1 DEF Talk, Dialogue
  <2> QED BY <1>2, <2>1, <2>2
<1>8. DialogueInv'
  <2> SUFFICES ASSUME NEW d \in Clients, d # c PROVE Talk(d)'
    BY <1>7 DEF DialogueInv
  <2> QED BY <1>1, <1>4, Others DEF DialogueInv, Untouched
<1>9. CountInv'
  BY <1>3, <1>4 DEF CountInv, CountsDown
<1> QED BY <1>5, <1>6, <1>8, <1>9 DEF ServerOutlivesOrderlyClients

LEMMA WriteAnswerKeeps ==
  ASSUME IInv, WriteAnswer
  PROVE  IInv'
<1> USE DEF IInv, WriteAnswer
<1>1. PICK c \in Clients : c = conn /\ c \notin Pending /\ "server" \notin shut[c]
  BY DEF PlaceInv
<1>2. Unanswered(c) \/ PhantomRan(c)
  BY <1>1 DEF DialogueInv, Talk, Dialogue, Idle, InRequest, Taken, InAnswer, Lost,
     PhantomRead, Serves
<1>3. /\ answer[c] = <<>> /\ reset[c] = {}
      /\ IF Gone(c) THEN answer' = answer /\ reset'[c] \in {{}, {"server"}}
         ELSE answer' = [answer EXCEPT ![c] = <<msg>>] /\ reset' = reset
      /\ \A d \in Clients \ {c} : answer'[d] = answer[d] /\ reset'[d] = reset[d]
  <2>1. answer[c] = <<>> /\ reset[c] = {}
    BY <1>2 DEF Unanswered, PhantomRan, Quiet
  <2>2. Gone(c) <=> "client" \in shut[c]
    BY DEF PlaceInv
  <2> QED BY <1>1, <2>1, <2>2 DEF TypeOK
<1>4. TypeOK'
  <2>1. answer' \in [Clients -> Seq(Messages)]
    <3>1. answer \in [Clients -> Seq(Messages)] /\ <<msg>> \in Seq(Messages)
      BY DEF TypeOK
    <3> QED BY <1>3, <3>1
  <2>2. reset' \in [Clients -> SUBSET Sides]
    <3>1. reset \in [Clients -> SUBSET Sides] /\ reset[c] \cup {"server"} \in SUBSET Sides
      BY DEF TypeOK, Sides
    <3>2. reset' \in {reset, [reset EXCEPT ![c] = reset[c] \cup {"server"}]}
      BY <1>1
    <3> QED BY <3>1, <3>2
  <2> QED BY <2>1, <2>2 DEF TypeOK
<1>5. PlaceInv'
  <2>1. Pending' = Pending
    BY DEF Pending
  <2>2. \A d \in Clients : "client" \in reset'[d] => "client" \in reset[d]
    BY <1>3
  <2> QED BY <2>1, <2>2 DEF PlaceInv, Connected, Gone
<1>6. Talk(c)'
  <2>1. CASE Unanswered(c) /\ cpc[c] = "read"
    <3>1. spc' = "read" /\ answer'[c] = <<Command(c)>> /\ reset'[c] = {}
      BY <1>3, <2>1 DEF TypeOK, Unanswered, Asking, Command, Message, Gone
    <3>2. InAnswer(c)'
      BY <1>1, <2>1, <3>1 DEF Unanswered, InAnswer, Ran, Asking, Quiet, Command, Last, Serves
    <3> QED BY <1>1, <3>2 DEF Talk, Dialogue
  <2>2. CASE Unanswered(c) /\ cpc[c] = "killed"
    <3>1. spc' = "read" /\ answer'[c] = <<>> /\ reset'[c] \subseteq {"server"}
      BY <1>3, <2>2 DEF TypeOK, Unanswered, Asking, Command, Message, Gone
    <3>2. Lost(c)'
      BY <1>1, <2>2, <3>1 DEF Unanswered, Lost, Ran, Asking, Quiet, Last, Serves
    <3> QED BY <1>1, <3>2 DEF Talk, Dialogue
  <2>3. CASE PhantomRan(c)
    <3>1. spc' = "close" /\ answer'[c] = <<>> /\ "client" \notin reset'[c]
      BY <1>3, <2>3 DEF PhantomRan, Zeroed, Message
    <3>2. PhantomRan(c)'
      BY <1>1, <2>3, <3>1 DEF PhantomRan, Gone, Last
    <3> QED BY <1>1, <3>2 DEF Talk, Dialogue
  <2> QED BY <1>2, <2>1, <2>2, <2>3 DEF Unanswered, Asking
<1>7. DialogueInv'
  <2> SUFFICES ASSUME NEW d \in Clients, d # c PROVE Talk(d)'
    BY <1>6 DEF DialogueInv
  <2> QED BY <1>1, <1>3, Others DEF DialogueInv, Untouched
<1>8. CountInv'
  BY SameServed
<1> QED BY <1>4, <1>5, <1>7, <1>8 DEF ServerOutlivesOrderlyClients

LEMMA CloseConnectionKeeps ==
  ASSUME IInv, CloseConnection
  PROVE  IInv'
<1> USE DEF IInv, CloseConnection
<1>1. PICK c \in Clients : c = conn /\ c \notin Pending /\ "server" \notin shut[c]
  BY DEF PlaceInv
<1>2. PhantomRan(c)
  BY <1>1 DEF DialogueInv, Talk, Dialogue, Idle, InRequest, Taken, Unanswered, InAnswer, Lost,
     PhantomRead, Serves
<1>3. TypeOK'
  BY <1>1 DEF TypeOK, Sides
<1>4. None \notin Clients
  BY RpcAssumption
<1>5. /\ shut'[c] = shut[c] \cup {"server"}
      /\ \A d \in Clients \ {c} : shut'[d] = shut[d]
  BY <1>1 DEF TypeOK
<1>6. PlaceInv'
  <2>1. Pending' = Pending
    BY DEF Pending
  <2>2. None \notin Pending
    BY <1>4 DEF Pending, TypeOK
  <2> QED BY <1>1, <1>2, <1>4, <1>5, <2>1, <2>2 DEF PlaceInv, Connected, Gone, PhantomRan
<1>7. Talk(c)'
  BY <1>2, <1>5 DEF PhantomRan, Talk, Closed, Gone
<1>8. DialogueInv'
  <2> SUFFICES ASSUME NEW d \in Clients, d # c PROVE Talk(d)'
    BY <1>7 DEF DialogueInv
  <2> QED BY <1>1, <1>4, <1>5, Others DEF DialogueInv, Untouched
<1>9. CountInv'
  BY SameServed
<1> QED BY <1>3, <1>6, <1>8, <1>9 DEF ServerOutlivesOrderlyClients

LEMMA ThrowKeeps ==
  ASSUME IInv, Throw
  PROVE  IInv'
<1> USE DEF IInv, Throw
<1>1. PICK c \in Clients : c = conn /\ c \notin Pending /\ "server" \notin shut[c]
  BY DEF PlaceInv
<1>2. Lost(c)
  BY <1>1 DEF DialogueInv, Talk, Dialogue, Idle, InRequest, Taken, Unanswered, InAnswer, Quiet,
     PhantomRead, PhantomRan, Serves
<1>3. TypeOK'
  <2>1. \A d \in Clients : /\ shut[d] \in SUBSET Sides /\ shut[d] \cup {"server"} \in SUBSET Sides
                           /\ reset[d] \in SUBSET Sides /\ reset[d] \cup {"client"} \in SUBSET Sides
    BY DEF TypeOK, Sides
  <2>2. shut' \in [Clients -> SUBSET Sides] /\ reset' \in [Clients -> SUBSET Sides]
    BY <2>1
  <2>3. backlog' \in Seq(Clients) /\ conn' = None /\ spc' = "dead"
    OBVIOUS
  <2> QED BY <2>2, <2>3 DEF TypeOK
<1>4. None \notin Clients
  BY RpcAssumption
<1>5. \A d \in Clients :
        /\ "server" \in shut'[d] <=> "server" \in shut[d] \/ d = c \/ d \in Pending
        /\ "client" \in shut'[d] <=> "client" \in shut[d]
        /\ "client" \in reset'[d] <=> "client" \in reset[d] \/ d \in Pending
  BY <1>1 DEF TypeOK, Pending
<1>6. PlaceInv'
  <2>1. Pending' = {}
    BY DEF Pending
  <2> QED BY <1>1, <1>4, <1>5, <2>1 DEF PlaceInv, Connected, Gone
<1> DEFINE Finished(d) == /\ Len(request[d]) + Len(answer[d]) <= 1
                          /\ answer[d] # <<>> => cpc[d] = "killed"
                          /\ cpc[d] = "read" => left[d] > 0
<1>7. ASSUME NEW d \in Clients, Finished(d), d = c \/ d \in Pending PROVE Talk(d)'
  BY <1>5, <1>7 DEF Talk, Closed
<1>8. DialogueInv'
  <2> SUFFICES ASSUME NEW d \in Clients PROVE Talk(d)'
    BY DEF DialogueInv
  <2>1. CASE "server" \in shut[d]
    BY <1>5, <2>1 DEF DialogueInv, Talk, Closed
  <2>2. CASE d = c
    <3>1. Len(request[c]) + Len(answer[c]) <= 1
      BY <1>2, OneInFlight DEF TypeOK, Lost
    <3>2. Finished(c)
      BY <1>2, <3>1 DEF Lost
    <3> QED BY <1>7, <2>2, <3>2
  <2>3. CASE d \in Pending
    <3>1. Idle(d) \/ InRequest(d)
      BY <1>1, <2>3 DEF PlaceInv, DialogueInv, Talk, Dialogue, Taken, Unanswered, InAnswer,
         Lost, PhantomRead, PhantomRan, Serves
    <3>2. answer[d] = <<>> /\ (request[d] = <<>> \/ request[d] = <<Command(d)>>)
      BY <3>1 DEF Idle, InRequest, Quiet
    <3>3. Len(request[d]) + Len(answer[d]) <= 1
      BY <3>2, OneInFlight DEF TypeOK
    <3>4. cpc[d] = "read" => left[d] > 0
      BY <3>1 DEF Idle, InRequest, Asking
    <3>5. Finished(d)
      BY <3>2, <3>3, <3>4
    <3> QED BY <1>7, <2>3, <3>5
  <2>4. CASE "server" \notin shut[d] /\ d # c /\ d \notin Pending
    <3>1. Idle(d)
      BY <1>1, <2>4 DEF PlaceInv, Connected, DialogueInv, Talk, Dialogue, InRequest, Taken,
         Unanswered, InAnswer, Lost, PhantomRead, PhantomRan, Serves, Asking, Gone
    <3>2. reset'[d] = reset[d]
      BY <2>4 DEF Pending
    <3>3. Idle(d)'
      BY <1>1, <1>4, <2>4, <3>1, <3>2 DEF Idle, Quiet, Last
    <3> QED BY <1>5, <2>4, <3>3 DEF Talk, Dialogue
  <2> QED BY <2>1, <2>2, <2>3, <2>4
<1>9. CountInv'
  BY SameServed
<1>10. ServerOutlivesOrderlyClients'
  BY <1>2 DEF Lost, Asking, ServerOutlivesOrderlyClients
<1> QED BY <1>3, <1>6, <1>8, <1>9, <1>10

-----------------------------------------------------------------------------
(* Every step keeps the invariant. *)
LEMMA NextInv == IInv /\ [Next]_vars => IInv'
<1> SUFFICES ASSUME IInv, [Next]_vars PROVE IInv'
  OBVIOUS
<1>1. CASE UNCHANGED vars
  <2> USE <1>1 DEF vars
  <2>1. TypeOK' /\ CountInv' /\ ServerOutlivesOrderlyClients'
    BY SameServed DEF IInv, TypeOK, ServerOutlivesOrderlyClients
  <2>2. PlaceInv'
    BY SamePlace DEF IInv, PlaceInv, Connected, Gone
  <2>3. DialogueInv'
    BY Others DEF IInv, DialogueInv, Untouched
  <2> QED BY <2>1, <2>2, <2>3 DEF IInv
<1>2. CASE server
  BY <1>2, ListenKeeps, AcceptKeeps, ReadMessageKeeps, ExecuteKeeps, WriteAnswerKeeps,
     CloseConnectionKeeps, ThrowKeeps DEF server
<1> QED BY <1>1, <1>2, ClientKeeps DEF Next

LEMMA Invariant == Spec => []IInv
BY InitInv, NextInv, PTL DEF Spec

(* What the countdown and the dialogue say of the commands executed. *)
LEMMA ExecutedIs ==
  ASSUME IInv, NEW c \in Clients
  PROVE  Executed(c) = IF served[c] # <<>> /\ Last(c) = 0 THEN 1 .. Len(served[c]) - 1
                                                        ELSE 1 .. Len(served[c])
<1> DEFINE n == Len(served[c])
<1>1. /\ served[c] \in Seq(Messages) /\ n \in Nat /\ DOMAIN served[c] = 1 .. n
      /\ served[c] = <<>> <=> n = 0
      /\ \A j \in 1 .. n : served[c][j] \in Messages
  BY DEF IInv, TypeOK
<1>2. \A j \in 1 .. n : served[c][j].cnt \in Nat /\ (served[c][j].cnt = 0 => j = n)
  BY <1>1 DEF IInv, CountInv, CountsDown, Messages
<1> QED BY <1>1, <1>2 DEF Executed, Last

(* The commands of a client are executed once, in order, each before the   *)
(* client makes the next one (rpc_command of src/rpc-client.c against the  *)
(* loop of src/rpc-server.c).                                              *)
THEOREM CommandsInTurn == Spec => []Synchronous
<1>1. IInv => Synchronous
  <2> SUFFICES ASSUME IInv, NEW c \in Clients
      PROVE  /\ \A j \in Executed(c) :
                   served[c][j].cmd = cmd[c] /\ (j > 1 => served[c][j].cnt = served[c][j - 1].cnt - 1)
             /\ cpc[c] \in {"write", "done"} /\ "client" \notin reset[c] /\ "server" \notin shut[c] =>
                   Executed(c) = 1 .. made[c]
             /\ Len(request[c]) + Len(answer[c]) <= 1
             /\ answer[c] # <<>> /\ cpc[c] # "killed" => answer[c] = <<Message(cmd[c], left[c])>>
    BY DEF Synchronous
  <2> USE DEF IInv
  <2>1. \A j \in Executed(c) :
          served[c][j].cmd = cmd[c] /\ (j > 1 => served[c][j].cnt = served[c][j - 1].cnt - 1)
    BY DEF Executed, CountInv, CountsDown
  <2>2. ASSUME cpc[c] \in {"write", "done"}, "server" \notin shut[c]
        PROVE  Executed(c) = 1 .. made[c]
    <3>1. Idle(c) \/ PhantomRead(c) \/ PhantomRan(c)
      BY <2>2 DEF PlaceInv, DialogueInv, Talk, Dialogue, InRequest, Taken, Unanswered, InAnswer,
         Lost, Asking
    <3>2. served[c] \in Seq(Messages) /\ made[c] \in Nat /\ left[c] \in Nat
      BY DEF TypeOK
    <3> QED BY <2>2, <3>1, <3>2, ExecutedIs DEF Idle, PhantomRead, PhantomRan
  <2>3. /\ Len(request[c]) + Len(answer[c]) <= 1
        /\ answer[c] # <<>> /\ cpc[c] # "killed" => answer[c] = <<Command(c)>>
    <3>1. CASE "server" \in shut[c]
      BY <3>1 DEF DialogueInv, Talk, Closed
    <3>2. CASE "server" \notin shut[c]
      <4>1. request[c] \in Seq(Messages) /\ answer[c] \in Seq(Messages)
        BY DEF TypeOK
      <4>2. \/ request[c] = <<>> /\ (answer[c] = <<>> \/ Len(answer[c]) <= 1)
            \/ request[c] = <<>> /\ answer[c] = <<Command(c)>>
            \/ answer[c] = <<>> /\ request[c] = <<Command(c)>>
        BY <3>2 DEF DialogueInv, Talk, Dialogue, Idle, InRequest, Taken, Unanswered, InAnswer,
           Lost, PhantomRead, PhantomRan, Quiet
      <4>3. answer[c] # <<>> /\ cpc[c] # "killed" => answer[c] = <<Command(c)>>
        BY <3>2 DEF DialogueInv, Talk, Dialogue, Idle, InRequest, Taken, Unanswered, InAnswer,
           Lost, PhantomRead, PhantomRan, Quiet
      <4>5. Len(request[c]) + Len(answer[c]) <= 1
        BY <4>1, <4>2, OneInFlight
      <4> QED BY <4>3, <4>5
    <3> QED BY <3>1, <3>2
  <2> QED BY <2>1, <2>2, <2>3 DEF Command
<1> QED BY <1>1, Invariant, PTL

(* Each connection ends with one phantom command, the zeroed message that  *)
(* the server reads at the end of the stream and executes, and has no      *)
(* other.                                                                  *)
THEOREM PhantomIsLast == Spec => []OnePhantom
<1>1. IInv => OnePhantom
  <2> SUFFICES ASSUME IInv, NEW c \in Clients
      PROVE  /\ DOMAIN served[c] \ Executed(c) \subseteq {Len(served[c])}
             /\ cpc[c] = "done" /\ "server" \in shut[c] /\ spc # "dead" =>
                   Len(served[c]) = made[c] + 1
    BY DEF OnePhantom
  <2>1. served[c] \in Seq(Messages)
    BY DEF IInv, TypeOK
  <2>2. DOMAIN served[c] \ Executed(c) \subseteq {Len(served[c])}
    BY <2>1, ExecutedIs
  <2> QED BY <2>2 DEF IInv, DialogueInv, Talk, Closed
<1> QED BY <1>1, Invariant, PTL

(* Only a client killed in the middle of a command makes the server throw: *)
(* the reset it takes for an error never comes from an orderly client.     *)
THEOREM OrderlyClientsAreHarmless == Spec => []ServerOutlivesOrderlyClients
BY Invariant, PTL DEF IInv

-----------------------------------------------------------------------------
(* Pipette *)

PipeTypeOK ==
  /\ size \in Nat \ {0} /\ count \in Nat
  /\ pipe \in Seq(Nat) /\ buf \in Seq(Nat)
  /\ state \in [Children -> {"none", "start", "block", "transfer", "done", "failed"}]
  /\ i \in [Children -> Nat] /\ len \in [Children -> Nat]
  /\ main \in {"pipe", "fork1", "fork2", "wait", "exit"}

(* main keeps both ends of the pipe open until no child runs. *)
EndsInv ==
  /\ main \in {"pipe", "fork1"} => \A c \in Children : state[c] = "none"
  /\ main = "fork2" => state["consumer"] = "none"
  /\ main \in {"fork1", "fork2", "wait"} => "main" \in writers /\ "main" \in readers
  /\ main = "exit" => \A c \in Children : state[c] = "none" \/ Over(c)

(* The bytes that c has moved; the bytes between the two are in the pipe,  *)
(* and byte x of block b is the char of b.                                 *)
Moved(c) == size * i[c] + (IF state[c] = "transfer" THEN len[c] ELSE 0)

StreamInv ==
  /\ \A c \in Children : state[c] = "transfer" => len[c] <= size
  /\ Len(pipe) = Moved("producer") - Moved("consumer")
  /\ \A j \in 1 .. Len(pipe), b \in Nat, x \in 0 .. size - 1 :
       Moved("consumer") + j - 1 = size * b + x => pipe[j] = Byte(b)

(* What the consumer has of its block. *)
BufferInv ==
  state["consumer"] = "transfer" =>
    /\ Len(buf) = len["consumer"]
    /\ \A j \in 1 .. Len(buf) : buf[j] = Byte(i["consumer"])

PipeInv == PipeTypeOK /\ EndsInv /\ StreamInv /\ BufferInv

-----------------------------------------------------------------------------
(* A byte has one block. *)
LEMMA OneBlock ==
  ASSUME NEW N \in Nat \ {0}, NEW p \in Nat, NEW q \in Nat,
         NEW r \in 0 .. N - 1, NEW s \in 0 .. N - 1, N * p + r = N * q + s
  PROVE  p = q
<1>1. ASSUME NEW a \in Nat, NEW b \in Nat, a < b PROVE N * b >= N * a + N
  <2>1. PICK d \in Nat : b = a + 1 + d
    <3>1. b - a - 1 \in Nat /\ b = a + 1 + (b - a - 1)
      BY <1>1
    <3> QED BY <3>1
  <2>2. N * b = N * a + N + N * d
    BY <2>1
  <2>3. N * d >= 0
    OBVIOUS
  <2> QED BY <2>2, <2>3
<1>2. ~(p < q)
  BY <1>1
<1>3. ~(q < p)
  BY <1>1
<1> QED BY <1>2, <1>3

(* The first n members of a sequence, and the others. *)
LEMMA Cut ==
  ASSUME NEW s \in Seq(Nat), NEW n \in 0 .. Len(s)
  PROVE  /\ SubSeq(s, 1, n) \in Seq(Nat) /\ Len(SubSeq(s, 1, n)) = n
         /\ \A j \in 1 .. n : SubSeq(s, 1, n)[j] = s[j]
         /\ SubSeq(s, n + 1, Len(s)) \in Seq(Nat) /\ Len(SubSeq(s, n + 1, Len(s))) = Len(s) - n
         /\ \A j \in 1 .. Len(s) - n : SubSeq(s, n + 1, Len(s))[j] = s[n + j]
<1>1. Len(s) \in Nat /\ \A j \in 1 .. Len(s) : s[j] \in Nat
  OBVIOUS
<1>2. /\ SubSeq(s, 1, n) \in Seq(Nat) /\ Len(SubSeq(s, 1, n)) = n
      /\ \A j \in 1 .. n : SubSeq(s, 1, n)[j] = s[j]
  BY <1>1
<1>3. /\ SubSeq(s, n + 1, Len(s)) \in Seq(Nat) /\ Len(SubSeq(s, n + 1, Len(s))) = Len(s) - n
      /\ \A j \in 1 .. Len(s) - n : SubSeq(s, n + 1, Len(s))[j] = s[n + j]
  BY <1>1
<1> QED BY <1>2, <1>3

LEMMA Joined ==
  ASSUME NEW s \in Seq(Nat), NEW t \in Seq(Nat)
  PROVE  /\ s \o t \in Seq(Nat) /\ Len(s \o t) = Len(s) + Len(t)
         /\ \A j \in 1 .. Len(s) : (s \o t)[j] = s[j]
         /\ \A j \in 1 .. Len(t) : (s \o t)[Len(s) + j] = t[j]
         /\ \A j \in 1 .. Len(s) + Len(t) : j \in 1 .. Len(s) \/ j - Len(s) \in 1 .. Len(t)
OBVIOUS

LEMMA Shifted ==
  ASSUME NEW a \in Nat, NEW b \in Nat, NEW w \in Nat, NEW l \in Nat, NEW j \in Int, a + b = w + l
  PROVE  a + j - 1 = w + (l + (j - b) - 1)
OBVIOUS

LEMMA Filled ==
  ASSUME NEW n \in Nat, NEW v \in Nat
  PROVE  /\ [j \in 1 .. n |-> Byte(v)] \in Seq(Nat)
         /\ Len([j \in 1 .. n |-> Byte(v)]) = n
<1>1. Byte(v) \in Nat
  BY DEF Byte
<1> QED BY <1>1

LEMMA MovedIs ==
  ASSUME PipeTypeOK, NEW c \in Children
  PROVE  /\ size * i[c] \in Nat /\ Moved(c) \in Nat
         /\ state[c] = "transfer" => Moved(c) = size * i[c] + len[c]
<1>1. size \in Nat /\ i[c] \in Nat /\ len[c] \in Nat
  BY DEF PipeTypeOK
<1>2. size * i[c] \in Nat
  BY <1>1
<1> QED BY <1>1, <1>2 DEF Moved

(* A transfer that is not over has a chunk left, within the block. *)
LEMMA ChunkFits ==
  ASSUME PipeTypeOK, NEW c \in Children, len[c] < size
  PROVE  chunk(c) \in 1 .. size - len[c]
<1>1. size \in Nat /\ len[c] \in Nat /\ PAGE_SIZE \in Nat \ {0}
  BY PipetteAssumption DEF PipeTypeOK
<1> DEFINE rest == size - len[c]
<1>2. rest \in Nat \ {0}
  BY <1>1
<1> HIDE DEF rest
<1>3. Least(PAGE_SIZE, rest) \in 1 .. rest
  BY <1>1, <1>2 DEF Least
<1> QED BY <1>3 DEF chunk, rest

LEMMA PipeInitInv ==
  ASSUME PipeInit
  PROVE  PipeInv
<1> USE DEF PipeInit, Children
<1>1. PipeTypeOK
  BY PipetteAssumption DEF PipeTypeOK
<1>2. Moved("producer") = 0 /\ Moved("consumer") = 0
  BY <1>1 DEF Moved, PipeTypeOK
<1> QED BY <1>1, <1>2 DEF PipeInv, EndsInv, StreamInv, BufferInv

(* Steps that move no byte. *)
LEMMA PipeMainKeeps ==
  ASSUME PipeInv, Main
  PROVE  PipeInv'
<1> USE DEF PipeInv, Children
<1>1. CASE OpenPipe \/ Wait
  <2>1. UNCHANGED <<size, count, pipe, state, i, len, buf>>
    BY <1>1 DEF OpenPipe, Wait
  <2>2. PipeTypeOK' /\ EndsInv'
    BY <1>1, <2>1 DEF OpenPipe, Wait, PipeTypeOK, EndsInv, Over
  <2>3. StreamInv' /\ BufferInv'
    BY <2>1 DEF StreamInv, BufferInv, Moved
  <2> QED BY <2>2, <2>3
<1>2. ASSUME NEW c \in Children, NEW here, NEW there, Fork(c, here, there),
             <<c, here, there>> \in {<<"producer", "fork1", "fork2">>, <<"consumer", "fork2", "wait">>}
      PROVE  PipeInv'
  <2> USE <1>2 DEF Fork
  <2>1. state[c] = "none" /\ \A d \in Children \ {c} : state'[d] = state[d]
    BY DEF PipeTypeOK, EndsInv
  <2>2. state'[c] \in {"none", "start"}
    BY <2>1 DEF PipeTypeOK
  <2>3. PipeTypeOK'
    BY DEF PipeTypeOK
  <2>4. EndsInv'
    BY <2>1, <2>2 DEF EndsInv
  <2>5. StreamInv' /\ BufferInv'
    BY <2>1, <2>2 DEF StreamInv, BufferInv, Moved
  <2> QED BY <2>3, <2>4, <2>5
<1> QED BY <1>1, <1>2 DEF Main, ForkProducer, ForkConsumer

LEMMA PipeStillKeeps ==
  ASSUME PipeInv, NEW c \in Children, AllocBuffer(c) \/ NextBlock(c)
  PROVE  PipeInv'
<1> USE DEF PipeInv, Children, Goto
<1>1. /\ state[c] \in {"start", "block"} /\ state'[c] \in {"block", "failed", "transfer", "done"}
      /\ state' = [state EXCEPT ![c] = state'[c]]
      /\ state'[c] = "transfer" => len'[c] = 0 /\ (c = "consumer" => buf' = <<>>)
      /\ \A d \in Children \ {c} : len'[d] = len[d] /\ (d = "consumer" => buf' = buf)
      /\ UNCHANGED <<size, count, pipe, i, main>>
      /\ main = "wait" \/ main = "fork2"
      /\ buf' \in {buf, <<>>} /\ len' \in [Children -> Nat]
  BY DEF AllocBuffer, NextBlock, PipeTypeOK, EndsInv, Over
<1>2. PipeTypeOK'
  <2>1. buf' \in Seq(Nat)
    <3>1. buf \in Seq(Nat) /\ <<>> \in Seq(Nat)
      BY DEF PipeTypeOK
    <3> QED BY <1>1, <3>1
  <2>2. state' \in [Children -> {"none", "start", "block", "transfer", "done", "failed"}]
    BY <1>1 DEF PipeTypeOK
  <2> QED BY <1>1, <2>1, <2>2 DEF PipeTypeOK
<1>3. EndsInv'
  <2>1. "main" \in writers' /\ "main" \in readers'
    BY <1>1 DEF AllocBuffer, NextBlock, EndsInv
  <2> QED BY <1>1, <2>1 DEF EndsInv, PipeTypeOK
<1>4. \A d \in Children : Moved(d)' = Moved(d)
  BY <1>1 DEF Moved, PipeTypeOK
<1>5. StreamInv'
  BY <1>1, <1>4 DEF StreamInv, PipeTypeOK
<1>6. BufferInv'
  BY <1>1 DEF BufferInv, PipeTypeOK
<1> QED BY <1>2, <1>3, <1>5, <1>6

(* The end of a block: what was moved of it becomes a whole block. *)
LEMMA PipeEndBlockKeeps ==
  ASSUME PipeInv, NEW c \in Children, EndBlock(c)
  PROVE  PipeInv'
<1> USE DEF PipeInv, Children, Goto, EndBlock
<1>1. PipeTypeOK'
  BY DEF PipeTypeOK
<1>2. EndsInv'
  BY DEF EndsInv, PipeTypeOK, Over
<1>3. \A d \in Children : Moved(d)' = Moved(d)
  <2>1. len[c] = size /\ i'[c] = i[c] + 1 /\ state'[c] = "block"
    BY DEF PipeTypeOK, StreamInv
  <2>2. size * (i[c] + 1) = size * i[c] + size
    BY DEF PipeTypeOK
  <2>3. Moved(c)' = Moved(c)
    BY <2>1, <2>2 DEF Moved, PipeTypeOK
  <2>4. ASSUME NEW d \in Children, d # c PROVE Moved(d)' = Moved(d)
    BY <2>4 DEF Moved, PipeTypeOK
  <2> QED BY <2>3, <2>4
<1>4. StreamInv'
  BY <1>3 DEF StreamInv, PipeTypeOK
<1>5. BufferInv'
  BY DEF BufferInv, PipeTypeOK
<1> QED BY <1>1, <1>2, <1>4, <1>5

(* A write adds bytes of the producer's block at the end of the pipe. *)
LEMMA PipeWriteKeeps ==
  ASSUME PipeInv, Write
  PROVE  PipeInv'
<1> USE DEF PipeInv, Children
<1> DEFINE p == "producer"
           n == chunk(p)
           new == [j \in 1 .. n |-> Byte(i[p])]
<1>1. /\ state[p] = "transfer" /\ len[p] < size
      /\ pipe' = pipe \o new /\ len' = [len EXCEPT ![p] = len[p] + n]
      /\ UNCHANGED <<size, count, writers, readers, state, i, buf, main>>
  BY DEF Write
<1>2. n \in 1 .. size - len[p]
  BY <1>1, ChunkFits
<1>3. i[p] \in Nat /\ len[p] \in Nat /\ size \in Nat \ {0} /\ pipe \in Seq(Nat) /\ Len(pipe) \in Nat
  BY DEF PipeTypeOK
<1> HIDE DEF n
<1>4. new \in Seq(Nat) /\ Len(new) = n /\ \A j \in 1 .. n : new[j] = Byte(i[p])
  <2>1. n \in Nat
    BY <1>2, <1>3
  <2> QED BY <1>3, <2>1, Filled
<1> HIDE DEF new
<1>5. PipeTypeOK'
  BY <1>1, <1>2, <1>3, <1>4, Joined DEF PipeTypeOK
<1>6. EndsInv' /\ BufferInv'
  BY <1>1 DEF EndsInv, BufferInv, PipeTypeOK, Over
<1>7. PICK whole \in Nat : whole = size * i[p]
  BY MovedIs
<1>8. /\ Moved(p) = whole + len[p] /\ Moved(p)' = Moved(p) + n /\ Moved(p) \in Nat
       /\ Moved("consumer")' = Moved("consumer") /\ Moved("consumer") \in Nat
  <2>1. Moved(p) = whole + len[p] /\ Moved(p) \in Nat /\ Moved("consumer") \in Nat
    BY <1>1, <1>7, MovedIs
  <2>2. Moved(p)' = whole + len'[p] /\ len'[p] = len[p] + n
    BY <1>1, <1>7 DEF Moved, PipeTypeOK
  <2>3. Moved("consumer")' = Moved("consumer")
    BY <1>1 DEF Moved, PipeTypeOK
  <2> QED BY <1>2, <1>3, <2>1, <2>2, <2>3
<1>9. Len(pipe') = Moved(p)' - Moved("consumer")'
  <2>1. Len(pipe') = Len(pipe) + n
    BY <1>1, <1>3, <1>4, Joined
  <2>2. Len(pipe) = Moved(p) - Moved("consumer")
    BY DEF StreamInv
  <2> QED BY <1>2, <1>3, <1>8, <2>1, <2>2
<1>10. ASSUME NEW j \in 1 .. Len(pipe'), NEW b \in Nat, NEW x \in 0 .. size - 1,
             Moved("consumer") + j - 1 = size * b + x
      PROVE  pipe'[j] = Byte(b)
  <2>1. CASE j \in 1 .. Len(pipe)
    BY <1>1, <1>3, <1>4, <1>10, <2>1, Joined DEF StreamInv
  <2>2. CASE j - Len(pipe) \in 1 .. n
    <3> DEFINE k == j - Len(pipe)
    <3>1. pipe'[j] = Byte(i[p])
      <4>1. pipe'[Len(pipe) + k] = new[k]
        BY <1>1, <1>3, <1>4, <2>2, Joined
      <4> QED BY <1>3, <1>4, <2>2, <4>1
    <3>2. size * b + x = size * i[p] + (len[p] + k - 1)
      <4>1. Len(pipe) = Moved(p) - Moved("consumer")
        BY DEF StreamInv
      <4>2. Moved("consumer") + Len(pipe) = whole + len[p]
        BY <1>3, <1>8, <4>1
      <4>3. j \in Int
        BY <1>2, <1>8, <1>9, <1>10
      <4>4. Moved("consumer") + j - 1 = whole + (len[p] + k - 1)
        <5>1. Moved("consumer") \in Nat /\ Len(pipe) \in Nat /\ len[p] \in Nat
          BY <1>3, <1>8
        <5> HIDE DEF p
        <5> QED BY <4>2, <4>3, <5>1, Shifted
      <4> QED BY <1>7, <1>10, <4>4
    <3>3. len[p] + k - 1 \in 0 .. size - 1
      <4>1. n \in Int /\ n <= size - len[p] /\ k \in Int /\ 1 <= k /\ k <= n
        BY <1>2, <1>3, <2>2
      <4> HIDE DEF k
      <4> QED BY <1>3, <4>1
    <3>4. b = i[p]
      BY <1>3, <3>2, <3>3, OneBlock
    <3> QED BY <3>1, <3>4
  <2> QED BY <1>1, <1>2, <1>3, <1>4, <1>10, <2>1, <2>2, Joined
<1>11. StreamInv'
  <2>1. ASSUME NEW c \in Children, state'[c] = "transfer" PROVE len'[c] <= size'
    <3>1. CASE c = p
      <4>1. len'[p] = len[p] + n
        BY <1>1 DEF PipeTypeOK
      <4> QED BY <1>1, <1>2, <1>3, <3>1, <4>1
    <3>2. CASE c # p
      BY <1>1, <2>1, <3>2 DEF StreamInv, PipeTypeOK
    <3> QED BY <3>1, <3>2
  <2> QED BY <1>1, <1>8, <1>9, <1>10, <2>1 DEF StreamInv
<1> QED BY <1>5, <1>6, <1>11

(* A read takes bytes of the consumer's block only. *)
LEMMA PipeReadKeeps ==
  ASSUME PipeInv, Read
  PROVE  PipeInv'
<1> USE DEF PipeInv, Children
<1> DEFINE c == "consumer"
<1>0. PICK n \in 1 .. Least(chunk(c), Len(pipe)) :
        /\ state[c] = "transfer" /\ len[c] < size
        /\ buf' = buf \o SubSeq(pipe, 1, n) /\ pipe' = SubSeq(pipe, n + 1, Len(pipe))
        /\ len' = [len EXCEPT ![c] = len[c] + n]
        /\ UNCHANGED <<size, count, writers, readers, state, i, main>>
  BY DEF Read
<1> DEFINE got == SubSeq(pipe, 1, n)
<1>1. /\ state[c] = "transfer" /\ len[c] < size
      /\ buf' = buf \o got /\ pipe' = SubSeq(pipe, n + 1, Len(pipe))
      /\ len' = [len EXCEPT ![c] = len[c] + n]
      /\ UNCHANGED <<size, count, writers, readers, state, i, main>>
  BY <1>0
<1>2. /\ i[c] \in Nat /\ len[c] \in Nat /\ size \in Nat \ {0} /\ pipe \in Seq(Nat)
      /\ Len(pipe) \in Nat /\ buf \in Seq(Nat) /\ Len(buf) = len[c]
  BY <1>1 DEF PipeTypeOK, BufferInv
<1>3. n \in 1 .. size - len[c] /\ n \in 0 .. Len(pipe)
  <2>1. chunk(c) \in 1 .. size - len[c]
    BY <1>1, ChunkFits
  <2> QED BY <1>2, <2>1 DEF Least
<1>4. /\ got \in Seq(Nat) /\ Len(got) = n /\ \A j \in 1 .. n : got[j] = pipe[j]
      /\ pipe' \in Seq(Nat) /\ Len(pipe') = Len(pipe) - n
      /\ \A j \in 1 .. Len(pipe) - n : pipe'[j] = pipe[n + j]
  BY <1>1, <1>2, <1>3, Cut
<1> HIDE DEF got
<1>5. PipeTypeOK'
  <2>1. buf' \in Seq(Nat)
    BY <1>1, <1>2, <1>4, Joined
  <2>2. len' \in [Children -> Nat]
    BY <1>1, <1>2, <1>3 DEF PipeTypeOK
  <2> QED BY <1>1, <1>4, <2>1, <2>2 DEF PipeTypeOK
<1>6. EndsInv'
  BY <1>1 DEF EndsInv, Over
<1>7. PICK whole \in Nat : whole = size * i[c]
  BY MovedIs
<1>8. /\ Moved(c) = whole + len[c] /\ Moved(c)' = Moved(c) + n /\ Moved(c) \in Nat
      /\ Moved("producer")' = Moved("producer") /\ Moved("producer") \in Nat
  <2>1. Moved(c) = whole + len[c] /\ Moved(c) \in Nat /\ Moved("producer") \in Nat
    BY <1>1, <1>7, MovedIs
  <2>2. Moved(c)' = whole + len'[c] /\ len'[c] = len[c] + n
    BY <1>1, <1>7 DEF Moved, PipeTypeOK
  <2>3. Moved("producer")' = Moved("producer")
    BY <1>1 DEF Moved, PipeTypeOK
  <2> QED BY <1>2, <1>3, <2>1, <2>2, <2>3
<1>9. BufferInv'
  <2>1. \A j \in 1 .. n : got[j] = Byte(i[c])
    <3> SUFFICES ASSUME NEW j \in 1 .. n PROVE pipe[j] = Byte(i[c])
      BY <1>4
    <3>1. /\ len[c] + j - 1 \in 0 .. size - 1 /\ j \in 1 .. Len(pipe)
          /\ Moved(c) + j - 1 = size * i[c] + (len[c] + j - 1)
      <4>1. j \in Nat \ {0} /\ j <= n /\ n <= size - len[c] /\ n <= Len(pipe) /\ n \in Nat
        BY <1>2, <1>3
      <4>2. len[c] + j - 1 \in 0 .. size - 1
        BY <1>2, <4>1
      <4>3. j \in 1 .. Len(pipe)
        BY <1>2, <4>1
      <4>4. Moved(c) + j - 1 = whole + (len[c] + j - 1)
        BY <1>2, <1>8, <4>1
      <4> QED BY <1>7, <4>2, <4>3, <4>4
    <3> QED BY <1>2, <3>1 DEF StreamInv
  <2>2. Len(buf') = len'[c]
    <3>1. Len(buf') = Len(buf) + n
      BY <1>1, <1>2, <1>4, Joined
    <3>2. len'[c] = len[c] + n
      BY <1>1 DEF PipeTypeOK
    <3> QED BY <1>2, <3>1, <3>2
  <2>3. ASSUME NEW j \in 1 .. Len(buf') PROVE buf'[j] = Byte(i[c])
    <3>1. /\ \A m \in 1 .. Len(buf) : buf'[m] = buf[m]
          /\ \A m \in 1 .. Len(got) : buf'[Len(buf) + m] = got[m]
      <4>1. buf' = buf \o got /\ buf \in Seq(Nat) /\ got \in Seq(Nat)
        BY <1>1, <1>2, <1>4
      <4> QED BY <4>1, Joined
    <3>2. CASE j \in 1 .. Len(buf)
      <4>1. buf[j] = Byte(i[c])
        BY <1>1, <3>2 DEF BufferInv
      <4> QED BY <3>1, <3>2, <4>1
    <3>3. CASE j - Len(buf) \in 1 .. n
      <4> DEFINE k == j - Len(buf)
      <4>1. buf'[Len(buf) + k] = got[k] /\ Len(buf) + k = j
        <5>1. buf'[Len(buf) + k] = got[k]
          BY <1>4, <3>1, <3>3
        <5>2. Len(buf') = Len(buf) + n
          BY <1>1, <1>2, <1>4, Joined
        <5>3. Len(buf) \in Nat /\ n \in Nat
          BY <1>2, <1>3
        <5>4. j \in Nat
          BY <2>3, <5>2, <5>3
        <5> QED BY <5>1, <5>3, <5>4
      <4> QED BY <2>1, <3>3, <4>1
    <3> QED BY <1>1, <1>2, <1>4, <2>3, <3>2, <3>3, Joined
  <2> QED BY <1>1, <2>2, <2>3 DEF BufferInv
<1>10. StreamInv'
  <2>1. ASSUME NEW d \in Children, state'[d] = "transfer" PROVE len'[d] <= size'
    <3>1. CASE d = c
      <4>1. len'[c] = len[c] + n
        BY <1>1 DEF PipeTypeOK
      <4> QED BY <1>1, <1>2, <1>3, <3>1, <4>1
    <3>2. CASE d # c
      BY <1>1, <2>1, <3>2 DEF StreamInv, PipeTypeOK
    <3> QED BY <3>1, <3>2
  <2>2. Len(pipe') = Moved("producer")' - Moved(c)'
    BY <1>2, <1>3, <1>4, <1>8 DEF StreamInv
  <2>3. ASSUME NEW j \in 1 .. Len(pipe'), NEW b \in Nat, NEW x \in 0 .. size - 1,
               Moved(c)' + j - 1 = size * b + x
        PROVE  pipe'[j] = Byte(b)
    <3>1. n + j \in 1 .. Len(pipe) /\ Moved(c) + (n + j) - 1 = size * b + x
      BY <1>2, <1>3, <1>4, <1>8, <2>3
    <3>2. pipe'[j] = pipe[n + j]
      BY <1>4
    <3> QED BY <3>1, <3>2 DEF StreamInv
  <2> QED BY <1>1, <2>1, <2>2, <2>3 DEF StreamInv
<1> QED BY <1>5, <1>6, <1>9, <1>10

LEMMA PipeNextInv ==
  ASSUME PipeInv, [PipeNext]_pipeVars
  PROVE  PipeInv'
<1>1. CASE UNCHANGED pipeVars
  BY <1>1 DEF pipeVars, PipeInv, PipeTypeOK, EndsInv, StreamInv, BufferInv, Moved, Over,
     Children
<1>2. "producer" \in Children /\ "consumer" \in Children
  BY DEF Children
<1> QED BY <1>1, <1>2, PipeMainKeeps, PipeStillKeeps, PipeEndBlockKeeps, PipeWriteKeeps, PipeReadKeeps
        DEF PipeNext, producer, consumer

(* However the blocks are cut into pages and wherever the pipe was full or *)
(* empty, the consumer's n-th block is the producer's n-th block           *)
(* (do_transfer of src/pipette.c).                                         *)
THEOREM BlocksArriveIntact == PipeSpec => []BlocksIntact
<1>1. PipeInit => PipeInv
  BY PipeInitInv
<1>2. PipeInv /\ [PipeNext]_pipeVars => PipeInv'
  BY PipeNextInv
<1>3. PipeInv => BlocksIntact
  <2> SUFFICES ASSUME PipeInv, state["consumer"] = "transfer", len["consumer"] >= size
               PROVE  buf = Block(i["consumer"])
    BY DEF BlocksIntact
  <2>1. Len(buf) = size /\ buf \in Seq(Nat)
    BY DEF PipeInv, PipeTypeOK, StreamInv, BufferInv, Children
  <2>2. \A j \in 1 .. size : buf[j] = Byte(i["consumer"])
    BY <2>1 DEF PipeInv, BufferInv
  <2>3. buf = [j \in 1 .. size |-> buf[j]]
    BY <2>1
  <2> QED BY <2>2, <2>3 DEF Block
<1> QED BY <1>1, <1>2, <1>3, PTL DEF PipeSpec

(* main of wk-pipette holds both ends of the pipe as long as a child uses  *)
(* it: no read meets the end of the file, no write raises SIGPIPE.         *)
THEOREM PipeStaysOpen == PipeSpec => []NeverEndOfFile
<1>1. PipeInit => PipeInv
  BY PipeInitInv
<1>2. PipeInv /\ [PipeNext]_pipeVars => PipeInv'
  BY PipeNextInv
<1>3. PipeInv => NeverEndOfFile
  BY DEF PipeInv, PipeTypeOK, EndsInv, NeverEndOfFile, Over, Children
<1> QED BY <1>1, <1>2, <1>3, PTL DEF PipeSpec

=============================================================================
