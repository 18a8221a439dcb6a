-------------------------------- MODULE Rpc ---------------------------------
(***************************************************************************)
(* wk-rpc-client and wk-rpc-server (src/rpc-client.c, src/rpc-server.c).   *)
(* The server accepts one connection at a time and answers its commands    *)
(* until one has cnt = 0.  A client opens a connection, makes `repeat`     *)
(* commands with cnt = repeat, ..., 1, waits for each answer, and closes.  *)
(* No client ever sends cnt = 0: the server leaves its loop on the zeroed  *)
(* message of a read at the end of the stream, which it also answers.      *)
(*                                                                         *)
(* TCP is modelled from how the two programs use it: a message arrives     *)
(* whole and in order; a close is an end of stream for the peer; data for  *)
(* a socket that is closed is answered by a reset, as is a close with      *)
(* unread data; after a reset reads and writes fail, and a write may raise *)
(* SIGPIPE instead.                                                        *)
(***************************************************************************)
EXTENDS Integers, Sequences, FiniteSets

CONSTANTS
  Clients,
  Asked,             \* the values of --command that are used
  MAX_REPEAT,        \* bound on the --repeat option
  CRASHES            \* how many clients may be killed

Commands == {"hog", "sleep", "ping"}    \* enum commands

None == "none"                          \* no connection is accepted

ASSUME RpcAssumption ==
  Asked \subseteq Commands /\ MAX_REPEAT \in Nat /\ CRASHES \in Nat /\ None \notin Clients

Message(cmd, cnt) == [cmd |-> cmd, cnt |-> cnt]
Zeroed == Message("hog", 0)             \* RPC_HOG is 0

VARIABLES
  cpc, cmd, left,    \* each client: its statement, its --command, repeat - i
  request, answer,   \* the messages in flight each way
  shut,              \* which sides have closed their end
  reset,             \* which sides have received a reset
  backlog,           \* connections not accepted yet
  spc, conn, msg,    \* the server: its statement, connection and message
  made, served       \* history: commands written, and executed, per client

net  == <<request, answer, shut, reset>>
vars == <<cpc, cmd, left, request, answer, shut, reset, backlog, spc, conn, msg, made, served>>

Dead == {"done", "failed", "killed"}

Init ==
  /\ cpc = [c \in Clients |-> "connect"]
  /\ cmd \in [Clients -> Asked]
  /\ left \in [Clients -> 0 .. MAX_REPEAT]
  /\ request = [c \in Clients |-> <<>>]
  /\ answer = [c \in Clients |-> <<>>]
  /\ shut = [c \in Clients |-> {}]
  /\ reset = [c \in Clients |-> {}]
  /\ backlog = <<>>
  /\ spc = "start" /\ conn = None /\ msg = Zeroed
  /\ made = [c \in Clients |-> 0]
  /\ served = [c \in Clients |-> <<>>]

-----------------------------------------------------------------------------
(* The client *)

ServerListens == spc \notin {"start", "failed", "dead"}

rpc_connect(c) ==
  /\ cpc[c] = "connect"
  /\ cpc' = [cpc EXCEPT ![c] = IF ServerListens THEN "write" ELSE "failed"]
  /\ backlog' = IF ServerListens THEN Append(backlog, c) ELSE backlog
  /\ UNCHANGED <<cmd, left, net, spc, conn, msg, made, served>>

(* rpc_command, the write; a server that has closed answers with a reset.  *)
WriteCommand(c) ==
  /\ cpc[c] = "write" /\ left[c] > 0
  /\ "client" \notin reset[c]
  /\ IF "server" \in shut[c]
     THEN reset' = [reset EXCEPT ![c] = @ \cup {"client"}] /\ UNCHANGED request
     ELSE request' = [request EXCEPT ![c] = Append(@, Message(cmd[c], left[c]))] /\ UNCHANGED reset
  /\ cpc' = [cpc EXCEPT ![c] = "read"]
  /\ made' = [made EXCEPT ![c] = @ + 1]
  /\ UNCHANGED <<cmd, left, answer, shut, backlog, spc, conn, msg, served>>

(* Once the connection is reset the write fails, and rpc_experiment goes   *)
(* on with the next command, or it raises SIGPIPE.                         *)
WriteFails(c) ==
  /\ cpc[c] = "write" /\ left[c] > 0
  /\ "client" \in reset[c]
  /\ left' = [left EXCEPT ![c] = @ - 1]
  /\ UNCHANGED <<cpc, cmd, net, backlog, spc, conn, msg, made, served>>

WriteSigpipe(c) ==
  /\ cpc[c] = "write" /\ left[c] > 0
  /\ "client" \in reset[c]
  /\ cpc' = [cpc EXCEPT ![c] = "killed"]
  /\ shut' = [shut EXCEPT ![c] = @ \cup {"client"}]
  /\ UNCHANGED <<cmd, left, request, answer, reset, backlog, spc, conn, msg, made, served>>

(* rpc_command, the poll loop and the read; rpc_experiment ignores what    *)
(* it returns and goes on with the next command.                           *)
(* Mutants: the client does not wait for the answer; only an answer ends   *)
(* the read.                                                               *)
ReadAnswerSkipped(c) ==
  /\ cpc[c] = "read"
  /\ left' = [left EXCEPT ![c] = @ - 1]
  /\ cpc' = [cpc EXCEPT ![c] = "write"]
  /\ UNCHANGED <<cmd, request, answer, shut, reset, backlog, spc, conn, msg, made, served>>

ReadAnswerDeaf(c) ==
  /\ cpc[c] = "read" /\ answer[c] # <<>>
  /\ answer' = [answer EXCEPT ![c] = Tail(@)]
  /\ left' = [left EXCEPT ![c] = @ - 1]
  /\ cpc' = [cpc EXCEPT ![c] = "write"]
  /\ UNCHANGED <<cmd, request, shut, reset, backlog, spc, conn, msg, made, served>>

ReadAnswer(c) ==
  /\ cpc[c] = "read"
  /\ answer[c] # <<>> \/ "server" \in shut[c] \/ "client" \in reset[c]
  /\ answer' = [answer EXCEPT ![c] = IF @ = <<>> THEN @ ELSE Tail(@)]
  /\ left' = [left EXCEPT ![c] = @ - 1]
  /\ cpc' = [cpc EXCEPT ![c] = "write"]
  /\ UNCHANGED <<cmd, request, shut, reset, backlog, spc, conn, msg, made, served>>

(* Closing the socket of client c, by rpc_terminate or by the kernel. *)
CloseSocket(c, there) ==
  /\ cpc' = [cpc EXCEPT ![c] = there]
  /\ shut' = [shut EXCEPT ![c] = @ \cup {"client"}]
  /\ reset' = IF answer[c] # <<>> THEN [reset EXCEPT ![c] = @ \cup {"server"}] ELSE reset
  /\ UNCHANGED <<cmd, left, request, answer, backlog, spc, conn, msg, made, served>>

rpc_terminate(c) == cpc[c] = "write" /\ left[c] = 0 /\ CloseSocket(c, "done")

Crash(c) ==
  /\ cpc[c] \in {"write", "read"}
  /\ Cardinality({d \in Clients : cpc[d] = "killed"}) < CRASHES
  /\ CloseSocket(c, "killed")

client(c) ==
  \/ rpc_connect(c) \/ WriteCommand(c) \/ WriteFails(c) \/ WriteSigpipe(c)
  \/ ReadAnswer(c) \/ rpc_terminate(c)

-----------------------------------------------------------------------------
(* The server *)

(* Calibration, bind and listen; the server exits if it has no socket, no  *)
(* host of the given name or cannot bind to it.                            *)
Listen ==
  /\ spc = "start"
  /\ spc' \in {"accept", "failed"}
  /\ UNCHANGED <<cpc, cmd, left, net, backlog, conn, msg, made, served>>

Accept ==
  /\ spc = "accept" /\ backlog # <<>>
  /\ conn' = Head(backlog) /\ backlog' = Tail(backlog)
  /\ spc' = "read"
  /\ UNCHANGED <<cpc, cmd, left, net, msg, made, served>>

(* memset and read: a message, or nothing at the end of the stream. *)
ReadMessage ==
  /\ spc = "read" /\ "server" \notin reset[conn]
  /\ \/ /\ request[conn] # <<>>
        /\ msg' = Head(request[conn])
        /\ request' = [request EXCEPT ![conn] = Tail(@)]
     \/ /\ request[conn] = <<>> /\ "client" \in shut[conn]
        /\ msg' = Zeroed
        /\ UNCHANGED request
  /\ spc' = "execute"
  /\ UNCHANGED <<cpc, cmd, left, answer, shut, reset, backlog, conn, made, served>>

Execute ==
  /\ spc = "execute"
  /\ served' = [served EXCEPT ![conn] = Append(@, msg)]
  /\ spc' = "write"
  /\ UNCHANGED <<cpc, cmd, left, net, backlog, conn, msg, made>>

(* The write succeeds even when the client has closed, and is then         *)
(* answered by a reset, which may come before the next call or too late.   *)
(* Mutants: the loop goes on while cnt >= 0, also after the end of the     *)
(* stream; it ends after the command with cnt = 1.                         *)
WriteAnswerForever ==
  /\ spc = "write" /\ "server" \notin reset[conn]
  /\ IF "client" \in shut[conn]
     THEN reset' = [reset EXCEPT ![conn] = @ \cup {"server"}] /\ UNCHANGED answer
     ELSE answer' = [answer EXCEPT ![conn] = Append(@, msg)] /\ UNCHANGED reset
  /\ spc' = "read"
  /\ UNCHANGED <<cpc, cmd, left, request, shut, backlog, conn, msg, made, served>>

WriteAnswerLastIsOne ==
  /\ spc = "write" /\ "server" \notin reset[conn]
  /\ IF "client" \in shut[conn]
     THEN reset' = [reset EXCEPT ![conn] = @ \cup {"server"}] /\ UNCHANGED answer
     ELSE answer' = [answer EXCEPT ![conn] = Append(@, msg)] /\ UNCHANGED reset
  /\ spc' = IF msg.cnt > 1 THEN "read" ELSE "close"
  /\ UNCHANGED <<cpc, cmd, left, request, shut, backlog, conn, msg, made, served>>

WriteAnswer ==
  /\ spc = "write" /\ "server" \notin reset[conn]
  /\ IF "client" \in shut[conn]
     THEN reset' \in {reset, [reset EXCEPT ![conn] = @ \cup {"server"}]} /\ UNCHANGED answer
     ELSE answer' = [answer EXCEPT ![conn] = Append(@, msg)] /\ UNCHANGED reset
  /\ spc' = IF msg.cnt > 0 THEN "read" ELSE "close"
  /\ UNCHANGED <<cpc, cmd, left, request, shut, backlog, conn, msg, made, served>>

CloseConnection ==
  /\ spc = "close"
  /\ shut' = [shut EXCEPT ![conn] = @ \cup {"server"}]
  /\ conn' = None
  /\ spc' = "accept"
  /\ UNCHANGED <<cpc, cmd, left, request, answer, reset, backlog, msg, made, served>>

(* throw, or SIGPIPE: the server exits and the kernel closes its sockets;  *)
(* those with unread requests, and those in the backlog, are reset.        *)
Throw ==
  /\ spc \in {"read", "write"} /\ "server" \in reset[conn]
  /\ spc' = "dead" /\ conn' = None /\ backlog' = <<>>
  /\ LET pending == {backlog[j] : j \in DOMAIN backlog} IN
     /\ shut' = [c \in Clients |-> IF c = conn \/ c \in pending THEN shut[c] \cup {"server"}
                                   ELSE shut[c]]
     /\ reset' = [c \in Clients |-> IF c \in pending THEN reset[c] \cup {"client"} ELSE reset[c]]
  /\ UNCHANGED <<cpc, cmd, left, request, answer, msg, made, served>>

server ==
  Listen \/ Accept \/ ReadMessage \/ Execute \/ WriteAnswer \/ CloseConnection \/ Throw

AllOver == /\ \A c \in Clients : cpc[c] \in Dead
           /\ spc \in {"failed", "dead"} \/ (spc = "accept" /\ backlog = <<>>)

Next ==
  \/ \E c \in Clients : client(c) \/ Crash(c)
  \/ server
  \/ AllOver /\ UNCHANGED vars

Spec == Init /\ [][Next]_vars

(* Both programs are scheduled; nothing forces a client to crash. *)
Fairness == WF_vars(server) /\ \A c \in Clients : WF_vars(client(c))

FairSpec == Spec /\ Fairness

-----------------------------------------------------------------------------
(* Which of the commands the server executes for a client the client       *)
(* really asked for.                                                       *)
Executed(c) == {j \in DOMAIN served[c] : served[c][j].cnt > 0}

(* Each command is executed exactly once and in the order in which the     *)
(* client makes them, and before the client goes on to the next one; a     *)
(* connection never has more than one message in flight, and the answer a  *)
(* client reads is the one to its own command.                             *)
Synchronous ==
  \A c \in Clients :
    /\ \A j \in Executed(c) :
          served[c][j].cmd = cmd[c] /\ (j > 1 => served[c][j].cnt = served[c][j - 1].cnt - 1)
    /\ cpc[c] \in {"write", "done"} /\ "client" \notin reset[c] /\ "server" \notin shut[c] =>
          Executed(c) = 1 .. made[c]
    /\ Len(request[c]) + Len(answer[c]) <= 1
    /\ answer[c] # <<>> /\ cpc[c] # "killed" => answer[c] = <<Message(cmd[c], left[c])>>

(* The server executes one command more per connection than were asked     *)
(* for: the zeroed message at the end of the stream, a hog of length 0,    *)
(* which is the last one and whose answer no client ever reads.            *)
OnePhantom ==
  \A c \in Clients :
    /\ DOMAIN served[c] \ Executed(c) \subseteq {Len(served[c])}
    /\ cpc[c] = "done" /\ "server" \in shut[c] /\ spc # "dead" =>
          Len(served[c]) = made[c] + 1

(* Only a client that is killed in the middle of a command can bring a     *)
(* server that listens down: orderly clients never do, however they are interleaved.    *)
ServerOutlivesOrderlyClients ==
  spc = "dead" => \E c \in Clients : cpc[c] = "killed" /\ made[c] > 0

(* Every client ends, also when the server has been brought down under it. *)
ClientsEnd == \A c \in Clients : <>(cpc[c] \in Dead)

=============================================================================
