-------------------------------- MODULE Echo --------------------------------
(***************************************************************************)
(* The service of the examples, pongd, which sends back what it receives,  *)
(* with its clients: pong, which writes a message and waits for its        *)
(* return a number of times, and pongspam, which writes several messages   *)
(* at each line of its user.  Every program is a process of its own; each  *)
(* connection is a pair of queues in the kernel.                           *)
(*                                                                         *)
(* pongd and pongspam run the loop of ipc_wait_event.  poll(2) settles     *)
(* which connection is served and how (the first ready one of the array,   *)
(* reading before writing): that is one step.  Serving it is another, in   *)
(* which the queues are what the other processes have made of them.  Their *)
(* lists of messages to send are those of IpcMessages.                     *)
(***************************************************************************)
EXTENDS IpcMessages, SequencesExt

CONSTANTS
  Pong,      \* the pong clients
  Spam,      \* the pongspam clients
  Signalled, \* the clients a signal may end
  Rounds,    \* messages a pong writes
  Burst,     \* messages a pongspam writes for a line (5 in the code)
  MaxLines   \* bound on the lines the user of a pongspam types

Client == Pong \cup Spam

ASSUME ClientAssumption == Pong \cap Spam = {} /\ {"listen", "sock", "stdin"} \cap Client = {}
ASSUME SignalledAssumption == Signalled \subseteq Client
ASSUME RoundsAssumption == Rounds \in Nat \ {0} /\ Burst \in Nat \ {0} /\ MaxLines \in Nat

VARIABLES
  srv,      \* pongd: state, conns, tx, cpt and what poll(2) made it do
  backlog,  \* clients connected and not accepted yet
  pc,       \* where each client is
  conns,    \* connections of the context of each pongspam
  tx,       \* list of messages to send of each pongspam
  asked,    \* number of messages each client made
  up, down, \* data on its way to pongd and to each client
  cliEnd,   \* the end of the client: "up", "gone", or "reset" for pongd
  srvEnd,   \* the end of pongd: "up", "gone", or "reset" for the client
  got       \* history: what came back to each client

net  == <<backlog, up, down, cliEnd, srvEnd>>
vars == <<srv, backlog, pc, conns, tx, asked, up, down, cliEnd, srvEnd, got>>

NoTurn == [i |-> 0, act |-> "none"]
Message(c, n, fd) == [fd |-> fd, from |-> c, n |-> n, kind |-> "text"]

(* A mistake to rule out: the end of a connection is taken for an error.   *)
ReadOutcomeNoEnd(q, e) ==
  CASE Len(q) = 1 -> "message"
    [] Len(q) > 1 -> "parsing"
    [] q = <<>> -> "error"

(* What ipc_read makes of a queue q whose other end is in state e: one     *)
(* recv(2) takes all that is queued, and two messages in one piece do not  *)
(* parse.                                                                  *)
ReadOutcome(q, e) ==
  CASE Len(q) = 1 -> "message"
    [] Len(q) > 1 -> "parsing"
    [] q = <<>> /\ e = "gone" -> "closed"
    [] q = <<>> /\ e # "gone" -> "error"

Readable(q, e) == q # <<>> \/ e # "up"

-----------------------------------------------------------------------------
(* pongd.                                                                  *)

(* What poll(2) reports for the i-th connection of pongd, as the branch of *)
(* ipc_wait_event it leads to.                                             *)
Branch(i) ==
  LET c == srv.conns[i]
  IN  CASE c = "listen" -> IF backlog # <<>> THEN "accept" ELSE "none"
        [] c # "listen" /\ Readable(up[c], cliEnd[c]) -> "read"
        [] c # "listen" /\ ~Readable(up[c], cliEnd[c]) ->
             IF HasMessage(srv.tx, c) THEN "write" ELSE "none"

PollServer ==
  /\ srv.state = "up" /\ srv.turn = NoTurn
  /\ \E i \in 1 .. Len(srv.conns) :
       /\ Branch(i) # "none" /\ \A j \in 1 .. i - 1 : Branch(j) = "none"
       /\ srv' = [srv EXCEPT !.turn = [i |-> i, act |-> Branch(i)]]
  /\ UNCHANGED <<pc, conns, tx, asked, got, net>>

Turn(act) == srv.state = "up" /\ srv.turn.act = act
Talker == srv.conns[srv.turn.i]

(* IPC_EVENT_TYPE_CONNECTION.                                              *)
Accept ==
  /\ Turn("accept")
  /\ srv' = [srv EXCEPT !.conns = Append(@, Head(backlog)),
                        !.cpt = @ + 1, !.turn = NoTurn]
  /\ backlog' = Tail(backlog)
  /\ UNCHANGED <<pc, conns, tx, asked, up, down, cliEnd, srvEnd, got>>

(* A mistake to rule out: the connection is closed but stays in the        *)
(* context.                                                                *)
ForgetKeeps(s, i) ==
  [s EXCEPT !.turn = NoTurn, !.tx = ipc_remove_messages_for_fd(@, s.conns[i])]

(* ipc_close and ipc_del of the connection of index i.                     *)
Forget(s, i) ==
  [s EXCEPT !.conns = SwapRemove(@, i), !.cpt = @ - 1, !.turn = NoTurn,
            !.tx = ipc_remove_messages_for_fd(@, s.conns[i])]

(* Mistakes to rule out: the answer goes to the client accepted last, and  *)
(* the message is answered twice.                                          *)
AnswerLast(s, c, m) ==
  [s EXCEPT !.tx = ipc_messages_add(@, [m EXCEPT !.fd = Last(s.conns)]), !.turn = NoTurn]
AnswerTwice(s, c, m) ==
  [s EXCEPT !.tx = ipc_messages_add(ipc_messages_add(@, [m EXCEPT !.fd = c]),
                                    [m EXCEPT !.fd = c]), !.turn = NoTurn]

(* IPC_EVENT_TYPE_MESSAGE: the message, which carries the descriptor it    *)
(* was read on, is written back.                                           *)
AnswerTo(s, c, m) ==
  [s EXCEPT !.tx = ipc_messages_add(@, [m EXCEPT !.fd = c]), !.turn = NoTurn]

(* Clients with data that pongd has not taken from the kernel.             *)
Unread == {c \in Client : up[c] # <<>>}

(* The process ends.  Clients it has not accepted, and those whose data it *)
(* leaves unread, get an error.                                            *)
EndServer(state, unread) ==
  /\ srv' = [srv EXCEPT !.state = state, !.turn = NoTurn, !.conns = <<>>, !.tx = <<>>]
  /\ srvEnd' = [c \in Client |->
                 CASE srvEnd[c] = "none" -> "none"
                   [] srvEnd[c] # "none" ->
                        IF c \in ToSet(backlog) \cup unread THEN "reset" ELSE "gone"]
  /\ backlog' = <<>>
  /\ up' = [c \in Client |-> <<>>]
  /\ UNCHANGED <<pc, conns, tx, asked, down, cliEnd, got>>

(* handle_new_message, then the switch of main_loop.  After an error the   *)
(* connection is closed and ipc_wait_event returns the error of ipc_read,  *)
(* on which TEST_IPC_WAIT_EVENT_Q ends the program; what did not parse has *)
(* been taken from the kernel.                                             *)
Read ==
  LET c == Talker
      outcome == ReadOutcome(up[c], cliEnd[c])
  IN  /\ Turn("read")
      /\ \/ /\ outcome = "message"
            /\ srv' = AnswerTo(srv, c, up[c][1])
            /\ up' = [up EXCEPT ![c] = <<>>]
            /\ UNCHANGED <<backlog, pc, conns, tx, asked, down, cliEnd, srvEnd, got>>
         \/ /\ outcome = "closed"
            /\ srv' = Forget(srv, srv.turn.i)
            /\ UNCHANGED <<pc, conns, tx, asked, got, net>>
         \/ /\ outcome \in {"parsing", "error"}
            /\ EndServer("failed", Unread \ {c})

(* IPC_EVENT_TYPE_TX: handle_writing_message drops the message, written or *)
(* not.                                                                    *)
WriteServer ==
  LET c == Talker
      k == FirstFor(srv.tx, c)
  IN  /\ Turn("write")
      /\ srv' = [srv EXCEPT !.tx = ipc_messages_del(@, k), !.turn = NoTurn]
      /\ down' = IF cliEnd[c] = "up" THEN [down EXCEPT ![c] = Append(@, srv.tx[k])]
                                     ELSE down
      /\ UNCHANGED <<backlog, pc, conns, tx, asked, up, cliEnd, srvEnd, got>>

(* A signal, at any moment: ipc_close_all, ipc_ctx_free and exit.          *)
exit_program == srv.state = "up" /\ EndServer("stopped", Unread)

-----------------------------------------------------------------------------
(* The clients.                                                            *)

(* ipc_connection succeeds as soon as pongd listens.                       *)
Connect(c, next, array) ==
  /\ pc[c] = "start"
  /\ \/ /\ srv.state = "up"
        /\ pc' = [pc EXCEPT ![c] = next]
        /\ conns' = [conns EXCEPT ![c] = array]
        /\ backlog' = Append(backlog, c)
        /\ cliEnd' = [cliEnd EXCEPT ![c] = "up"]
        /\ srvEnd' = [srvEnd EXCEPT ![c] = "up"]
     \/ /\ srv.state # "up"
        /\ pc' = [pc EXCEPT ![c] = "failed"]
        /\ UNCHANGED <<conns, backlog, cliEnd, srvEnd>>
  /\ UNCHANGED <<srv, tx, asked, up, down, got>>

(* The process ends: pongd gets an error if something is left to read.     *)
EndClient(c, state) ==
  /\ pc' = [pc EXCEPT ![c] = state]
  /\ cliEnd' = [cliEnd EXCEPT ![c] = CASE @ # "up" -> @
                                      [] @ = "up" -> IF down[c] # <<>> THEN "reset" ELSE "gone"]
  /\ down' = [down EXCEPT ![c] = <<>>]
  /\ UNCHANGED <<srv, backlog, conns, tx, asked, up, srvEnd, got>>

(* A signal, at any moment: the clients have no handler for it, and the    *)
(* kernel closes what they had open.                                       *)
Kill(c) ==
  /\ pc[c] \notin {"start", "done", "failed", "killed"}
  /\ EndClient(c, "killed")

(* non_interactive of pong: ipc_write_fd, ipc_read, and so on, then        *)
(* ipc_close_all.  Any error ends the program.                             *)
PongWrite(c) ==
  /\ pc[c] = "write"
  /\ \/ /\ srvEnd[c] = "up"
        /\ up' = [up EXCEPT ![c] = Append(@, Message(c, asked[c] + 1, "sock"))]
        /\ asked' = [asked EXCEPT ![c] = @ + 1]
        /\ pc' = [pc EXCEPT ![c] = "read"]
        /\ UNCHANGED <<srv, backlog, conns, tx, down, cliEnd, srvEnd, got>>
     \/ srvEnd[c] # "up" /\ EndClient(c, "failed")

PongRead(c) ==
  /\ pc[c] = "read" /\ Readable(down[c], srvEnd[c])
  /\ LET outcome == ReadOutcome(down[c], srvEnd[c])
     IN  \/ /\ outcome = "message"
            /\ got' = [got EXCEPT ![c] = @ \o down[c]]
            /\ down' = [down EXCEPT ![c] = <<>>]
            /\ pc' = [pc EXCEPT ![c] = IF asked[c] < Rounds THEN "write" ELSE "close"]
            /\ UNCHANGED <<srv, backlog, conns, tx, asked, up, cliEnd, srvEnd>>
         \/ outcome # "message" /\ EndClient(c, "failed")

PongClose(c) == pc[c] = "close" /\ EndClient(c, "done")

(* interactive of pongspam.  The connection to pongd, as long as it is     *)
(* there, is before the standard input in the array.                       *)
Linked(c) == "sock" \in ToSet(conns[c])
SockIn(c) == Linked(c) /\ Readable(down[c], srvEnd[c])
SockOut(c) == Linked(c) /\ HasMessage(tx[c], "sock")

PollSpam(c) ==
  /\ pc[c] = "wait"
  /\ \/ SockIn(c) /\ pc' = [pc EXCEPT ![c] = "in"]
     \/ ~SockIn(c) /\ SockOut(c) /\ pc' = [pc EXCEPT ![c] = "out"]
     \/ /\ ~SockIn(c) /\ ~SockOut(c) /\ HasMessage(tx[c], "stdin")
        /\ pc' = [pc EXCEPT ![c] = "outstdin"]
  /\ UNCHANGED <<srv, conns, tx, asked, got, net>>

(* The standard input is ready: the user has typed a line or "quit", or    *)
(* closed the input.                                                       *)
PollStdin(c) ==
  /\ pc[c] = "wait" /\ ~SockIn(c) /\ ~SockOut(c)
  /\ \E what \in {"quit"} \cup (IF asked[c] < Burst * MaxLines THEN {"line"} ELSE {}) :
       pc' = [pc EXCEPT ![c] = what]
  /\ UNCHANGED <<srv, conns, tx, asked, got, net>>

(* IPC_EVENT_TYPE_MESSAGE or IPC_EVENT_TYPE_DISCONNECTION; after an error  *)
(* TEST_IPC_WAIT_EVENT_Q ends the program.  When pongd is gone the program *)
(* goes on without its connection.                                         *)
SpamIn(c) ==
  LET outcome == ReadOutcome(down[c], srvEnd[c])
  IN  /\ pc[c] = "in"
      /\ \/ /\ outcome = "message"
            /\ got' = [got EXCEPT ![c] = @ \o down[c]]
            /\ down' = [down EXCEPT ![c] = <<>>]
            /\ pc' = [pc EXCEPT ![c] = "wait"]
            /\ UNCHANGED <<srv, backlog, conns, tx, asked, up, cliEnd, srvEnd>>
         \/ /\ outcome = "closed"
            /\ conns' = [conns EXCEPT ![c] = SwapRemove(@, 1)]
            /\ tx' = [tx EXCEPT ![c] = ipc_remove_messages_for_fd(@, "sock")]
            /\ cliEnd' = [cliEnd EXCEPT ![c] = "gone"]
            /\ pc' = [pc EXCEPT ![c] = "wait"]
            /\ UNCHANGED <<srv, backlog, asked, up, down, srvEnd, got>>
         \/ outcome \in {"parsing", "error"} /\ EndClient(c, "failed")

(* A mistake to rule out: the first message of the list is written, but    *)
(* the last one is removed.                                                *)
SpamOutWrong(c) ==
  /\ pc[c] = "out"
  /\ tx' = [tx EXCEPT ![c] = ipc_messages_del(@, Len(@))]
  /\ up' = IF srvEnd[c] = "up"
           THEN [up EXCEPT ![c] = Append(@, tx[c][FirstFor(tx[c], "sock")])] ELSE up
  /\ pc' = [pc EXCEPT ![c] = "wait"]
  /\ UNCHANGED <<srv, backlog, conns, asked, down, cliEnd, srvEnd, got>>

(* handle_writing_message of pongspam.                                     *)
SpamOut(c) ==
  LET k == FirstFor(tx[c], "sock")
  IN  /\ pc[c] = "out"
      /\ tx' = [tx EXCEPT ![c] = ipc_messages_del(@, k)]
      /\ up' = IF srvEnd[c] = "up" THEN [up EXCEPT ![c] = Append(@, tx[c][k])] ELSE up
      /\ pc' = [pc EXCEPT ![c] = "wait"]
      /\ UNCHANGED <<srv, backlog, conns, asked, down, cliEnd, srvEnd, got>>

(* A message for the standard input, which is not a socket: it is dropped. *)
SpamOutStdin(c) ==
  /\ pc[c] = "outstdin"
  /\ tx' = [tx EXCEPT ![c] = ipc_messages_del(@, FirstFor(@, "stdin"))]
  /\ pc' = [pc EXCEPT ![c] = "wait"]
  /\ UNCHANGED <<srv, conns, asked, got, net>>

(* IPC_EVENT_TYPE_EXTRA_SOCKET: a line of the user.  The messages are for  *)
(* the first descriptor of the array, whichever it is; ipc_messages_add    *)
(* appends a copy of each.                                                 *)
SpamLine(c) ==
  LET made == [k \in 1 .. Burst |-> Message(c, asked[c] + k, conns[c][1])]
      copied == [k \in 1 .. Burst |-> [made[k] EXCEPT !.kind = strncpy(@)]]
  IN  /\ pc[c] = "line"
      /\ tx' = [tx EXCEPT ![c] = @ \o copied]
      /\ asked' = [asked EXCEPT ![c] = @ + Burst]
      /\ pc' = [pc EXCEPT ![c] = "wait"]
      /\ UNCHANGED <<srv, conns, got, net>>

(* The line "quit", or the end of the input: ipc_close_all and exit.       *)
SpamQuit(c) == pc[c] = "quit" /\ EndClient(c, "done")

-----------------------------------------------------------------------------

Init ==
  /\ srv = [state |-> "up", conns |-> <<"listen">>, tx |-> <<>>, cpt |-> 0, turn |-> NoTurn]
  /\ backlog = <<>>
  /\ pc = [c \in Client |-> "start"]
  /\ conns = [c \in Client |-> <<>>]
  /\ tx = [c \in Client |-> <<>>]
  /\ asked = [c \in Client |-> 0]
  /\ up = [c \in Client |-> <<>>] /\ down = [c \in Client |-> <<>>]
  /\ cliEnd = [c \in Client |-> "none"] /\ srvEnd = [c \in Client |-> "none"]
  /\ got = [c \in Client |-> <<>>]

main_loop == PollServer \/ Accept \/ Read \/ WriteServer

PongLoop(c) == PongWrite(c) \/ PongRead(c) \/ PongClose(c)

(* The steps of a pongspam that need nothing more of its user.             *)
SpamLoop(c) ==
  \/ PollSpam(c) \/ SpamIn(c) \/ SpamOut(c) \/ SpamOutStdin(c)
  \/ SpamLine(c) \/ SpamQuit(c)

Next ==
  \/ main_loop \/ exit_program
  \/ \E c \in Signalled : Kill(c)
  \/ \E c \in Pong : Connect(c, "write", <<"sock">>) \/ PongLoop(c)
  \/ \E c \in Spam :
       Connect(c, "wait", <<"sock", "stdin">>) \/ PollStdin(c) \/ SpamLoop(c)

(* Every program keeps running; nobody has to start a client, to type a    *)
(* line or to send a signal.                                               *)
Spec ==
  /\ Init /\ [][Next]_vars
  /\ WF_vars(main_loop)
  /\ \A c \in Pong : WF_vars(PongLoop(c))
  /\ \A c \in Spam : WF_vars(SpamLoop(c))

-----------------------------------------------------------------------------
(* Properties.                                                             *)

(* The lists a message of c goes through, from the list of messages to     *)
(* send of c to its return, and the places of these lists: that of pongd   *)
(* also holds the messages of the other clients.                           *)
Trail(c) == [out |-> tx[c], up |-> up[c], pongd |-> srv.tx, down |-> down[c], got |-> got[c]]
Places(c) ==
  {p \in UNION {{l} \X DOMAIN Trail(c)[l] : l \in DOMAIN Trail(c)} :
     p[1] = "pongd" => srv.tx[p[2]].fd = c}

(* pongd "sends back everything": while both ends of a connection are up,  *)
(* every message a client made is in exactly one place between its list    *)
(* and its return, and nothing of another client is among them.            *)
EchoConserved ==
  \A c \in Client : srv.state = "up" /\ cliEnd[c] = "up" =>
    LET at(p) == Trail(c)[p[1]][p[2]]
    IN  /\ \A p \in Places(c) : at(p).from = c /\ at(p).n \in 1 .. asked[c]
        /\ \A n \in 1 .. asked[c] : \E p \in Places(c) : at(p).n = n
        /\ \A p, q \in Places(c) : at(p).n = at(q).n => p = q

(* A pong, which has one message on its way at most, fails only when pongd *)
(* is gone, whatever the other clients do.                                 *)
PongServed == \A c \in Pong : pc[c] = "failed" => srv.state # "up"

(* When pongd ends by itself, the connection it was serving is the cause:  *)
(* a pongspam wrote again before pongd had read its last message, or a     *)
(* client left with an answer unread.  Of a pong only a signal can make    *)
(* that: one that runs to its end, or fails, never takes pongd with it.    *)
FailureCause ==
  [][srv.state = "up" /\ srv'.state = "failed" =>
       LET c == Talker
       IN  \/ c \in Spam /\ Len(up[c]) > 1
           \/ /\ cliEnd[c] = "reset"
              /\ pc[c] \in {"killed"} \cup IF c \in Pong THEN {} ELSE {"done", "failed"}]_vars

(* Again and again everything a client has made so far is back, unless one *)
(* of the programs has ended.                                              *)
EchoesReturn ==
  \A c \in Client :
    []<>(\/ \A n \in 1 .. asked[c] : \E k \in 1 .. Len(got[c]) : got[c][k].n = n
         \/ pc[c] \in {"done", "failed", "killed"} \/ srv.state # "up")

(* pongd forgets a client that left.                                       *)
ClientsForgotten ==
  \A c \in Client :
    (cliEnd[c] \in {"gone", "reset"}) ~>
      (c \notin ToSet(srv.conns) \cup ToSet(backlog))

=============================================================================
