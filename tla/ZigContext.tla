----------------------------- MODULE ZigContext -----------------------------
(***************************************************************************)
(* The context of the Zig implementation (context.zig, switch.zig) and its *)
(* function wait_event.  The arrays connections and pollfd, which have the *)
(* same indexes, are one sequence here; out stands for POLLOUT in the      *)
(* field events, which stays from one call of poll(2) to the next.         *)
(*                                                                         *)
(* As in IpcContext, poll(2) is one step and serving the first ready       *)
(* connection another; poll(2) settles which one it is.  All descriptors   *)
(* are sockets: POLLHUP comes with POLLIN, and the branches of wait_event  *)
(* for POLLHUP or POLLNVAL alone are not reached.                          *)
(***************************************************************************)
EXTENDS IpcMessages, Kernel, Functions

CONSTANTS
  Fd,       \* descriptor numbers (the open file limit of the process)
  NoFd,     \* no descriptor
  Payload,  \* kinds of messages: well-formed, without a payload ("empty"),
            \* or with a header that announces more than was received ("bad")
  MaxFiles, \* bound on the number of files opened
  MaxMsgs   \* bound on the number of messages of the peers

ASSUME FdAssumption == Fd \subseteq Nat /\ NoFd \notin Fd
ASSUME PayloadAssumption == Payload \subseteq {"text", "empty", "bad"}
ASSUME BoundAssumption == MaxFiles \in Nat /\ MaxMsgs \in Nat

VARIABLES
  ctx,    \* Context: conns, tx and switchdb
  at,     \* where the program is, with the index and descriptor it is about
  event,  \* Event: t, index, origin and the message
  files,  \* the descriptor table of the process
  nfiles, \* files opened so far
  nmsgs,  \* messages made so far
  sent    \* history: scheduled messages written, and the file written to

Nothing == [id |-> 0, kind |-> "text"]

Registered(c, f) == \E i \in 1 .. Len(c.conns) : c.conns[i].fd = f
fd_to_index(c, f) == CHOOSE i \in 1 .. Len(c.conns) : c.conns[i].fd = f

-----------------------------------------------------------------------------
(* Operations on a context c and on the descriptor table t.                *)

add_(c, f, type) ==
  [c EXCEPT !.conns = Append(@, [fd |-> f, t |-> type, out |-> FALSE])]

schedule(c, m) == [c EXCEPT !.tx = Append(@, m)]

(* A mistake to rule out: the messages of the connection stay.             *)
closeKeepsMessages(c, i) == [c EXCEPT !.conns = SwapRemove(@, i)]

(* close, with the loop that removes the messages of the connection (in    *)
(* the end what that of ipc_remove_messages_for_fd leaves, order aside).   *)
close(c, i) ==
  [c EXCEPT !.conns = SwapRemove(@, i),
            !.tx = ipc_remove_messages_for_fd(@, c.conns[i].fd)]

(* close_fd, which fails for a descriptor that is not in the context, and  *)
(* the errors of which are ignored; safe_close_fd when f is open.          *)
close_fd(c, f) == IF Registered(c, f) THEN close(c, fd_to_index(c, f)) ELSE c

(* SwitchDB: a map from each end to the other.                             *)
(* A mistake to rule out: the second entry is not made.                    *)
add_switchOneWay(c, f, g) ==
  [c EXCEPT !.conns = [i \in DOMAIN @ |-> IF @[i].fd \in {f, g}
                                         THEN [@[i] EXCEPT !.t = "SWITCHED"] ELSE @[i]],
            !.switchdb = [h \in DOMAIN @ \cup {f} |-> IF h = f THEN g ELSE @[h]]]

add_switch(c, f, g) ==
  [c EXCEPT !.conns = [i \in DOMAIN @ |-> IF @[i].fd \in {f, g}
                                         THEN [@[i] EXCEPT !.t = "SWITCHED"] ELSE @[i]],
            !.switchdb = [h \in DOMAIN @ \cup {f, g} |->
                            CASE h = f -> g [] h = g -> f [] h \notin {f, g} -> @[h]]]

getDest(c, f) == c.switchdb[f]

nuke(c, f) ==
  IF f \in DOMAIN c.switchdb
  THEN [c EXCEPT !.switchdb = Restrict(@, DOMAIN @ \ {f, getDest(c, f)})]
  ELSE c

(* A mistake to rule out: the entries of the pair stay.                    *)
DropPairKeepsEntries(c, f) == close_fd(close_fd(c, f), getDest(c, f))

(* What the branches of wait_event do with a pair that ended: nuke, then   *)
(* safe_close_fd of both ends.                                             *)
DropPair(c, f) == close_fd(close_fd(nuke(c, f), f), getDest(c, f))

-----------------------------------------------------------------------------
(* wait_event.                                                             *)

Fresh == nfiles + 1

(* A new descriptor is the lowest that is free.                            *)
NewFd == {f \in Free(files) : \A g \in Free(files) : f <= g}

(* accept(2) on s: the first pending connection becomes the file f.        *)
AcceptFile(t, s, f) ==
  [OpenFile(t, f, Head(t[s].rx).id, "sock") EXCEPT ![s].rx = Tail(@)]

(* write(2).  On a Unix socket it fails once the peer has left; on TCP a   *)
(* write after the end of the other side may still succeed.                *)
WriteOK(f) == files[f].peer # "reset"
WriteFails(f) == files[f].peer # "up"

CloseFiles(t, F) == [f \in Fd |-> IF f \in F THEN ClosedFile ELSE t[f]]

Return(t, i, f, m) ==
  /\ event' = [t |-> t, index |-> i, origin |-> f, m |-> m]
  /\ at' = [pc |-> "event", i |-> i, fd |-> f]

(* An error that wait_event or a handler passes on with try, or that       *)
(* kills the process: deinit closes all there is.                          *)
End ==
  /\ ctx' = [conns |-> <<>>, tx |-> <<>>, switchdb |-> <<>>]
  /\ files' = [f \in Fd |-> ClosedFile]
  /\ at' = [pc |-> "ended", i |-> 0, fd |-> NoFd]
  /\ UNCHANGED <<event, nfiles, nmsgs>>

(* A mistake to rule out: POLLOUT is not asked for switched connections.   *)
MarkedUnswitched ==
  [i \in 1 .. Len(ctx.conns) |->
     [ctx.conns[i] EXCEPT !.out = @ \/ (/\ ctx.conns[i].t # "SWITCHED"
                                       /\ HasMessage(ctx.tx, ctx.conns[i].fd))]]

(* POLLOUT is asked for where a message waits, or was asked for before.    *)
Marked ==
  [i \in 1 .. Len(ctx.conns) |->
     [ctx.conns[i] EXCEPT !.out = @ \/ HasMessage(ctx.tx, ctx.conns[i].fd)]]

(* The branch poll(2) leads to for a connection k.                         *)
Branch(k) ==
  LET flags == Poll(files[k.fd], k.out)
  IN  CASE "IN" \in flags -> k.t
        [] "IN" \notin flags /\ "OUT" \in flags -> "OUT"
        [] "IN" \notin flags /\ "OUT" \notin flags -> "none"

Polls ==
  /\ at.pc = "wait"
  /\ \E i \in 1 .. Len(ctx.conns) :
       /\ Branch(Marked[i]) # "none" /\ \A j \in 1 .. i - 1 : Branch(Marked[j]) = "none"
       /\ at' = [pc |-> Branch(Marked[i]), i |-> i, fd |-> ctx.conns[i].fd]
  /\ ctx' = [ctx EXCEPT !.conns = Marked]
  /\ UNCHANGED <<event, files, nfiles, nmsgs, sent>>

(* SERVER.  The origin of the event is the listening socket.               *)
accept_new_client ==
  /\ at.pc = "SERVER"
  /\ \/ \E f \in NewFd :
          /\ ctx' = add_(ctx, f, "IPC")
          /\ files' = AcceptFile(files, at.fd, f)
          /\ Return("CONNECTION", Len(ctx.conns) + 1, at.fd, Nothing)
          /\ UNCHANGED <<nfiles, nmsgs>>
     \/ Free(files) = {} /\ End
  /\ UNCHANGED sent

(* EXTERNAL: the user handles IO.                                          *)
External ==
  /\ at.pc = "EXTERNAL"
  /\ Return("EXTERNAL", at.i, at.fd, Nothing)
  /\ UNCHANGED <<ctx, files, nfiles, nmsgs, sent>>

(* IPC: read, then Message.read.  One read(2) takes all that is queued;    *)
(* the first message is kept and what follows it is lost.  An empty        *)
(* message alone is taken for the end of the connection.  The event of a   *)
(* disconnection is made after close has moved the last connection into    *)
(* the slot i, and takes its origin from there.  A "bad" length is an      *)
(* error when it is greater than the buffer, and otherwise the message is  *)
(* completed with the zeros of the buffer.                                 *)
Stale(i) == IF i < Len(ctx.conns) THEN ctx.conns[Len(ctx.conns)].fd ELSE at.fd

read ==
  LET x == files[at.fd]
      ends == x.rx = <<>> \/ (Len(x.rx) = 1 /\ x.rx[1].kind = "empty")
  IN  /\ at.pc = "IPC"
      /\ \/ /\ ~ends
            /\ files' = Drain(files, at.fd)
            /\ Return("MESSAGE_RX", at.i, at.fd, x.rx[1])
            /\ UNCHANGED ctx
         \/ /\ ends
            /\ ctx' = close(ctx, at.i)
            /\ files' = CloseFile(files, at.fd)
            /\ Return("DISCONNECTION", at.i, Stale(at.i), Nothing)
      /\ UNCHANGED <<nfiles, nmsgs, sent>>

WrongLength ==
  /\ at.pc = "IPC" /\ files[at.fd].rx # <<>> /\ files[at.fd].rx[1].kind = "bad"
  /\ End
  /\ UNCHANGED sent

(* SWITCHED: handle_event_read with default_in, the only callback there    *)
(* ever is: set_callbacks changes a copy of the entry.  getDest of a       *)
(* descriptor without an entry would be a panic.                           *)
default_in(x) ==
  CASE x.rx # <<>> -> IF x.rx[1].kind = "bad" THEN "ERROR" ELSE "NO_ERROR"
    [] x.rx = <<>> -> IF x.peer = "gone" THEN "FD_CLOSING" ELSE "ERROR"

handle_event_read ==
  LET x == files[at.fd]
      r == default_in(x)
      to == getDest(ctx, at.fd)
  IN  /\ at.pc = "SWITCHED"
      /\ at.fd \in DOMAIN ctx.switchdb
      /\ \/ /\ r = "NO_ERROR"
            /\ ctx' = schedule(ctx, [fd |-> to, file |-> files[to].id,
                                     id |-> x.rx[1].id, kind |-> x.rx[1].kind])
            /\ files' = Drain(files, at.fd)
            /\ Return("SWITCH_RX", at.i, at.fd, x.rx[1])
         \/ /\ r # "NO_ERROR"
            /\ ctx' = DropPair(ctx, at.fd)
            /\ files' = CloseFiles(files, {at.fd, to})
            /\ Return(IF r = "ERROR" THEN "ERROR" ELSE "DISCONNECTION", at.i, at.fd, Nothing)
      /\ UNCHANGED <<nfiles, nmsgs, sent>>

(* A mistake to rule out: POLLOUT stays in the events of the connection.   *)
ClearOutNever(c, i) == c
ClearOut(c, i) == [c EXCEPT !.conns[i].out = FALSE]

(* OUT: the first message for the descriptor leaves the list, then it is   *)
(* written.  An error ends the connections of a pair, and the program      *)
(* otherwise; depending on the runtime, SIGPIPE ends it in both cases.     *)
Write ==
  LET k == FirstFor(ctx.tx, at.fd)
      c == [ClearOut(ctx, at.i) EXCEPT !.tx = ipc_messages_del(@, k)]
      switched == ctx.conns[at.i].t = "SWITCHED"
      m == ctx.tx[k]
  IN  /\ at.pc = "OUT" /\ HasMessage(ctx.tx, at.fd)
      /\ \/ /\ WriteOK(at.fd)
            /\ ctx' = c
            /\ sent' = sent \cup {[id |-> m.id, for |-> m.file, file |-> files[at.fd].id]}
            /\ Return(IF switched THEN "SWITCH_TX" ELSE "MESSAGE_TX", at.i, at.fd, Nothing)
            /\ UNCHANGED <<files, nfiles, nmsgs>>
         \/ /\ WriteFails(at.fd) /\ switched
            /\ ctx' = DropPair(c, at.fd)
            /\ files' = CloseFiles(files, {at.fd, getDest(ctx, at.fd)})
            /\ Return("ERROR", at.i, at.fd, Nothing)
            /\ UNCHANGED <<nfiles, nmsgs, sent>>
         \/ WriteFails(at.fd) /\ End /\ UNCHANGED sent

wait_event ==
  \/ Polls \/ accept_new_client \/ External \/ read \/ WrongLength
  \/ handle_event_read \/ Write

-----------------------------------------------------------------------------
(* The peers.                                                              *)

PeerConnect(f) ==
  /\ files[f].sort = "listen" /\ nfiles < MaxFiles
  /\ files' = [files EXCEPT ![f].rx = Append(@, [id |-> Fresh, kind |-> "text"])]
  /\ nfiles' = Fresh
  /\ UNCHANGED <<ctx, at, event, nmsgs, sent>>

PeerSend(f, kind) ==
  /\ files[f].sort = "sock" /\ files[f].peer = "up" /\ nmsgs < MaxMsgs
  /\ files' = [files EXCEPT ![f].rx = Append(@, [id |-> nmsgs + 1, kind |-> kind])]
  /\ nmsgs' = nmsgs + 1
  /\ UNCHANGED <<ctx, at, event, nfiles, sent>>

PeerLeave(f, how) ==
  /\ files[f].sort = "sock" /\ files[f].peer = "up"
  /\ files' = [files EXCEPT ![f].peer = how]
  /\ UNCHANGED <<ctx, at, event, nfiles, nmsgs, sent>>

Peers ==
  \E f \in Fd :
    \/ PeerConnect(f)
    \/ \E kind \in Payload : PeerSend(f, kind)
    \/ \E how \in {"gone", "reset"} : PeerLeave(f, how)

=============================================================================
