----------------------------- MODULE IpcContext -----------------------------
(***************************************************************************)
(* A libipc context (struct ipc_ctx) and the operations of                 *)
(* communication.c, network.c, message.c and context.c on it, used by one  *)
(* application, against a kernel and peers that act at any moment.         *)
(*                                                                         *)
(* ipc_wait_event is split where other processes can interfere: the call   *)
(* of poll(2) records what it reports (revents), then the first ready      *)
(* connection is served with the state of the kernel at that later moment. *)
(* The application is sequential: it looks at the event, calls other       *)
(* functions, and waits again.                                             *)
(***************************************************************************)
EXTENDS IpcMessages, IpcSwitching, Kernel

CONSTANTS
  Fd,         \* descriptor numbers the process can use (its open file limit)
  NoFd,       \* -1 in a connection whose accept(2) failed, 0 in an event
  Callback,   \* callbacks of the application for switched descriptors
  Calls,      \* the calls the application makes
  Payload,    \* kinds of payload the application and its peers send
  Pipelining, \* whether a peer may send again before its message was read
  DestLeaves, \* whether the service of a switched pair may go away
  MaxFiles,   \* bound on the number of files opened
  MaxMsgs,    \* bound on the number of messages created
  MaxConns    \* bound on the number of connections in the context

AllCalls == {"server", "connect", "external", "switched", "callbacks",
             "callbacks_", "write", "close", "shutdown"}

ASSUME FdAssumption == NoFd \notin Fd
ASSUME CallbackAssumption == Null \notin Callback
ASSUME CallsAssumption == Calls \subseteq AllCalls
ASSUME PayloadAssumption == Payload \subseteq {"empty", "text", "binary"}
ASSUME FlagAssumption == Pipelining \in BOOLEAN /\ DestLeaves \in BOOLEAN
ASSUME BoundAssumption ==
  MaxFiles \in Nat /\ MaxMsgs \in Nat /\ MaxConns \in Nat

VARIABLES
  ctx,     \* struct ipc_ctx: conns (cinfos and pollfd), tx, switchdb
  event,   \* struct ipc_event, without the index
  pc,      \* where the application is
  revents, \* what poll(2) reported for each connection
  files,   \* the descriptor table of the process
  nfiles,  \* files opened so far
  nmsgs,   \* messages created so far
  sent     \* history: messages written, with the file they were written to

vars == <<ctx, event, pc, revents, files, nfiles, nmsgs, sent>>

ConnType == {"IPC", "EXTERNAL", "SERVER", "SWITCHED"}
EventType == {"NOT_SET", "ERROR", "EXTRA_SOCKET", "SWITCH", "CONNECTION",
              "DISCONNECTION", "MESSAGE", "TIMER", "TX"}

(* A message in the list to send remembers, beside its descriptor, the     *)
(* file that descriptor named when the message was scheduled.              *)
Body == [id : Nat, kind : Kinds \cup {"connect"}]
Message == [fd : Fd, file : Nat, id : Nat, kind : Kinds]
Connection == [fd : Fd \cup {NoFd}, type : ConnType, more_to_read : BOOLEAN]
Context == [conns : Seq(Connection), tx : Seq(Message),
            switchdb : Seq(Switching(Fd, Callback \cup {Null}))]

IPC_EVENT_CLEAN == [type |-> "NOT_SET", origin |-> NoFd]
(* A mistake to rule out: the macro forgets the type.                      *)
IPC_EVENT_SETNoType(type, origin) == [type |-> "NOT_SET", origin |-> origin]
IPC_EVENT_SET(type, origin) == [type |-> type, origin |-> origin]

-----------------------------------------------------------------------------
(* Operations on a context c.                                              *)

Registered(c, f) == \E i \in 1 .. Len(c.conns) : c.conns[i].fd = f
IndexOf(c, f) ==
  CHOOSE i \in 1 .. Len(c.conns) :
    c.conns[i].fd = f /\ \A j \in 1 .. i - 1 : c.conns[j].fd # f
HasType(c, f, type) ==
  \E i \in 1 .. Len(c.conns) : c.conns[i].fd = f /\ c.conns[i].type = type

EmptyContext == [conns |-> <<>>, tx |-> <<>>, switchdb |-> <<>>]

(* ipc_ctx_free.  The array of messages is freed but its size stays: only  *)
(* a list that is already empty is left in a state that can be used again. *)
ipc_ctx_free(c) == [c EXCEPT !.conns = <<>>, !.switchdb = <<>>]

(* A mistake to rule out: the type of the new entry is not set.            *)
ipc_add_fd_NoType(c, f, type) ==
  [c EXCEPT !.conns = Append(c.conns,
                        [fd |-> f, type |-> Null, more_to_read |-> FALSE])]

ipc_add_fd_(c, f, type) ==
  [c EXCEPT !.conns = Append(c.conns,
                        [fd |-> f, type |-> type, more_to_read |-> FALSE])]

(* ipc_close without the closing of the descriptor, see Closes.            *)
ipc_close(c, f) == [c EXCEPT !.tx = ipc_remove_messages_for_fd(c.tx, f)]

(* ipc_close of every connection.  The order of what is left of the list   *)
(* does not matter: TxRegistered says that nothing is left of it.          *)
ipc_close_all(c) ==
  [c EXCEPT !.tx = RemoveFor(c.tx, {c.conns[i].fd : i \in 1 .. Len(c.conns)})]

(* Mistakes to rule out: the messages of the connection are kept, and the  *)
(* last connection does not take the place of the removed one.             *)
ipc_delKeepsMessages(c, i) ==
  IF Len(c.conns) = 1 THEN ipc_ctx_free(c)
                      ELSE [c EXCEPT !.conns = SwapRemove(c.conns, i)]
ipc_delNoMove(c, i) ==
  LET tx == ipc_remove_messages_for_fd(c.tx, c.conns[i].fd)
  IN  [c EXCEPT !.tx = tx, !.conns = SubSeq(c.conns, 1, Len(c.conns) - 1)]

ipc_del(c, i) ==
  LET tx == ipc_remove_messages_for_fd(c.tx, c.conns[i].fd)
  IN  IF Len(c.conns) = 1
      THEN ipc_ctx_free([c EXCEPT !.tx = tx])
      ELSE [c EXCEPT !.tx = tx, !.conns = SwapRemove(c.conns, i)]

ipc_del_fd(c, f) == IF Registered(c, f) THEN ipc_del(c, IndexOf(c, f)) ELSE c

ipc_write(c, m) ==
  IF Registered(c, m.fd) THEN [c EXCEPT !.tx = ipc_messages_add(c.tx, m)] ELSE c

ipc_ctx_switching_add(c, orig, dest) ==
  [c EXCEPT !.switchdb = ipc_switching_add(c.switchdb, orig, dest)]
ipc_ctx_switching_del(c, f) ==
  [c EXCEPT !.switchdb = ipc_switching_del(c.switchdb, f)]

(* ipc_close closes every descriptor but the external ones.                *)
Closes(c, i) == c.conns[i].type # "EXTERNAL"

-----------------------------------------------------------------------------
(* The calls the application makes between two waits.                      *)

Fresh == nfiles + 1
May(call) == pc = "app" /\ call \in Calls
Room(n) == nfiles + n <= MaxFiles /\ Len(ctx.conns) + n <= MaxConns

ServerInit(f) ==
  /\ May("server") /\ Room(1) /\ f \in Free(files)
  /\ ctx' = ipc_add_fd_(ctx, f, "SERVER")
  /\ files' = OpenFile(files, f, Fresh, "listen")
  /\ nfiles' = Fresh
  /\ UNCHANGED <<event, pc, revents, nmsgs, sent>>

(* The descriptor comes from ipcd or from a connection to the service.     *)
Connect(f) ==
  /\ May("connect") /\ Room(1) /\ f \in Free(files)
  /\ ctx' = ipc_add_fd_(ctx, f, "IPC")
  /\ files' = OpenFile(files, f, Fresh, "sock")
  /\ nfiles' = Fresh
  /\ UNCHANGED <<event, pc, revents, nmsgs, sent>>

(* ipc_add_fd of a descriptor the application has just opened.             *)
AddFd(f) ==
  /\ May("external") /\ Room(1) /\ f \in Free(files)
  /\ ctx' = ipc_add_fd_(ctx, f, "EXTERNAL")
  /\ files' = OpenFile(files, f, Fresh, "ext")
  /\ nfiles' = Fresh
  /\ UNCHANGED <<event, pc, revents, nmsgs, sent>>

(* ipc_connection_switched for a client c the application has accepted:    *)
(* the connection s to the service is added first, then the client.        *)
ConnectSwitched(c, s) ==
  /\ May("switched") /\ Room(2)
  /\ c \in Free(files) /\ s \in Free(files) \ {c}
  /\ ctx' = ipc_ctx_switching_add(
              ipc_add_fd_(ipc_add_fd_(ctx, s, "SWITCHED"), c, "SWITCHED"), c, s)
  /\ files' = OpenFile(OpenFile(files, c, Fresh, "sock"), s, Fresh + 1, "sock")
  /\ nfiles' = nfiles + 2
  /\ UNCHANGED <<event, pc, revents, nmsgs, sent>>

(* ipc_switching_callbacks with both callbacks, and ipc_switching_callbacks_ *)
(* with only the one that reads.                                           *)
SetCallbacks(f, cb) ==
  /\ May("callbacks") /\ HasRecord(ctx.switchdb, f)
  /\ ctx' = [ctx EXCEPT !.switchdb = ipc_switching_callbacks(@, f, cb, cb)]
  /\ UNCHANGED <<event, pc, revents, files, nfiles, nmsgs, sent>>

SetCallbackIn(f, cb) ==
  /\ May("callbacks_") /\ HasRecord(ctx.switchdb, f)
  /\ ctx' = [ctx EXCEPT !.switchdb = ipc_switching_callbacks(@, f, cb, Null)]
  /\ UNCHANGED <<event, pc, revents, files, nfiles, nmsgs, sent>>

(* ipc_write.  The application does not write on a listening socket.       *)
Write(f, kind) ==
  /\ May("write") /\ nmsgs < MaxMsgs
  /\ Registered(ctx, f) /\ ~HasType(ctx, f, "SERVER")
  /\ ctx' = ipc_write(ctx, [fd |-> f, file |-> files[f].id, id |-> nmsgs + 1,
                            kind |-> kind])
  /\ nmsgs' = nmsgs + 1
  /\ UNCHANGED <<event, pc, revents, files, nfiles, sent>>

(* ipc_close and ipc_del of a connection that is not switched; an external *)
(* descriptor is closed by the application itself.                         *)
CloseConnection(i) ==
  /\ May("close") /\ i \in 1 .. Len(ctx.conns)
  /\ ctx.conns[i].type # "SWITCHED" /\ ctx.conns[i].fd # NoFd
  /\ ctx' = ipc_del(ipc_close(ctx, ctx.conns[i].fd), i)
  /\ files' = CloseFile(files, ctx.conns[i].fd)
  /\ UNCHANGED <<event, pc, revents, nfiles, nmsgs, sent>>

(* How a proxy leaves a switched pair: handle_disconnection of the example *)
(* simple-tcpd.                                                            *)
handle_disconnection(f) ==
  LET db == ctx.switchdb
      other == OtherEnd(ipc_switching_get_(db, f), f)
  IN  /\ May("close") /\ HasRecord(db, f)
      /\ ctx' = ipc_del_fd(ipc_del_fd(ipc_ctx_switching_del(ctx, f), other), f)
      /\ files' = CloseFile(CloseFile(files, other), f)
      /\ UNCHANGED <<event, pc, revents, nfiles, nmsgs, sent>>

(* The application closes a descriptor the context has forgotten.          *)
CloseForgotten(f) ==
  /\ May("close") /\ IsOpen(files, f) /\ ~Registered(ctx, f)
  /\ files' = CloseFile(files, f)
  /\ UNCHANGED <<ctx, event, pc, revents, nfiles, nmsgs, sent>>

(* ipc_close_all then ipc_ctx_free, as every program of the repository     *)
(* ends; the context may be used again, and external descriptors are still *)
(* open.                                                                   *)
Shutdown ==
  /\ May("shutdown") /\ ctx.conns # <<>>
  /\ ctx' = ipc_ctx_free(ipc_close_all(ctx))
  /\ files' = [f \in Fd |-> IF Registered(ctx, f) /\ ~HasType(ctx, f, "EXTERNAL")
                           THEN ClosedFile ELSE files[f]]
  /\ UNCHANGED <<event, pc, revents, nfiles, nmsgs, sent>>

-----------------------------------------------------------------------------
(* ipc_wait_event, first half: poll(2).                                    *)

(* A mistake to rule out: POLLOUT is never asked for.                      *)
ReportedNoOut ==
  [i \in 1 .. Len(ctx.conns) |->
     IF ctx.conns[i].fd = NoFd THEN {} ELSE Poll(files[ctx.conns[i].fd], FALSE)]

(* What poll(2) reports for the connections: POLLOUT is asked for where a  *)
(* message waits, and a negative descriptor is ignored.                    *)
Reported ==
  [i \in 1 .. Len(ctx.conns) |->
     IF ctx.conns[i].fd = NoFd THEN {}
     ELSE Poll(files[ctx.conns[i].fd], HasMessage(ctx.tx, ctx.conns[i].fd))]

Ready(c, r, i) == r[i] # {} \/ c.conns[i].more_to_read

PollReady ==
  /\ pc = "app" /\ Len(ctx.conns) <= MaxConns
  /\ \E i \in 1 .. Len(ctx.conns) : Ready(ctx, Reported, i)
  /\ revents' = Reported
  /\ event' = IPC_EVENT_CLEAN
  /\ pc' = "polled"
  /\ UNCHANGED <<ctx, files, nfiles, nmsgs, sent>>

(* What the loop over the connections leaves in event->origin when none of *)
(* them is ready.                                                          *)
LastOrigin ==
  IF ctx.conns = <<>> THEN NoFd ELSE ctx.conns[Len(ctx.conns)].fd

(* poll(2) reports nothing: a TIMER event if the timer was not null, and   *)
(* with a null one the loop over the connections ends without an event.    *)
(* The value of the timer is in EventTimer: here it is null or not.        *)
PollTimeout ==
  /\ pc = "app" /\ \A i \in 1 .. Len(ctx.conns) : ~Ready(ctx, Reported, i)
  /\ \/ event' = IPC_EVENT_SET("TIMER", NoFd)
     \/ event' = IPC_EVENT_SET("NOT_SET", LastOrigin)
  /\ pc' = "returned"
  /\ UNCHANGED <<ctx, revents, files, nfiles, nmsgs, sent>>

-----------------------------------------------------------------------------
(* ipc_wait_event, second half: the first ready connection is served.      *)

(* Connection i is the first ready one, and the event names it whatever    *)
(* happens; its request for another read is cleared if it is readable.     *)
First(i) ==
  /\ pc = "polled" /\ i \in 1 .. Len(ctx.conns)
  /\ Ready(ctx, revents, i)
  /\ \A j \in 1 .. i - 1 : ~Ready(ctx, revents, j)
FirstIn(i, type) ==
  /\ First(i) /\ ("IN" \in revents[i] \/ ctx.conns[i].more_to_read)
  /\ ctx.conns[i].type = type
FirstOut(i) ==
  First(i) /\ "IN" \notin revents[i] /\ ~ctx.conns[i].more_to_read
           /\ "OUT" \in revents[i]

MoreToRead(c, i, more) == [c EXCEPT !.conns[i].more_to_read = more]
Return(e) == event' = e /\ pc' = "returned" /\ revents' = <<>>

(* ipc_accept_add.  The entry of the client is allocated first; it stays,  *)
(* without a descriptor, when accept(2) fails for want of descriptors.     *)
ipc_accept_add(i) ==
  LET s == ctx.conns[i].fd
  IN  /\ FirstIn(i, "SERVER")
      /\ \/ \E f \in Free(files) :
               /\ ctx' = ipc_add_fd_(ctx, f, "IPC")
               /\ files' = [OpenFile(files, f, files[s].rx[1].id, "sock")
                             EXCEPT ![s].rx = Tail(@)]
               /\ Return(IPC_EVENT_SET("CONNECTION", f))
         \/ /\ Free(files) = {}
            /\ ctx' = ipc_add_fd_(ctx, NoFd, "IPC")
            /\ Return(IPC_EVENT_SET("NOT_SET", s))
            /\ UNCHANGED files
      /\ UNCHANGED <<nfiles, nmsgs, sent>>

(* No input or output on an external descriptor: the application does it.  *)
ExtraSocket(i) ==
  /\ FirstIn(i, "EXTERNAL")
  /\ ctx' = MoreToRead(ctx, i, FALSE)
  /\ Return(IPC_EVENT_SET("EXTRA_SOCKET", ctx.conns[i].fd))
  /\ UNCHANGED <<files, nfiles, nmsgs, sent>>

(* usock_recv and ipc_message_format_read: one recv(2) takes all that is   *)
(* queued, and the length in the header has to be that of the rest, or 0.  *)
ReadOutcome(x) ==
  CASE x.rx = <<>> -> IF x.peer = "reset" THEN "error" ELSE "closed"
    [] x.rx # <<>> -> IF Len(x.rx) = 1 \/ x.rx[1].kind = "empty" THEN "message" ELSE "parsing"

(* handle_new_message: a message, or the end of the connection.            *)
handle_new_message(i) ==
  LET f == ctx.conns[i].fd
      outcome == ReadOutcome(files[f])
  IN  /\ FirstIn(i, "IPC")
      /\ \/ /\ outcome = "message"
            /\ ctx' = MoreToRead(ctx, i, FALSE)
            /\ files' = Drain(files, f)
            /\ Return(IPC_EVENT_SET("MESSAGE", f))
         \/ /\ outcome # "message"
            /\ ctx' = ipc_del(ipc_close(ctx, f), i)
            /\ files' = CloseFile(files, f)
            /\ Return(IPC_EVENT_SET(IF outcome = "closed" THEN "DISCONNECTION"
                                                          ELSE "ERROR", f))
      /\ UNCHANGED <<nfiles, nmsgs, sent>>

(* default_cb_in: what it returns, and the message it gives.               *)
default_cb_in(x) ==
  CASE ReadOutcome(x) = "message" -> "NO_ERROR"
    [] ReadOutcome(x) = "closed"  -> "FD_CLOSING"
    [] ReadOutcome(x) = "error"   -> "FD_ERROR"
    [] ReadOutcome(x) = "parsing" -> "PARSING_ERROR"

(* The results of the callback that reads f: what it returns, the data it  *)
(* leaves, and whether it asks to be called again.  A callback of the      *)
(* application extracts one message of its protocol at a time, answers one *)
(* itself, or gives up.                                                    *)
InResults(cb, x) ==
  IF cb = Null
  THEN {[r |-> default_cb_in(x), rx |-> <<>>, more |-> FALSE]}
  ELSE IF x.rx = <<>>
  THEN {[r |-> IF x.peer = "gone" THEN "FD_CLOSING" ELSE "FD_ERROR",
         rx |-> <<>>, more |-> FALSE]}
  ELSE [r : {"NO_ERROR", "IGNORE"}, rx : {Tail(x.rx)}, more : {Len(x.rx) > 1}]
       \cup [r : {"PARSING_ERROR"}, rx : {<<>>}, more : {FALSE}]

(* fd_switching_read.  Without a record nothing is done and the event is   *)
(* not set.  A message goes to the list to send, for the other end; the    *)
(* result of ipc_write is not looked at.  When the descriptor closes or    *)
(* fails, ipc_del_fd is called for the destination of the record and for   *)
(* the talking descriptor, which may be the same.                          *)
fd_switching_read(i) ==
  LET f  == ctx.conns[i].fd
      sw == ipc_switching_get_(ctx.switchdb, f)
      x  == files[f]
      to == OtherEnd(sw, f)
  IN  /\ FirstIn(i, "SWITCHED")
      /\ \/ /\ ~HasRecord(ctx.switchdb, f)
            /\ ctx' = MoreToRead(ctx, i, FALSE)
            /\ Return(IPC_EVENT_SET("NOT_SET", f))
            /\ UNCHANGED files
         \/ /\ HasRecord(ctx.switchdb, f)
            /\ \E in \in InResults(InCallback(sw, f), x) :
                 LET c == MoreToRead(ctx, i, in.more)
                 IN  /\ files' = [files EXCEPT ![f].rx = in.rx]
                     /\ \/ /\ in.r = "NO_ERROR"
                           /\ ctx' = ipc_write(c, [fd |-> to, file |-> files[to].id,
                                         id |-> x.rx[1].id, kind |-> x.rx[1].kind])
                           /\ Return(IPC_EVENT_SET("SWITCH", f))
                        \/ /\ in.r = "IGNORE"
                           /\ ctx' = c
                           /\ Return(IPC_EVENT_SET("SWITCH", f))
                        \/ /\ in.r \notin {"NO_ERROR", "IGNORE"}
                           /\ ctx' = ipc_ctx_switching_del(
                                       ipc_del_fd(ipc_del_fd(c, sw.dest), f), f)
                           /\ Return(IPC_EVENT_SET(IF in.r = "FD_CLOSING"
                                         THEN "DISCONNECTION" ELSE "ERROR", f))
      /\ UNCHANGED <<nfiles, nmsgs, sent>>

(* send(2) on f succeeds as long as the peer is there.                     *)
Sends(f) == files[f].peer = "up"
Delivery(m, f) == [id |-> m.id, kind |-> m.kind, for |-> m.file,
                   file |-> files[f].id]

(* handle_writing_message: the message leaves the list whether or not it   *)
(* could be written, and the event is the same.                            *)
handle_writing_message(i) ==
  LET f == ctx.conns[i].fd
      k == FirstFor(ctx.tx, f)
  IN  /\ FirstOut(i) /\ ctx.conns[i].type # "SWITCHED"
      /\ ctx' = [ctx EXCEPT !.tx = ipc_messages_del(ctx.tx, k)]
      /\ sent' = IF Sends(f) THEN sent \cup {Delivery(ctx.tx[k], f)} ELSE sent
      /\ Return(IPC_EVENT_SET("TX", f))
      /\ UNCHANGED <<files, nfiles, nmsgs>>

(* fd_switching_write.  default_cb_out is used where no callback reads the *)
(* descriptor; otherwise the one that writes is called, even if it is NULL *)
(* (the process is then killed).                                           *)
fd_switching_write(i) ==
  LET f  == ctx.conns[i].fd
      k  == FirstFor(ctx.tx, f)
      sw == ipc_switching_get_(ctx.switchdb, f)
      to == OtherEnd(sw, f)
      c  == [ctx EXCEPT !.tx = ipc_messages_del(ctx.tx, k)]
      default == InCallback(sw, f) = Null
  IN  /\ FirstOut(i) /\ ctx.conns[i].type = "SWITCHED"
      /\ \/ /\ ~HasRecord(ctx.switchdb, f)
            /\ Return(IPC_EVENT_SET("NOT_SET", f))
            /\ UNCHANGED <<ctx, files, sent>>
         \/ /\ HasRecord(ctx.switchdb, f)
            /\ ~default /\ OutCallback(sw, f) = Null
            /\ pc' = "crashed"
            /\ UNCHANGED <<ctx, event, revents, files, sent>>
         \/ /\ HasRecord(ctx.switchdb, f)
            /\ default \/ OutCallback(sw, f) # Null
            /\ Sends(f)
            /\ ctx' = c
            /\ sent' = sent \cup {Delivery(ctx.tx[k], f)}
            /\ Return(IPC_EVENT_SET("TX", f))
            /\ UNCHANGED files
         \/ /\ HasRecord(ctx.switchdb, f)
            /\ default \/ OutCallback(sw, f) # Null
            /\ ~default \/ ~Sends(f)
            /\ ctx' = ipc_del_fd(ipc_del_fd(ipc_ctx_switching_del(c, f), to), f)
            /\ files' = CloseFile(CloseFile(files, to), f)
            /\ \E type \in {"ERROR"} \cup (IF default THEN {} ELSE {"DISCONNECTION"}) :
                 Return(IPC_EVENT_SET(type, f))
            /\ UNCHANGED sent
      /\ UNCHANGED <<nfiles, nmsgs>>

(* The end of an external descriptor: the connection is not removed.       *)
HangUp(i) ==
  LET f == ctx.conns[i].fd
  IN  /\ First(i) /\ "IN" \notin revents[i] /\ ~ctx.conns[i].more_to_read
      /\ "OUT" \notin revents[i] /\ "HUP" \in revents[i]
      /\ ctx' = ipc_close(ctx, f)
      /\ files' = IF Closes(ctx, i) THEN CloseFile(files, f) ELSE files
      /\ Return(IPC_EVENT_SET("DISCONNECTION", f))
      /\ UNCHANGED <<nfiles, nmsgs, sent>>

PollError(i) ==
  /\ First(i) /\ ~ctx.conns[i].more_to_read
  /\ revents[i] \cap {"IN", "OUT", "HUP"} = {}
  /\ Return(IPC_EVENT_SET("ERROR", ctx.conns[i].fd))
  /\ UNCHANGED <<ctx, files, nfiles, nmsgs, sent>>

-----------------------------------------------------------------------------
(* The application looks at the event: it reads an external descriptor,    *)
(* and removes and closes one that ended.                                  *)
HandleEvent ==
  LET f == event.origin
      ended == event.type \in {"DISCONNECTION", "ERROR"} /\ HasType(ctx, f, "EXTERNAL")
  IN  /\ pc = "returned"
      /\ ctx' = IF ended THEN ipc_del_fd(ctx, f) ELSE ctx
      /\ files' = CASE ended -> CloseFile(files, f)
                   [] event.type = "EXTRA_SOCKET" -> Drain(files, f)
                   [] OTHER -> files
      /\ event' = IPC_EVENT_CLEAN
      /\ pc' = "app"
      /\ UNCHANGED <<revents, nfiles, nmsgs, sent>>

-----------------------------------------------------------------------------
(* The peers.                                                              *)

PeerConnect(f) ==
  /\ files[f].sort = "listen" /\ nfiles < MaxFiles
  /\ files' = [files EXCEPT ![f].rx = Append(@, [id |-> Fresh, kind |-> "connect"])]
  /\ nfiles' = Fresh
  /\ UNCHANGED <<ctx, event, pc, revents, nmsgs, sent>>

PeerSend(f, kind) ==
  /\ files[f].sort \in {"sock", "ext"} /\ files[f].peer = "up"
  /\ nmsgs < MaxMsgs /\ (Pipelining \/ files[f].rx = <<>>)
  /\ files' = [files EXCEPT ![f].rx = Append(@, [id |-> nmsgs + 1, kind |-> kind])]
  /\ nmsgs' = nmsgs + 1
  /\ UNCHANGED <<ctx, event, pc, revents, nfiles, sent>>

PeerLeave(f, how) ==
  /\ files[f].sort \in {"sock", "ext"} /\ files[f].peer = "up"
  /\ DestLeaves \/ \A k \in 1 .. Len(ctx.switchdb) : ctx.switchdb[k].dest # f
  /\ files' = [files EXCEPT ![f].peer = how]
  /\ UNCHANGED <<ctx, event, pc, revents, nfiles, nmsgs, sent>>

-----------------------------------------------------------------------------

Init ==
  /\ ctx = EmptyContext
  /\ event = IPC_EVENT_CLEAN
  /\ pc = "app"
  /\ revents = <<>>
  /\ files = [f \in Fd |-> ClosedFile]
  /\ nfiles = 0 /\ nmsgs = 0
  /\ sent = {}

Application ==
  \/ \E f \in Fd : ServerInit(f) \/ Connect(f) \/ AddFd(f)
  \/ \E c, s \in Fd : ConnectSwitched(c, s)
  \/ \E f \in Fd, cb \in Callback : SetCallbacks(f, cb) \/ SetCallbackIn(f, cb)
  \/ \E f \in Fd, kind \in Payload : Write(f, kind)
  \/ \E i \in 1 .. Len(ctx.conns) : CloseConnection(i)
  \/ \E f \in Fd : handle_disconnection(f) \/ CloseForgotten(f)
  \/ Shutdown

Serve(i) ==
  \/ ipc_accept_add(i) \/ ExtraSocket(i) \/ handle_new_message(i)
  \/ fd_switching_read(i) \/ handle_writing_message(i) \/ fd_switching_write(i)
  \/ HangUp(i) \/ PollError(i)

ipc_wait_event ==
  PollReady \/ PollTimeout \/ \E i \in 1 .. Len(ctx.conns) : Serve(i)

EventLoop == ipc_wait_event \/ HandleEvent

Peers ==
  \/ \E f \in Fd : PeerConnect(f)
  \/ \E f \in Fd, kind \in Payload : PeerSend(f, kind)
  \/ \E f \in Fd, how \in {"gone", "reset"} : PeerLeave(f, how)

(* A process that was killed stays dead.                                   *)
Killed == pc = "crashed" /\ UNCHANGED vars

Next == Application \/ EventLoop \/ Peers \/ Killed

Spec == Init /\ [][Next]_vars

(* The application keeps waiting for events and looking at them.           *)
FairSpec == Spec /\ WF_vars(EventLoop)

-----------------------------------------------------------------------------
(* Properties.                                                             *)

(* The types of the structures of ipc.h and of the descriptor table.       *)
TypeOK ==
  /\ ctx \in Context
  /\ event \in [type : EventType, origin : Fd \cup {NoFd}]
  /\ pc \in {"app", "polled", "returned", "crashed"}
  /\ revents \in Seq(SUBSET Flags)
  /\ files \in [Fd -> File(Body)]
  /\ nfiles \in Nat /\ nmsgs \in Nat
  /\ sent \in SUBSET [id : Nat, kind : Kinds, for : Nat, file : Nat]

Listed == {ctx.tx[k] : k \in 1 .. Len(ctx.tx)}

(* Every message to send is for a connection of the context.  Otherwise it *)
(* would never be asked to poll(2), and ipc_ctx_free, which leaves tx.size *)
(* as it is when the last connection goes, would leave a size without an   *)
(* array.                                                                  *)
TxRegistered == \A m \in Listed : Registered(ctx, m.fd)

(* The connections of the context have distinct descriptors, all of them   *)
(* open: no entry survives the close(2) of its descriptor, whose number    *)
(* the next accepted client may get.                                       *)
DescriptorsOwned ==
  \A i, j \in 1 .. Len(ctx.conns) :
    ctx.conns[i].fd # NoFd =>
      /\ IsOpen(files, ctx.conns[i].fd)
      /\ i # j => ctx.conns[i].fd # ctx.conns[j].fd

(* Both ends of every switching are connections of the context, and no     *)
(* descriptor is in two switchings.                                        *)
SwitchdbCoherent ==
  LET db == ctx.switchdb
  IN  \A k \in 1 .. Len(db) :
        /\ db[k].orig # db[k].dest
        /\ \A f \in Ends(db[k]) : HasType(ctx, f, "SWITCHED")
        /\ \A l \in 1 .. Len(db) : l # k => Ends(db[k]) \cap Ends(db[l]) = {}

(* A message is written to the very connection it was scheduled for, even  *)
(* though connections come and go and descriptor numbers are reused.       *)
NoMisdelivery == \A d \in sent : d.file = d.for

(* What the default callback reads from one end of a switching is in the   *)
(* list to send, for the other end.                                        *)
Transfers ==
  \A i \in 1 .. Len(ctx.conns) :
    fd_switching_read(i) =>
      LET f  == ctx.conns[i].fd
          sw == ipc_switching_get_(ctx.switchdb, f)
      IN  HasRecord(ctx.switchdb, f) /\ InCallback(sw, f) = Null =>
          \A b \in 1 .. Len(files[f].rx) :
            \E m \in Listed' : m.id = files[f].rx[b].id /\ m.fd \in Ends(sw) \ {f}

(* "each message coming from one end will be automatically transfered to   *)
(* the other socket" (ipc.h), in every step of fd_switching_read.          *)
SwitchTransfers == [][Transfers]_vars

(* A connection that was ready is served with an event that is set.        *)
ServedIsSet == pc = "polled" /\ pc' = "returned" => event'.type # "NOT_SET"

(* ipc_wait_event says what it did with the connection it served ("it has  *)
(* to be filled"), when the pair of a switched connection is given up as a *)
(* whole and accept(2) does not fail.  A call that served nothing returns  *)
(* an event that is not set if its timer was null, see PollTimeout: this   *)
(* says nothing of it.                                                     *)
EventFilled == [][ServedIsSet]_vars

(* A connection that takes messages through callbacks is in a switching:   *)
(* when fd_switching_read gives up a pair, both connections leave with the *)
(* record.                                                                 *)
SwitchedHasRecord ==
  \A i \in 1 .. Len(ctx.conns) :
    ctx.conns[i].type = "SWITCHED" => HasRecord(ctx.switchdb, ctx.conns[i].fd)

(* Every message in the list is eventually written or dropped.             *)
TxDrains ==
  \A n \in 1 .. MaxMsgs :
    (\E m \in Listed : m.id = n) ~> ~(\E m \in Listed : m.id = n)

=============================================================================
