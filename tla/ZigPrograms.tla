----------------------------- MODULE ZigPrograms -----------------------------
(***************************************************************************)
(* Three programs of the Zig implementation on top of their context:       *)
(*   pongd  sends back what it receives (apps/pongd.zig)                   *)
(*   tcpd   links a TCP connection with a local one (apps/tcpd.zig)        *)
(*   ipcd   makes a connection for a client and gives it its descriptor    *)
(*          (apps/ipcd.zig)                                                *)
(* A handler of tcpd or ipcd that reads from a socket blocks in the middle *)
(* of the event: nothing else is served until the answer comes.            *)
(***************************************************************************)
EXTENDS ZigContext

(* tcpd listens on two sockets.                                            *)
ASSUME PortAssumption == \E f, g \in Fd : f # g

VARIABLE prog \* the program that runs

vars == <<ctx, at, event, files, nfiles, nmsgs, sent, prog>>

Wait == at' = [pc |-> "wait", i |-> 0, fd |-> NoFd]
Block(pc, i, f) == at' = [pc |-> pc, i |-> i, fd |-> f]
Handles(program, t) == at.pc = "event" /\ prog = program /\ event.t = t

(* Events that are only printed.  An event of a switched connection would  *)
(* end pongd and ipcd, which have none.                                    *)
Printed ==
  /\ at.pc = "event"
  /\ event.t \in {"CONNECTION", "DISCONNECTION", "MESSAGE_TX", "SWITCH_RX", "SWITCH_TX"}
  /\ Wait
  /\ UNCHANGED <<ctx, event, files, nfiles, nmsgs, sent, prog>>

(* "A problem occured, let's suicide".                                     *)
Suicide == at.pc = "event" /\ event.t = "ERROR" /\ End /\ UNCHANGED <<sent, prog>>

(* SIGHUP sets should_quit, which is looked at between two events.         *)
Quit == at.pc = "wait" /\ End /\ UNCHANGED <<sent, prog>>

(* pongd: the message carries the descriptor it was read from.             *)
Echo ==
  /\ Handles("pongd", "MESSAGE_RX")
  /\ ctx' = schedule(ctx, [fd |-> event.origin, file |-> files[event.origin].id,
                           id |-> event.m.id, kind |-> event.m.kind])
  /\ Wait
  /\ UNCHANGED <<event, files, nfiles, nmsgs, sent, prog>>

-----------------------------------------------------------------------------
(* tcpd.                                                                   *)

Opened(f) == OpenFile(files, f, Fresh, "sock")
CanOpen(f) == f \in NewFd /\ nfiles < MaxFiles

(* A client on the TCP port: tcpd accepts it and waits for the name of the *)
(* service it wants.                                                       *)
TcpAccept ==
  /\ Handles("tcpd", "EXTERNAL")
  /\ \/ \E f \in NewFd :
          /\ files' = AcceptFile(files, event.origin, f)
          /\ Block("name", at.i, f)
          /\ UNCHANGED <<ctx, event, nfiles, nmsgs>>
     \/ Free(files) = {} /\ End
  /\ UNCHANGED <<sent, prog>>

Answered(f) == files[f].rx # <<>> \/ files[f].peer # "up"

(* A mistake to rule out: the client stays open when its service does not  *)
(* answer.                                                                 *)
RefuseLeaks(f) == Wait /\ UNCHANGED <<ctx, event, files, nfiles, nmsgs, sent, prog>>
Refuse(f) ==
  /\ files' = CloseFile(files, f)
  /\ Wait
  /\ UNCHANGED <<ctx, event, nfiles, nmsgs, sent, prog>>

(* No name, or a service that cannot be reached, closes the client; an     *)
(* error of a read or of a write ends the program.                         *)
TcpName ==
  LET c == at.fd
      x == files[c]
  IN  /\ at.pc = "name" /\ Answered(c)
      /\ \/ (x.rx # <<>> \/ x.peer = "gone") /\ Refuse(c)
         \/ /\ Len(x.rx) = 1 /\ WriteOK(c)
            /\ \E s \in Fd :
                 /\ CanOpen(s)
                 /\ files' = Drain(Opened(s), c)
                 /\ ctx' = add_switch(add_(add_(ctx, s, "IPC"), c, "EXTERNAL"), c, s)
            /\ nfiles' = Fresh
            /\ Wait
            /\ UNCHANGED <<event, nmsgs, sent, prog>>
         \/ /\ IF x.rx # <<>> THEN WriteFails(c) ELSE x.peer = "reset"
            /\ End /\ UNCHANGED <<sent, prog>>

(* A local client, ipcd in practice, asks for a remote service: tcpd       *)
(* connects, and waits for the answer of the other side.                   *)
TcpRequest ==
  /\ Handles("tcpd", "MESSAGE_RX")
  /\ \/ /\ \E f \in Fd : /\ CanOpen(f)
                         /\ files' = Opened(f)
                         /\ Block("ok", event.index, f)
        /\ nfiles' = Fresh
        /\ UNCHANGED <<ctx, event, nmsgs>>
     \/ End
  /\ UNCHANGED <<sent, prog>>

TcpAnswer ==
  LET s == at.fd
      c == event.origin
      x == files[s]
      ok == x.rx # <<>> /\ Len(x.rx) = 1 /\ x.rx[1].kind = "text"
  IN  /\ at.pc = "ok" /\ Answered(s)
      /\ \/ /\ ok /\ WriteOK(c)
            /\ ctx' = add_switch(add_(ctx, s, "EXTERNAL"), c, s)
            /\ files' = Drain(files, s)
            /\ Wait
            /\ UNCHANGED <<event, nfiles, nmsgs>>
         \/ /\ ~ok /\ (x.rx # <<>> \/ x.peer = "gone")
            /\ ctx' = close(ctx, at.i)
            /\ files' = CloseFiles(files, {s, c})
            /\ Wait
            /\ UNCHANGED <<event, nfiles, nmsgs>>
         \/ ok /\ WriteFails(c) /\ End
         \/ x.rx = <<>> /\ x.peer = "reset" /\ End
      /\ UNCHANGED <<sent, prog>>

-----------------------------------------------------------------------------
(* ipcd.                                                                   *)

(* A lookup.  Without a destination the client is just closed.  A local    *)
(* service is reached at once: its descriptor is sent and both are closed. *)
(* A protocol daemon is asked and its answer awaited.  A service that      *)
(* cannot be reached, or a request that cannot be written, ends the        *)
(* program.                                                                *)
Lookup ==
  LET c == event.origin
  IN  /\ Handles("ipcd", "MESSAGE_RX")
      /\ \/ /\ ctx' = close_fd(ctx, c)
            /\ files' = CloseFile(files, c)
            /\ Wait
            /\ UNCHANGED <<event, nfiles, nmsgs>>
         \/ /\ \E f \in Fd : /\ CanOpen(f)
                             /\ files' = Opened(f)
                             /\ ctx' = add_(ctx, f, "IPC")
                             /\ Block("daemon", event.index, f)
            /\ nfiles' = Fresh
            /\ UNCHANGED <<event, nmsgs>>
         \/ End
      /\ UNCHANGED <<sent, prog>>

(* The answer of the daemon, whichever it is: the deferred calls close the *)
(* connection to it, then the client.                                      *)
LookupAnswer ==
  LET x == files[at.fd]
  IN  /\ at.pc = "daemon" /\ Answered(at.fd)
      /\ \/ /\ x.rx # <<>> \/ x.peer = "gone"
            /\ ctx' = close_fd(close_fd(ctx, at.fd), event.origin)
            /\ files' = CloseFiles(files, {at.fd, event.origin})
            /\ Wait
            /\ UNCHANGED <<event, nfiles, nmsgs>>
         \/ x.rx = <<>> /\ x.peer = "reset" /\ End
         \/ x.rx # <<>> /\ (x.rx[1].kind = "bad" \/ WriteFails(event.origin)) /\ End
      /\ UNCHANGED <<sent, prog>>

-----------------------------------------------------------------------------

(* The context once the service listens, and for tcpd the TCP port too.    *)
Init ==
  LET s == CHOOSE f \in Fd : \A g \in Fd : f <= g
      p == CHOOSE f \in Fd \ {s} : \A g \in Fd \ {s} : f <= g
      t == OpenFile([f \in Fd |-> ClosedFile], s, 1, "listen")
      c == add_([conns |-> <<>>, tx |-> <<>>, switchdb |-> <<>>], s, "SERVER")
  IN  /\ prog \in {"pongd", "tcpd", "ipcd"}
      /\ ctx = IF prog = "tcpd" THEN add_(c, p, "EXTERNAL") ELSE c
      /\ files = IF prog = "tcpd" THEN OpenFile(t, p, 2, "listen") ELSE t
      /\ nfiles = 2 /\ nmsgs = 0
      /\ at = [pc |-> "wait", i |-> 0, fd |-> NoFd]
      /\ event = [t |-> "CONNECTION", index |-> 0, origin |-> NoFd, m |-> Nothing]
      /\ sent = {}

Handlers ==
  \/ Printed \/ Suicide \/ Echo
  \/ TcpAccept \/ TcpName \/ TcpRequest \/ TcpAnswer
  \/ Lookup \/ LookupAnswer

Loop == (wait_event /\ UNCHANGED prog) \/ Handlers

Next == Loop \/ Quit \/ (Peers /\ UNCHANGED prog)

(* The program keeps running; a peer may stay silent for ever.             *)
Spec == Init /\ [][Next]_vars /\ WF_vars(Loop)

-----------------------------------------------------------------------------
(* Properties.                                                             *)

Listed == {ctx.tx[k] : k \in 1 .. Len(ctx.tx)}
Held == {ctx.conns[i].fd : i \in 1 .. Len(ctx.conns)}

(* No descriptor leaks and none is forgotten too late: what the process    *)
(* has open is what its context holds, each once, and the connection the   *)
(* handler of tcpd is about to add.                                        *)
DescriptorsOwned ==
  /\ \A i, j \in 1 .. Len(ctx.conns) : i # j => ctx.conns[i].fd # ctx.conns[j].fd
  /\ {f \in Fd : IsOpen(files, f)} =
       Held \cup (IF at.pc \in {"name", "ok"} THEN {at.fd} ELSE {})

(* A connection goes through the switch exactly when it has an entry, and  *)
(* the entry of the other end leads back: getDest never meets a descriptor *)
(* without an entry, which would be a panic.                               *)
SwitchesPaired ==
  /\ DOMAIN ctx.switchdb =
       {ctx.conns[i].fd : i \in {j \in 1 .. Len(ctx.conns) : ctx.conns[j].t = "SWITCHED"}}
  /\ \A f \in DOMAIN ctx.switchdb :
       /\ ctx.switchdb[f] \in DOMAIN ctx.switchdb \ {f}
       /\ ctx.switchdb[ctx.switchdb[f]] = f

(* POLLOUT, which stays in events, is asked only for a connection that has *)
(* a message: otherwise wait_event would remove from the list the message  *)
(* of an index it never set.                                               *)
OutHasMessage ==
  \A i \in 1 .. Len(ctx.conns) :
    ctx.conns[i].out => HasMessage(ctx.tx, ctx.conns[i].fd)

(* The sockets that only listen take no messages.                          *)
Talking == {f \in Held : files[f].sort = "sock"}

Promise ==
  INSTANCE Outbox WITH
    open    <- {files[f].id : f \in Talking},
    broken  <- {files[f].id : f \in {g \in Talking : files[g].peer # "up"}},
    pending <- {[id |-> m.id, conn |-> m.file] : m \in Listed},
    written <- {[id |-> d.id, conn |-> d.file] : d \in sent}

(* The Zig context makes the same promise as the C one: a scheduled        *)
(* message is written once, to its own connection, or is lost with it or   *)
(* with its peer.                                                          *)
ImplementsOutbox == Promise!Spec

Busy == at.pc \in {"name", "ok", "daemon", "ended"}

(* Every scheduled message is written or dropped, unless the program has   *)
(* ended or waits for the answer of one peer.                              *)
TxDrains ==
  \A n \in 1 .. MaxMsgs :
    (\E m \in Listed : m.id = n) ~> (Busy \/ ~\E m \in Listed : m.id = n)

(* When one end of a pair leaves, neither end stays in the context.        *)
PairsEnd ==
  \A f \in Fd :
    (f \in DOMAIN ctx.switchdb /\ files[f].peer # "up") ~>
      (Busy \/ f \notin DOMAIN ctx.switchdb)

=============================================================================
