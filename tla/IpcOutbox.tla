------------------------------ MODULE IpcOutbox ------------------------------
(***************************************************************************)
(* The context of IpcContext implements Outbox.  A connection is the file  *)
(* its descriptor names, so that the reuse of a descriptor number is not   *)
(* visible: this is what the mapping has to get right.                     *)
(***************************************************************************)
EXTENDS IpcContext

Held == {ctx.conns[i].fd : i \in 1 .. Len(ctx.conns)} \ {NoFd}

Promise ==
  INSTANCE Outbox WITH
    open    <- {files[f].id : f \in Held},
    broken  <- {files[f].id : f \in {g \in Held : files[g].peer # "up"}},
    pending <- {[id |-> m.id, conn |-> m.file] : m \in Listed},
    written <- {[id |-> d.id, conn |-> d.file] : d \in sent}

(* Every behaviour of the context is one of Outbox: whatever calls, events *)
(* and departures happen, a scheduled message is written once to its own   *)
(* connection, or is lost with it or with its peer.                        *)
ImplementsOutbox == Promise!Spec

=============================================================================
