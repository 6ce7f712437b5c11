------------------------------- MODULE Kernel -------------------------------
(***************************************************************************)
(* The part of the operating system libipc relies on: a table of file      *)
(* descriptors, stream sockets that carry whole messages, poll(2), recv(2) *)
(* and send(2).  None of it is libipc's code; it is modelled from how      *)
(* usocket.c and communication.c call it.                                  *)
(*                                                                         *)
(* A descriptor number is reused once closed, so every opened file also    *)
(* gets an identity (id) of its own.  A file has                           *)
(*   sort   "closed", "listen" (usock_init), "sock" (usock_connect,        *)
(*          usock_accept) or "ext" (opened by the application)             *)
(*   rx     what can be read: messages, or pending connections             *)
(*   peer   "up", "gone" (it closed: end of file) or "reset" (an error)    *)
(***************************************************************************)
EXTENDS Integers, Sequences

ClosedFile == [id |-> 0, sort |-> "closed", rx |-> <<>>, peer |-> "up"]

File(Body) ==
  [id : Nat, sort : {"closed", "listen", "sock", "ext"}, rx : Seq(Body),
   peer : {"up", "gone", "reset"}]

IsOpen(files, f) == files[f].sort # "closed"
Free(files) == {f \in DOMAIN files : ~IsOpen(files, f)}

OpenFile(files, f, id, sort) ==
  [files EXCEPT ![f] = [id |-> id, sort |-> sort, rx |-> <<>>, peer |-> "up"]]
CloseFile(files, f) == [files EXCEPT ![f] = ClosedFile]
Drain(files, f) == [files EXCEPT ![f].rx = <<>>]

Flags == {"IN", "OUT", "HUP", "ERR", "NVAL"}

(* What poll(2) reports for file x when POLLOUT is asked for iff out.  The *)
(* end of a socket is readable as well as hung up; an external descriptor  *)
(* (a pipe, say) may report a hang-up or an error alone.                   *)
Poll(x, out) ==
  {e \in Flags :
     \/ e = "IN"   /\ (x.rx # <<>> \/ (x.sort = "sock" /\ x.peer # "up"))
     \/ e = "OUT"  /\ out /\ x.sort \in {"sock", "ext"} /\ x.peer = "up"
     \/ e = "HUP"  /\ x.peer = "gone"
     \/ e = "ERR"  /\ x.peer = "reset"
     \/ e = "NVAL" /\ x.sort = "closed"}

=============================================================================
