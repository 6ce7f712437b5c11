----------------------------- MODULE IpcMessages -----------------------------
(***************************************************************************)
(* The list of messages to send (struct ipc_messages, the field tx of      *)
(* struct ipc_ctx) and the operations of message.c and communication.c on  *)
(* it.  C arrays become sequences: the element of index i in C has index   *)
(* i + 1 here.                                                             *)
(*                                                                         *)
(* A message is a record with at least the field fd, the descriptor it is  *)
(* to be written on, and the field kind, which abstracts its payload:      *)
(*   "empty"    length 0                                                   *)
(*   "text"     bytes without a NUL                                        *)
(*   "binary"   bytes with a NUL before the last byte                      *)
(*   "damaged"  what is left of "binary" after a copy that stops at a NUL  *)
(***************************************************************************)
EXTENDS Integers, Sequences, FiniteSets

Kinds == {"empty", "text", "binary", "damaged"}

(* The copy of a payload made by strncpy: bytes after the first NUL are    *)
(* replaced by zeros.                                                      *)
strncpy(kind) == IF kind = "binary" THEN "damaged" ELSE kind

(* ipc_messages_add appends a copy of the structure and of its payload.    *)
ipc_messages_add(s, m) == Append(s, [m EXCEPT !.kind = strncpy(m.kind)])

(* Removal of the i-th element: the last element takes its place.          *)
SwapRemove(s, i) ==
  [k \in 1 .. Len(s) - 1 |-> IF k = i THEN s[Len(s)] ELSE s[k]]

(* Mistakes to rule out: the last element is not moved into the hole, and  *)
(* the last index is taken to be out of range.                             *)
ipc_messages_delNoMove(s, i) == IF i \in 1 .. Len(s) THEN SubSeq(s, 1, Len(s) - 1) ELSE s
ipc_messages_delNotLast(s, i) == IF i \in 1 .. Len(s) - 1 THEN SwapRemove(s, i) ELSE s

(* ipc_messages_del.  An index out of range leaves the list unchanged.     *)
ipc_messages_del(s, i) == IF i \in 1 .. Len(s) THEN SwapRemove(s, i) ELSE s

(* The positions of the messages for none of the descriptors F, and the    *)
(* one among a set of positions that has h - 1 larger ones.                *)
Kept(s, F) == {k \in 1 .. Len(s) : s[k].fd \notin F}
FromEnd(P, h) == CHOOSE p \in P : Cardinality({q \in P : q >= p}) = h

(* s without the messages for F: a message to keep that precedes the end   *)
(* of the new list stays where it is, and the j-th hole is filled with the *)
(* j-th message to keep from the end.                                      *)
RemoveFor(s, F) ==
  LET P == Kept(s, F)
  IN  [j \in 1 .. Cardinality(P) |->
         IF j \in P THEN s[j]
                    ELSE s[FromEnd(P, Cardinality((1 .. j) \ P))]]

(* What the loop of ipc_remove_messages_for_fd leaves of s.  RemovalLoop   *)
(* checks this definition against the loop, order included.                *)
ipc_remove_messages_for_fd(s, fd) == RemoveFor(s, {fd})

(* The first message for fd, the one handle_writing_message and            *)
(* fd_switching_write look for, and whether there is one.                  *)
HasMessage(s, fd) == \E k \in 1 .. Len(s) : s[k].fd = fd
FirstFor(s, fd) ==
  CHOOSE k \in 1 .. Len(s) : s[k].fd = fd /\ \A j \in 1 .. k - 1 : s[j].fd # fd

=============================================================================
