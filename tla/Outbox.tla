------------------------------- MODULE Outbox -------------------------------
(***************************************************************************)
(* What a libipc context promises to an application that schedules         *)
(* messages: a message goes to the connection it was scheduled for, once,  *)
(* or is lost because that connection was closed or because its peer left. *)
(*                                                                         *)
(* There is no descriptor here: a connection has an identity of its own,   *)
(* and the messages that wait are a set, since libipc keeps no order.      *)
(***************************************************************************)

VARIABLES
  open,    \* the connections of the context
  broken,  \* those whose peer has left
  pending, \* messages scheduled, each with its connection
  written  \* messages written, each with the connection it was written to

vars == <<open, broken, pending, written>>

Ids(S) == {m.id : m \in S}

Init == open = {} /\ broken = {} /\ pending = {} /\ written = {}

(* The peer of a new connection may have left already.                     *)
Open(K) ==
  /\ K # {} /\ K \cap open = {}
  /\ open' = open \cup K
  /\ broken' \in {broken \cup B : B \in SUBSET K}
  /\ UNCHANGED <<pending, written>>

(* The messages of a connection go with it.                                *)
Close(K) ==
  /\ open' = open \ K
  /\ broken' = broken \ K
  /\ pending' = {m \in pending : m.conn \notin K}
  /\ UNCHANGED written

PeerLeaves(k) ==
  /\ k \in open
  /\ broken' = broken \cup {k}
  /\ UNCHANGED <<open, pending, written>>

Schedule(m) ==
  /\ m.conn \in open /\ m.id \notin Ids(pending) \cup Ids(written)
  /\ pending' = pending \cup {m}
  /\ UNCHANGED <<open, broken, written>>

Write(m) ==
  /\ m \in pending
  /\ pending' = pending \ {m}
  /\ written' = written \cup {m}
  /\ UNCHANGED <<open, broken>>

Drop(M) ==
  /\ M \subseteq pending /\ \A m \in M : m.conn \in broken
  /\ pending' = pending \ M
  /\ UNCHANGED <<open, broken, written>>

Next ==
  \/ \E K \in SUBSET open' : Open(K)
  \/ \E K \in SUBSET open : Close(K)
  \/ \E k \in open : PeerLeaves(k)
  \/ \E m \in pending' : Schedule(m)
  \/ \E m \in pending : Write(m)
  \/ \E M \in SUBSET pending : Drop(M)

Spec == Init /\ [][Next]_vars

=============================================================================
