-------------------------- MODULE IpcContextProofs --------------------------
(***************************************************************************)
(* Theorems about a libipc context, for any number of descriptors,         *)
(* connections, messages and callbacks.                                    *)
(*                                                                         *)
(* The inductive invariant IInv adds to the invariants of IpcContext       *)
(*   - what the type of a connection says of its file (Matches), because   *)
(*     ipc_wait_event closes a hung-up descriptor without removing its     *)
(*     connection, which is harmless only for the external ones;           *)
(*   - that a message waits for the very file its descriptor names now;    *)
(*   - what poll(2) reported that is still true when the first ready       *)
(*     connection is served (PollInv), whatever the peers did since.       *)
(***************************************************************************)
EXTENDS IpcOutbox, IpcMessagesProofs

Matches(type, sort) ==
  \/ type = "EXTERNAL" /\ sort = "ext"
  \/ type = "SERVER" /\ sort = "listen"
  \/ type \in {"IPC", "SWITCHED"} /\ sort = "sock"

(* The connections of context c, against the descriptor table F.           *)
ConnsOK(c, F) ==
  /\ \A i, j \in 1 .. Len(c.conns) :
       c.conns[i].fd # NoFd /\ c.conns[i].fd = c.conns[j].fd => i = j
  /\ \A i \in 1 .. Len(c.conns) :
       IF c.conns[i].fd = NoFd
       THEN c.conns[i].type = "IPC"
       ELSE Matches(c.conns[i].type, F[c.conns[i].fd].sort)
  /\ \A i \in 1 .. Len(c.conns) :
       c.conns[i].more_to_read => c.conns[i].type = "SWITCHED"

(* The messages to send of context c, against the descriptor table F.      *)
TxOK(c, F) ==
  \A k \in 1 .. Len(c.tx) :
    /\ Registered(c, c.tx[k].fd)
    /\ F[c.tx[k].fd].id = c.tx[k].file

Good(c, F) == c \in Context /\ ConnsOK(c, F) /\ TxOK(c, F)

(* A listening socket never hangs up; a message of libipc is not a request *)
(* for a connection.                                                       *)
FilesOK(F) ==
  /\ F \in [Fd -> File(Body)]
  /\ \A f \in Fd :
       /\ F[f].sort = "listen" => F[f].peer = "up"
       /\ F[f].sort # "listen" =>
            \A b \in 1 .. Len(F[f].rx) : F[f].rx[b].kind \in Kinds

(* What is left of the report r of poll(2) for context c, connection i.    *)
FlagsOK(c, r, F, i) ==
  /\ r[i] # {} => c.conns[i].fd # NoFd
  /\ "OUT" \in r[i] => HasMessage(c.tx, c.conns[i].fd)
  /\ "HUP" \in r[i] /\ "IN" \notin r[i] => c.conns[i].type = "EXTERNAL"
  /\ "IN" \in r[i] /\ c.conns[i].type = "SERVER" => F[c.conns[i].fd].rx # <<>>

PollInv ==
  pc = "polled" =>
    /\ Len(revents) = Len(ctx.conns)
    /\ \A i \in 1 .. Len(ctx.conns) : FlagsOK(ctx, revents, files, i)

(* The rest of the type invariant.                                         *)
RestOK ==
  /\ event \in [type : EventType, origin : Fd \cup {NoFd}]
  /\ pc \in {"app", "polled", "returned", "crashed"}
  /\ revents \in Seq(SUBSET Flags)
  /\ nfiles \in Nat /\ nmsgs \in Nat
  /\ sent \in SUBSET [id : Nat, kind : Kinds, for : Nat, file : Nat]

IInv ==
  Good(ctx, files) /\ FilesOK(files) /\ PollInv /\ RestOK /\ NoMisdelivery

-----------------------------------------------------------------------------
(* The searches of the code.                                               *)

(* ipc_del_fd finds a registered descriptor.                               *)
LEMMA IndexOfFacts ==
  ASSUME NEW c \in Context, NEW f, Registered(c, f)
  PROVE  IndexOf(c, f) \in 1 .. Len(c.conns) /\ c.conns[IndexOf(c, f)].fd = f
<1> DEFINE S == {k \in 1 .. Len(c.conns) : c.conns[k].fd = f}
<1>1. c.conns \in Seq(Connection) /\ Len(c.conns) \in Nat
  BY DEF Context
<1>2. S \in SUBSET Nat /\ S # {}
  BY <1>1 DEF Registered
<1>3. PICK x \in S : \A y \in S : x <= y
  BY <1>2, LeastElement
<1>4. x \in 1 .. Len(c.conns) /\ c.conns[x].fd = f
      /\ \A j \in 1 .. x - 1 : c.conns[j].fd # f
  BY <1>1, <1>3
<1> QED
  BY <1>4 DEF IndexOf

(* ipc_switching_get_ finds a record that has the descriptor.              *)
LEMMA RecordIndexFacts ==
  ASSUME NEW E, NEW db \in Seq(E), NEW f, HasRecord(db, f)
  PROVE  RecordIndex(db, f) \in 1 .. Len(db) /\ f \in Ends(db[RecordIndex(db, f)])
<1> DEFINE S == {k \in 1 .. Len(db) : f \in Ends(db[k])}
<1>1. Len(db) \in Nat
  OBVIOUS
<1>2. S \in SUBSET Nat /\ S # {}
  BY <1>1 DEF HasRecord
<1>3. PICK x \in S : \A y \in S : x <= y
  BY <1>2, LeastElement
<1>4. x \in 1 .. Len(db) /\ f \in Ends(db[x])
      /\ \A j \in 1 .. x - 1 : f \notin Ends(db[j])
  BY <1>1, <1>3
<1> QED
  BY <1>4 DEF RecordIndex

-----------------------------------------------------------------------------
(* The relation between switched descriptors keeps its type.               *)

Record == Switching(Fd, Callback \cup {Null})

(* The record of a descriptor, and its other end.                          *)
LEMMA RecordFacts ==
  ASSUME NEW db \in Seq(Record), NEW f \in Fd, HasRecord(db, f)
  PROVE  /\ ipc_switching_get_(db, f) \in Record
         /\ ipc_switching_get_(db, f).dest \in Fd
         /\ OtherEnd(ipc_switching_get_(db, f), f) \in Fd
<1>1. RecordIndex(db, f) \in 1 .. Len(db)
  BY RecordIndexFacts
<1>2. db[RecordIndex(db, f)] \in Record
  BY <1>1
<1> QED
  BY <1>2 DEF ipc_switching_get_, OtherEnd, Record, Switching

LEMMA SwitchingAddType ==
  ASSUME NEW db \in Seq(Record), NEW f \in Fd, NEW g \in Fd
  PROVE  ipc_switching_add(db, f, g) \in Seq(Record)
BY DEF ipc_switching_add, Record, Switching

LEMMA SwitchingDelType ==
  ASSUME NEW db \in Seq(Record), NEW f
  PROVE  ipc_switching_del(db, f) \in Seq(Record)
<1>1. CASE ~HasRecord(db, f)
  BY <1>1 DEF ipc_switching_del
<1>2. CASE HasRecord(db, f)
  <2> DEFINE n == Len(db)
             i == RecordIndex(db, f)
             new == [db[i] EXCEPT !.orig = db[n].orig, !.dest = db[n].dest]
             res == [k \in 1 .. n - 1 |-> IF k = i THEN new ELSE db[k]]
  <2>1. i \in 1 .. n /\ n \in Nat
    BY <1>2, RecordIndexFacts
  <2>2. n - 1 \in Nat /\ db[i] \in Record /\ db[n] \in Record
        /\ \A k \in 1 .. n - 1 : db[k] \in Record
    BY <2>1
  <2>3. new \in Record
    BY <2>2 DEF Record, Switching
  <2>4. res \in [1 .. n - 1 -> Record]
    BY <2>2, <2>3
  <2>5. res \in Seq(Record)
    BY <2>2, <2>4
  <2> QED
    BY <1>2, <2>5 DEF ipc_switching_del
<1> QED
  BY <1>1, <1>2

LEMMA SwitchingCallbacksType ==
  ASSUME NEW db \in Seq(Record), NEW f,
         NEW cb_in \in Callback \cup {Null}, NEW cb_out \in Callback \cup {Null}
  PROVE  ipc_switching_callbacks(db, f, cb_in, cb_out) \in Seq(Record)
<1>1. CASE ~HasRecord(db, f)
  BY <1>1 DEF ipc_switching_callbacks
<1>2. CASE HasRecord(db, f)
  <2> DEFINE i == RecordIndex(db, f)
             o == [db[i] EXCEPT !.orig_in = cb_in, !.orig_out = cb_out]
             d == [db[i] EXCEPT !.dest_in = cb_in, !.dest_out = cb_out]
  <2>1. i \in 1 .. Len(db) /\ db[i] \in Record
    BY <1>2, RecordIndexFacts
  <2>2. o \in Record /\ d \in Record
    BY <2>1 DEF Record, Switching
  <2>3. [db EXCEPT ![i] = o] \in Seq(Record) /\ [db EXCEPT ![i] = d] \in Seq(Record)
    BY <2>1, <2>2
  <2> QED
    BY <1>2, <2>1, <2>3 DEF ipc_switching_callbacks
<1> QED
  BY <1>1, <1>2

-----------------------------------------------------------------------------
(* What the operations on a context preserve.                              *)

LEMMA ContextFields ==
  ASSUME NEW c \in Context
  PROVE  /\ c.conns \in Seq(Connection) /\ Len(c.conns) \in Nat
         /\ c.tx \in Seq(Message) /\ Len(c.tx) \in Nat
         /\ c.switchdb \in Seq(Record)
         /\ \A i \in 1 .. Len(c.conns) :
              c.conns[i] \in Connection /\ c.conns[i].fd \in Fd \cup {NoFd}
         /\ \A k \in 1 .. Len(c.tx) : c.tx[k] \in Message /\ c.tx[k].fd \in Fd
<1>1. c.conns \in Seq(Connection) /\ c.tx \in Seq(Message) /\ c.switchdb \in Seq(Record)
  BY DEF Context, Record
<1>2. \A k \in 1 .. Len(c.tx) : c.tx[k] \in Message
  BY <1>1
<1>3. \A i \in 1 .. Len(c.conns) : c.conns[i] \in Connection
  BY <1>1
<1>4. \A i \in 1 .. Len(c.conns) : c.conns[i].fd \in Fd \cup {NoFd}
  BY <1>3 DEF Connection
<1>5. \A k \in 1 .. Len(c.tx) : c.tx[k].fd \in Fd
  BY <1>2 DEF Message
<1> QED
  BY <1>1, <1>2, <1>3, <1>4, <1>5

(* switchdb plays no part in it.                                           *)
LEMMA GoodSwitchdb ==
  ASSUME NEW c, NEW F, Good(c, F), NEW db \in Seq(Record)
  PROVE  /\ Good([c EXCEPT !.switchdb = db], F)
         /\ \A f : Registered([c EXCEPT !.switchdb = db], f) <=> Registered(c, f)
<1> DEFINE d == [c EXCEPT !.switchdb = db]
<1>1. c \in Context
  BY DEF Good
<1>2. d.conns = c.conns /\ d.tx = c.tx /\ d \in Context
  BY <1>1 DEF Context, Record
<1> HIDE DEF d
<1>3. \A f : Registered(d, f) <=> Registered(c, f)
  BY <1>2 DEF Registered
<1>4. ConnsOK(d, F)
  BY <1>2 DEF Good, ConnsOK
<1>5. TxOK(d, F)
  BY <1>2, <1>3 DEF Good, TxOK
<1>6. Good(d, F)
  BY <1>2, <1>4, <1>5 DEF Good
<1> QED
  BY <1>3, <1>6 DEF d

(* Files change, but for the connections neither in sort nor in identity:  *)
(* data arrives, a peer leaves, a descriptor without connection is closed. *)
LEMMA GoodFiles ==
  ASSUME NEW c, NEW F, NEW G, Good(c, F),
         \A f \in Fd : Registered(c, f) => G[f].sort = F[f].sort /\ G[f].id = F[f].id
  PROVE  Good(c, G)
<1>1. c \in Context
  BY DEF Good
<1>2. \A i \in 1 .. Len(c.conns) :
        c.conns[i].fd # NoFd => c.conns[i].fd \in Fd /\ Registered(c, c.conns[i].fd)
  BY <1>1, ContextFields DEF Connection, Registered
<1>3. ConnsOK(c, G)
  BY <1>2 DEF Good, ConnsOK
<1>4. TxOK(c, G)
  BY <1>1, ContextFields DEF Good, TxOK
<1> QED
  BY <1>1, <1>3, <1>4 DEF Good

(* Messages leave the list.                                                *)
LEMMA GoodDrop ==
  ASSUME NEW c, NEW F, Good(c, F), NEW t \in Seq(Message),
         \A j \in 1 .. Len(t) : \E k \in 1 .. Len(c.tx) : t[j] = c.tx[k]
  PROVE  /\ Good([c EXCEPT !.tx = t], F)
         /\ \A f : Registered([c EXCEPT !.tx = t], f) <=> Registered(c, f)
<1> DEFINE d == [c EXCEPT !.tx = t]
<1>1. c \in Context
  BY DEF Good
<1>2. d.conns = c.conns /\ d.tx = t /\ d \in Context
  BY <1>1 DEF Context
<1> HIDE DEF d
<1>3. \A f : Registered(d, f) <=> Registered(c, f)
  BY <1>2 DEF Registered
<1>4. ConnsOK(d, F)
  BY <1>2 DEF Good, ConnsOK
<1>5. TxOK(d, F)
  BY <1>2, <1>3 DEF Good, TxOK
<1>6. Good(d, F)
  BY <1>2, <1>4, <1>5 DEF Good
<1> QED
  BY <1>3, <1>6 DEF d

(* ipc_close removes the messages of the descriptor.                       *)
LEMMA GoodClose ==
  ASSUME NEW c, NEW F, Good(c, F), NEW f
  PROVE  /\ Good(ipc_close(c, f), F)
         /\ ipc_close(c, f).conns = c.conns
         /\ ipc_close(c, f).tx = RemoveFor(c.tx, {f})
         /\ \A g : Registered(ipc_close(c, f), g) <=> Registered(c, g)
<1> DEFINE t == RemoveFor(c.tx, {f})
<1>1. c \in Context /\ c.tx \in Seq(Message)
  BY ContextFields DEF Good
<1>a. t \in Seq(Message)
      /\ \A j \in 1 .. Len(t) :
           \E k \in 1 .. Len(c.tx) : t[j] = c.tx[k] /\ c.tx[k].fd \notin {f}
  BY <1>1, RemoveForFacts
<1>2. t \in Seq(Message)
      /\ \A j \in 1 .. Len(t) : \E k \in 1 .. Len(c.tx) : t[j] = c.tx[k]
  BY <1>a, Zenon
<1>3. ipc_close(c, f) = [c EXCEPT !.tx = t]
  BY DEF ipc_close, ipc_remove_messages_for_fd
<1> HIDE DEF t
<1>4. ipc_close(c, f).conns = c.conns /\ ipc_close(c, f).tx = t
  BY <1>1, <1>3 DEF Context
<1>5. /\ Good(ipc_close(c, f), F)
      /\ \A g : Registered(ipc_close(c, f), g) <=> Registered(c, g)
  BY <1>2, <1>3, GoodDrop
<1> QED
  BY <1>4, <1>5 DEF t

(* ipc_messages_del of a message that was found.                           *)
LEMMA GoodMessageDel ==
  ASSUME NEW c, NEW F, Good(c, F), NEW k \in 1 .. Len(c.tx)
  PROVE  /\ Good([c EXCEPT !.tx = ipc_messages_del(c.tx, k)], F)
         /\ \A f : Registered([c EXCEPT !.tx = ipc_messages_del(c.tx, k)], f)
                      <=> Registered(c, f)
<1> DEFINE t == SwapRemove(c.tx, k)
<1>1. c.tx \in Seq(Message) /\ Len(c.tx) \in Nat
  BY ContextFields DEF Good
<1>2. t \in Seq(Message) /\ Len(t) = Len(c.tx) - 1
      /\ \A j \in 1 .. Len(c.tx) - 1 : t[j] = IF j = k THEN c.tx[Len(c.tx)] ELSE c.tx[j]
  BY <1>1, SwapRemoveFacts
<1>3. ipc_messages_del(c.tx, k) = t
  BY DEF ipc_messages_del
<1> HIDE DEF t
<1>4. \A j \in 1 .. Len(t) : \E l \in 1 .. Len(c.tx) : t[j] = c.tx[l]
  BY <1>1, <1>2
<1> QED
  BY <1>2, <1>3, <1>4, GoodDrop

(* Replacing the connections.                                              *)
LEMMA ContextConns ==
  ASSUME NEW c \in Context, NEW q \in Seq(Connection)
  PROVE  /\ [c EXCEPT !.conns = q] \in Context
         /\ [c EXCEPT !.conns = q].conns = q
         /\ [c EXCEPT !.conns = q].tx = c.tx
         /\ [c EXCEPT !.conns = q].switchdb = c.switchdb
BY DEF Context

(* ipc_add of a connection: one without a descriptor, or for a descriptor  *)
(* that was free.                                                          *)
LEMMA GoodAppend ==
  ASSUME NEW c, NEW F, NEW G, Good(c, F),
         NEW new \in Connection, ~new.more_to_read,
         IF new.fd = NoFd
         THEN new.type = "IPC"
         ELSE F[new.fd].sort = "closed" /\ Matches(new.type, G[new.fd].sort),
         \A g \in Fd \ {new.fd} : G[g].sort = F[g].sort /\ G[g].id = F[g].id
  PROVE  Good([c EXCEPT !.conns = Append(c.conns, new)], G)
<1> DEFINE n == Len(c.conns)
           q == Append(c.conns, new)
           d == [c EXCEPT !.conns = q]
<1>1. c \in Context /\ c.conns \in Seq(Connection) /\ n \in Nat
      /\ c.tx \in Seq(Message) /\ ConnsOK(c, F) /\ TxOK(c, F)
  BY ContextFields DEF Good
<1>2. q \in Seq(Connection) /\ Len(q) = n + 1 /\ q[n + 1] = new
      /\ \A i \in 1 .. n : q[i] = c.conns[i]
  BY <1>1
<1> HIDE DEF q
<1>3. d \in Context /\ d.conns = q /\ d.tx = c.tx
  BY <1>1, <1>2, ContextConns
<1> HIDE DEF d
<1>4. \A i \in 1 .. n : c.conns[i].fd \in Fd \cup {NoFd}
  BY <1>1, ContextFields
<1>5. \A i \in 1 .. n : c.conns[i].fd # NoFd => c.conns[i].fd # new.fd
  BY <1>1 DEF ConnsOK, Matches
<1>6. \A i \in 1 .. n + 1 : i \in 1 .. n \/ i = n + 1
  BY <1>1
<1>7. ConnsOK(d, G)
  <2>1. ASSUME NEW i \in 1 .. n + 1, NEW j \in 1 .. n + 1,
               q[i].fd # NoFd, q[i].fd = q[j].fd
        PROVE  i = j
    <3>1. \A a, b \in 1 .. n :
            c.conns[a].fd # NoFd /\ c.conns[a].fd = c.conns[b].fd => a = b
      BY <1>1 DEF ConnsOK
    <3> QED
      BY <1>2, <1>5, <1>6, <2>1, <3>1
  <2>2. ASSUME NEW i \in 1 .. n + 1
        PROVE  /\ IF q[i].fd = NoFd
                  THEN q[i].type = "IPC"
                  ELSE Matches(q[i].type, G[q[i].fd].sort)
               /\ q[i].more_to_read => q[i].type = "SWITCHED"
    <3>1. CASE i = n + 1
      BY <3>1, <1>2
    <3>2. CASE i \in 1 .. n
      <4>1. q[i] = c.conns[i]
        BY <1>2, <3>2
      <4>2. c.conns[i].fd # NoFd => G[c.conns[i].fd].sort = F[c.conns[i].fd].sort
        BY <1>4, <1>5, <3>2
      <4> QED
        BY <1>1, <3>2, <4>1, <4>2 DEF ConnsOK
    <3> QED
      BY <1>6, <3>1, <3>2
  <2> QED
    BY <1>2, <1>3, <2>1, <2>2 DEF ConnsOK
<1>8. TxOK(d, G)
  <2> SUFFICES ASSUME NEW k \in 1 .. Len(c.tx)
               PROVE  Registered(d, c.tx[k].fd) /\ G[c.tx[k].fd].id = c.tx[k].file
    BY <1>3 DEF TxOK
  <2>1. c.tx[k].fd \in Fd /\ Registered(c, c.tx[k].fd) /\ F[c.tx[k].fd].id = c.tx[k].file
    BY <1>1, ContextFields DEF TxOK
  <2>2. PICK i \in 1 .. n : c.conns[i].fd = c.tx[k].fd
    BY <2>1 DEF Registered
  <2>3. q[i].fd = c.tx[k].fd /\ i \in 1 .. Len(q)
    BY <1>1, <1>2, <2>2
  <2>4. c.tx[k].fd # new.fd
    BY <1>5, <2>1, <2>2, FdAssumption
  <2> QED
    BY <1>3, <2>1, <2>3, <2>4 DEF Registered
<1> QED
  BY <1>3, <1>7, <1>8 DEF Good, d, q

(* ipc_add_fd_ of a descriptor that was free.                              *)
LEMMA GoodAdd ==
  ASSUME NEW c, NEW F, NEW G, Good(c, F), NEW f \in Fd, NEW type \in ConnType,
         F[f].sort = "closed", Matches(type, G[f].sort),
         \A g \in Fd \ {f} : G[g].sort = F[g].sort /\ G[g].id = F[g].id
  PROVE  Good(ipc_add_fd_(c, f, type), G)
<1> DEFINE new == [fd |-> f, type |-> type, more_to_read |-> FALSE]
<1>1. new \in Connection /\ new.fd = f /\ new.type = type /\ ~new.more_to_read
  BY DEF Connection
<1>2. ipc_add_fd_(c, f, type) = [c EXCEPT !.conns = Append(c.conns, new)]
  BY DEF ipc_add_fd_
<1> HIDE DEF new
<1> QED
  BY <1>1, <1>2, GoodAppend, FdAssumption

(* The entry without a descriptor that ipc_accept_add leaves when          *)
(* accept(2) fails.                                                        *)
LEMMA GoodPhantom ==
  ASSUME NEW c, NEW F, Good(c, F)
  PROVE  Good(ipc_add_fd_(c, NoFd, "IPC"), F)
<1> DEFINE new == [fd |-> NoFd, type |-> "IPC", more_to_read |-> FALSE]
<1>1. new \in Connection /\ new.fd = NoFd /\ new.type = "IPC" /\ ~new.more_to_read
  BY DEF Connection, ConnType
<1>2. ipc_add_fd_(c, NoFd, "IPC") = [c EXCEPT !.conns = Append(c.conns, new)]
  BY DEF ipc_add_fd_
<1> HIDE DEF new
<1> QED
  BY <1>1, <1>2, GoodAppend

(* ipc_del: the last connection takes the place of the removed one, and    *)
(* the context is freed with the last connection.                          *)
LEMMA GoodDel ==
  ASSUME NEW c, NEW F, Good(c, F), NEW i \in 1 .. Len(c.conns)
  PROVE  /\ Good(ipc_del(c, i), F)
         /\ c.conns[i].fd # NoFd => ~Registered(ipc_del(c, i), c.conns[i].fd)
         /\ \A g : Registered(ipc_del(c, i), g) => Registered(c, g)
         /\ \A g : Registered(c, g) /\ g # c.conns[i].fd => Registered(ipc_del(c, i), g)
         /\ ipc_del(c, i).tx = RemoveFor(c.tx, {c.conns[i].fd})
<1> DEFINE n == Len(c.conns)
           f == c.conns[i].fd
           t == RemoveFor(c.tx, {f})
           d == ipc_del(c, i)
<1>1. c \in Context /\ c.conns \in Seq(Connection) /\ n \in Nat
      /\ c.tx \in Seq(Message) /\ ConnsOK(c, F) /\ TxOK(c, F)
  BY ContextFields DEF Good
<1>2. t \in Seq(Message)
      /\ \A j \in 1 .. Len(t) :
           \E k \in 1 .. Len(c.tx) : t[j] = c.tx[k] /\ c.tx[k].fd \notin {f}
  BY <1>1, RemoveForFacts
<1>3. d = IF n = 1 THEN [c EXCEPT !.tx = t, !.conns = <<>>, !.switchdb = <<>>]
                   ELSE [c EXCEPT !.tx = t, !.conns = SwapRemove(c.conns, i)]
  BY <1>1 DEF ipc_del, ipc_ctx_free, ipc_remove_messages_for_fd, Context
<1> HIDE DEF t, d
<1>4. CASE n = 1
  <2>a. d = [c EXCEPT !.tx = t, !.conns = <<>>, !.switchdb = <<>>]
    BY <1>3, <1>4
  <2>b. <<>> \in Seq(Connection) /\ <<>> \in Seq(Record) /\ t \in Seq(Message)
    BY <1>2
  <2>1. d \in Context /\ d.conns = <<>> /\ d.tx = t
    BY <1>1, <2>a, <2>b DEF Context, Record
  <2>2. \A k \in 1 .. Len(c.tx) : c.tx[k].fd = f
    BY <1>1, <1>4 DEF TxOK, Registered
  <2>3. \A j \in 1 .. Len(t) : FALSE
    BY <1>2, <2>2
  <2>4. \A g : ~Registered(d, g)
    BY <2>1 DEF Registered
  <2>5. ConnsOK(d, F) /\ TxOK(d, F)
    BY <2>1, <2>3 DEF ConnsOK, TxOK
  <2>6. \A g : Registered(c, g) => g = f
    BY <1>4 DEF Registered
  <2> QED
    BY <2>1, <2>4, <2>5, <2>6 DEF Good, d, t
<1>5. CASE n # 1
  <2> DEFINE q == SwapRemove(c.conns, i)
             at(j) == IF j = i THEN n ELSE j
  <2>1. q \in Seq(Connection) /\ Len(q) = n - 1
        /\ \A k \in 1 .. n - 1 : q[k] = IF k = i THEN c.conns[n] ELSE c.conns[k]
    BY <1>1, SwapRemoveFacts, ZenonT(30)
  <2>2. d = [c EXCEPT !.tx = t, !.conns = q]
    BY <1>3, <1>5
  <2> HIDE DEF q
  <2>3. d \in Context /\ d.conns = q /\ d.tx = t
    BY <1>1, <1>2, <2>1, <2>2 DEF Context
  <2>4. \A j \in 1 .. Len(q) : at(j) \in 1 .. n /\ at(j) # i /\ q[j] = c.conns[at(j)]
    BY <1>1, <2>1
  <2>5. \A j, k \in 1 .. Len(q) : at(j) = at(k) => j = k
    BY <1>1, <2>1
  <2>6. \A l \in 1 .. n : l # i => \E j \in 1 .. Len(q) : at(j) = l
    <3> SUFFICES ASSUME NEW l \in 1 .. n, l # i
                 PROVE  \E j \in 1 .. Len(q) : at(j) = l
      OBVIOUS
    <3>1. CASE l = n
      <4>1. i \in 1 .. Len(q) /\ at(i) = l
        BY <1>1, <2>1, <3>1
      <4> QED
        BY <4>1
    <3>2. CASE l # n
      <4>1. l \in 1 .. Len(q) /\ at(l) = l
        BY <1>1, <2>1, <3>2
      <4> QED
        BY <4>1
    <3> QED
      BY <3>1, <3>2
  <2> HIDE DEF at
  <2>7. ConnsOK(d, F)
    <3>1. \A a, b \in 1 .. n :
            c.conns[a].fd # NoFd /\ c.conns[a].fd = c.conns[b].fd => a = b
      BY <1>1 DEF ConnsOK
    <3>2. ASSUME NEW j \in 1 .. Len(q), NEW k \in 1 .. Len(q),
                 q[j].fd # NoFd, q[j].fd = q[k].fd
          PROVE  j = k
      <4>1. at(j) \in 1 .. n /\ at(k) \in 1 .. n
            /\ q[j] = c.conns[at(j)] /\ q[k] = c.conns[at(k)]
        BY <2>4
      <4>2. at(j) = at(k)
        BY <3>1, <3>2, <4>1
      <4> QED
        BY <2>5, <4>2
    <3>3. \A j \in 1 .. Len(q) :
            /\ IF q[j].fd = NoFd THEN q[j].type = "IPC"
                                 ELSE Matches(q[j].type, F[q[j].fd].sort)
            /\ q[j].more_to_read => q[j].type = "SWITCHED"
      BY <1>1, <2>4 DEF ConnsOK
    <3> QED
      BY <2>3, <3>2, <3>3 DEF ConnsOK
  <2>8. ASSUME f # NoFd
        PROVE  ~Registered(d, f)
    <3>1. \A b \in 1 .. n : c.conns[b].fd = f => b = i
      BY <1>1, <2>8 DEF ConnsOK
    <3> QED
      BY <2>3, <2>4, <3>1 DEF Registered
  <2>9. \A g : Registered(d, g) => Registered(c, g)
    BY <2>3, <2>4 DEF Registered
  <2>10. \A g : Registered(c, g) /\ g # f => Registered(d, g)
    <3> SUFFICES ASSUME NEW g, Registered(c, g), g # f
                 PROVE  Registered(d, g)
      OBVIOUS
    <3>1. PICK l \in 1 .. n : c.conns[l].fd = g
      BY DEF Registered
    <3>2. l # i
      BY <3>1
    <3>3. PICK j \in 1 .. Len(q) : at(j) = l
      BY <2>6, <3>2
    <3> QED
      BY <2>3, <2>4, <3>1, <3>3 DEF Registered
  <2>11. TxOK(d, F)
    <3> SUFFICES ASSUME NEW j \in 1 .. Len(t)
                 PROVE  Registered(d, t[j].fd) /\ F[t[j].fd].id = t[j].file
      BY <2>3 DEF TxOK
    <3>1. PICK k \in 1 .. Len(c.tx) : t[j] = c.tx[k] /\ c.tx[k].fd \notin {f}
      BY <1>2
    <3>2. Registered(c, c.tx[k].fd) /\ F[c.tx[k].fd].id = c.tx[k].file
      BY <1>1 DEF TxOK
    <3> QED
      BY <2>10, <3>1, <3>2
  <2> QED
    BY <2>3, <2>7, <2>8, <2>9, <2>10, <2>11 DEF Good, d, t
<1> QED
  BY <1>4, <1>5

(* ipc_del_fd: afterwards the descriptor is not in the context.            *)
LEMMA GoodDelFd ==
  ASSUME NEW c, NEW F, Good(c, F), NEW f \in Fd
  PROVE  /\ Good(ipc_del_fd(c, f), F)
         /\ ~Registered(ipc_del_fd(c, f), f)
         /\ \A g : Registered(ipc_del_fd(c, f), g) => Registered(c, g)
<1>1. CASE ~Registered(c, f)
  BY <1>1 DEF ipc_del_fd
<1>2. CASE Registered(c, f)
  <2> DEFINE i == IndexOf(c, f)
  <2>1. i \in 1 .. Len(c.conns) /\ c.conns[i].fd = f
    BY <1>2, IndexOfFacts DEF Good
  <2>2. ipc_del_fd(c, f) = ipc_del(c, i)
    BY <1>2 DEF ipc_del_fd
  <2> HIDE DEF i
  <2>3. /\ Good(ipc_del(c, i), F)
        /\ c.conns[i].fd # NoFd => ~Registered(ipc_del(c, i), c.conns[i].fd)
        /\ \A g : Registered(ipc_del(c, i), g) => Registered(c, g)
    BY <2>1, GoodDel
  <2> QED
    BY <2>1, <2>2, <2>3, FdAssumption
<1> QED
  BY <1>1, <1>2

(* ipc_write of a message for the file its descriptor names now.           *)
LEMMA GoodWrite ==
  ASSUME NEW c, NEW F, Good(c, F), NEW m \in Message, F[m.fd].id = m.file
  PROVE  Good(ipc_write(c, m), F)
<1>1. CASE ~Registered(c, m.fd)
  BY <1>1 DEF ipc_write
<1>2. CASE Registered(c, m.fd)
  <2> DEFINE copy == [m EXCEPT !.kind = strncpy(m.kind)]
             t == Append(c.tx, copy)
             d == [c EXCEPT !.tx = t]
  <2>1. c \in Context /\ c.tx \in Seq(Message) /\ Len(c.tx) \in Nat
        /\ ConnsOK(c, F) /\ TxOK(c, F)
    BY ContextFields DEF Good
  <2>2. copy \in Message /\ copy.fd = m.fd /\ copy.file = m.file
    BY DEF Message, strncpy, Kinds
  <2>3. ipc_write(c, m) = d
    BY <1>2 DEF ipc_write, ipc_messages_add
  <2> HIDE DEF copy
  <2>4. t \in Seq(Message) /\ Len(t) = Len(c.tx) + 1 /\ t[Len(c.tx) + 1] = copy
        /\ \A k \in 1 .. Len(c.tx) : t[k] = c.tx[k]
    BY <2>1, <2>2
  <2> HIDE DEF t
  <2>5. d \in Context /\ d.conns = c.conns /\ d.tx = t
    BY <2>1, <2>4 DEF Context
  <2> HIDE DEF d
  <2>6. \A g : Registered(d, g) <=> Registered(c, g)
    BY <2>5 DEF Registered
  <2>7. ConnsOK(d, F)
    BY <2>1, <2>5 DEF ConnsOK
  <2>8. \A k \in 1 .. Len(t) : Registered(c, t[k].fd) /\ F[t[k].fd].id = t[k].file
    <3> SUFFICES ASSUME NEW k \in 1 .. Len(t)
                 PROVE  Registered(c, t[k].fd) /\ F[t[k].fd].id = t[k].file
      OBVIOUS
    <3>1. CASE k = Len(c.tx) + 1
      BY <1>2, <2>2, <2>4, <3>1
    <3>2. CASE k # Len(c.tx) + 1
      <4>1. k \in 1 .. Len(c.tx)
        BY <2>1, <2>4, <3>2
      <4> QED
        BY <2>1, <2>4, <4>1 DEF TxOK
    <3> QED
      BY <3>1, <3>2
  <2>9. TxOK(d, F)
    BY <2>5, <2>6, <2>8 DEF TxOK
  <2> QED
    BY <2>3, <2>5, <2>7, <2>9 DEF Good
<1> QED
  BY <1>1, <1>2

(* A request for another read is cleared, or is made for a switched        *)
(* descriptor.                                                             *)
LEMMA GoodMore ==
  ASSUME NEW c, NEW F, Good(c, F), NEW i \in 1 .. Len(c.conns), NEW more \in BOOLEAN,
         more => c.conns[i].type = "SWITCHED"
  PROVE  /\ Good(MoreToRead(c, i, more), F)
         /\ MoreToRead(c, i, more).tx = c.tx
         /\ MoreToRead(c, i, more).switchdb = c.switchdb
         /\ \A g : Registered(MoreToRead(c, i, more), g) <=> Registered(c, g)
<1> DEFINE n == Len(c.conns)
           new == [c.conns[i] EXCEPT !.more_to_read = more]
           q == [c.conns EXCEPT ![i] = new]
           d == [c EXCEPT !.conns = q]
<1>1. c \in Context /\ c.conns \in Seq(Connection) /\ n \in Nat
      /\ ConnsOK(c, F) /\ TxOK(c, F) /\ c.conns[i] \in Connection
  BY ContextFields DEF Good
<1>2. new \in Connection /\ new.fd = c.conns[i].fd /\ new.type = c.conns[i].type
      /\ new.more_to_read = more
  BY <1>1 DEF Connection
<1>3. MoreToRead(c, i, more) = d
  BY <1>1 DEF MoreToRead
<1> HIDE DEF new
<1>4. q \in Seq(Connection) /\ Len(q) = n
      /\ \A j \in 1 .. n : q[j] = IF j = i THEN new ELSE c.conns[j]
  BY <1>1, <1>2
<1> HIDE DEF q
<1>5. d \in Context /\ d.conns = q /\ d.tx = c.tx /\ d.switchdb = c.switchdb
  BY <1>1, <1>4, ContextConns
<1> HIDE DEF d
<1>6. \A j \in 1 .. n : q[j].fd = c.conns[j].fd /\ q[j].type = c.conns[j].type
                         /\ (q[j].more_to_read => q[j].type = "SWITCHED")
  BY <1>1, <1>2, <1>4 DEF ConnsOK
<1>7. ConnsOK(d, F)
  BY <1>1, <1>4, <1>5, <1>6 DEF ConnsOK
<1>8. \A g : Registered(d, g) <=> Registered(c, g)
  BY <1>4, <1>5, <1>6 DEF Registered
<1>9. TxOK(d, F)
  BY <1>1, <1>5, <1>8 DEF TxOK
<1> QED
  BY <1>3, <1>5, <1>7, <1>8, <1>9 DEF Good

-----------------------------------------------------------------------------
(* What happens to the files.                                              *)

Sorts == {"listen", "sock", "ext"}

LEMMA FilesOpen ==
  ASSUME NEW F, FilesOK(F), NEW f \in Fd, NEW id \in Nat,
         NEW sort \in Sorts
  PROVE  /\ FilesOK(OpenFile(F, f, id, sort))
         /\ OpenFile(F, f, id, sort)[f].sort = sort
         /\ OpenFile(F, f, id, sort)[f].rx = <<>>
         /\ \A g \in Fd \ {f} : OpenFile(F, f, id, sort)[g] = F[g]
<1> DEFINE new == [id |-> id, sort |-> sort, rx |-> <<>>, peer |-> "up"]
           G == [F EXCEPT ![f] = new]
<1>1. new \in File(Body) /\ new.sort = sort /\ new.rx = <<>> /\ new.peer = "up"
  BY DEF File, Sorts
<1>2. OpenFile(F, f, id, sort) = G
  BY DEF OpenFile
<1> HIDE DEF new
<1>3. G \in [Fd -> File(Body)] /\ G[f] = new /\ \A g \in Fd \ {f} : G[g] = F[g]
  BY <1>1 DEF FilesOK
<1> HIDE DEF G
<1>4. ASSUME NEW g \in Fd
      PROVE  /\ G[g].sort = "listen" => G[g].peer = "up"
             /\ G[g].sort # "listen" => \A b \in 1 .. Len(G[g].rx) : G[g].rx[b].kind \in Kinds
  <2>1. CASE g = f
    BY <1>1, <1>3, <2>1
  <2>2. CASE g # f
    BY <1>3, <2>2 DEF FilesOK
  <2> QED
    BY <2>1, <2>2
<1>5. FilesOK(G)
  BY <1>3, <1>4 DEF FilesOK
<1> QED
  BY <1>1, <1>2, <1>3, <1>5

LEMMA FilesClose ==
  ASSUME NEW F, FilesOK(F), NEW f \in Fd
  PROVE  /\ FilesOK(CloseFile(F, f))
         /\ \A g \in Fd \ {f} : CloseFile(F, f)[g] = F[g]
<1> DEFINE G == [F EXCEPT ![f] = ClosedFile]
<1>1. ClosedFile \in File(Body) /\ ClosedFile.sort = "closed" /\ ClosedFile.rx = <<>>
  BY DEF File, ClosedFile
<1>2. CloseFile(F, f) = G
  BY DEF CloseFile
<1>3. G \in [Fd -> File(Body)] /\ G[f] = ClosedFile /\ \A g \in Fd \ {f} : G[g] = F[g]
  BY <1>1 DEF FilesOK
<1> HIDE DEF G
<1>4. ASSUME NEW g \in Fd
      PROVE  /\ G[g].sort = "listen" => G[g].peer = "up"
             /\ G[g].sort # "listen" => \A b \in 1 .. Len(G[g].rx) : G[g].rx[b].kind \in Kinds
  <2>1. CASE g = f
    BY <1>1, <1>3, <2>1
  <2>2. CASE g # f
    BY <1>3, <2>2 DEF FilesOK
  <2> QED
    BY <2>1, <2>2
<1>5. FilesOK(G)
  BY <1>3, <1>4 DEF FilesOK
<1> QED
  BY <1>2, <1>3, <1>5

(* What can be read of a file changes: data arrives or is read.            *)
WithRx(F, f, rx) == [F EXCEPT ![f].rx = rx]

LEMMA FilesRead ==
  ASSUME NEW F, FilesOK(F), NEW f \in Fd, NEW rx \in Seq(Body),
         F[f].sort # "listen" => \A b \in 1 .. Len(rx) : rx[b].kind \in Kinds
  PROVE  /\ FilesOK(WithRx(F, f, rx))
         /\ \A g \in Fd : /\ WithRx(F, f, rx)[g].sort = F[g].sort
                           /\ WithRx(F, f, rx)[g].id = F[g].id
                           /\ WithRx(F, f, rx)[g].rx = IF g = f THEN rx ELSE F[g].rx
<1> DEFINE new == [F[f] EXCEPT !.rx = rx]
           G == [F EXCEPT ![f] = new]
<1>1. F[f] \in File(Body)
  BY DEF FilesOK
<1>2. new \in File(Body) /\ new.sort = F[f].sort /\ new.id = F[f].id
      /\ new.rx = rx /\ new.peer = F[f].peer
  BY <1>1 DEF File
<1>3. WithRx(F, f, rx) = G
  BY DEF FilesOK, WithRx
<1> HIDE DEF new
<1>4. G \in [Fd -> File(Body)] /\ G[f] = new /\ \A g \in Fd \ {f} : G[g] = F[g]
  BY <1>2 DEF FilesOK
<1> HIDE DEF G
<1>5. ASSUME NEW g \in Fd
      PROVE  /\ G[g].sort = "listen" => G[g].peer = "up"
             /\ G[g].sort # "listen" => \A b \in 1 .. Len(G[g].rx) : G[g].rx[b].kind \in Kinds
             /\ G[g].sort = F[g].sort /\ G[g].id = F[g].id
             /\ G[g].rx = IF g = f THEN rx ELSE F[g].rx
  <2>1. CASE g = f
    BY <1>2, <1>4, <2>1 DEF FilesOK
  <2>2. CASE g # f
    BY <1>4, <2>2 DEF FilesOK
  <2> QED
    BY <2>1, <2>2
<1>6. FilesOK(G)
  BY <1>4, <1>5 DEF FilesOK
<1> QED
  BY <1>3, <1>5, <1>6

(* A peer leaves.                                                          *)
WithPeer(F, f, how) == [F EXCEPT ![f].peer = how]

LEMMA FilesPeer ==
  ASSUME NEW F, FilesOK(F), NEW f \in Fd, F[f].sort # "listen",
         NEW how \in {"gone", "reset"}
  PROVE  /\ FilesOK(WithPeer(F, f, how))
         /\ \A g \in Fd : /\ WithPeer(F, f, how)[g].sort = F[g].sort
                           /\ WithPeer(F, f, how)[g].id = F[g].id
                           /\ WithPeer(F, f, how)[g].rx = F[g].rx
<1> DEFINE new == [F[f] EXCEPT !.peer = how]
           G == [F EXCEPT ![f] = new]
<1>1. F[f] \in File(Body)
  BY DEF FilesOK
<1>2. new \in File(Body) /\ new.sort = F[f].sort /\ new.id = F[f].id /\ new.rx = F[f].rx
  BY <1>1 DEF File
<1>3. WithPeer(F, f, how) = G
  BY DEF FilesOK, WithPeer
<1> HIDE DEF new
<1>4. G \in [Fd -> File(Body)] /\ G[f] = new /\ \A g \in Fd \ {f} : G[g] = F[g]
  BY <1>2 DEF FilesOK
<1> HIDE DEF G
<1>5. ASSUME NEW g \in Fd
      PROVE  /\ G[g].sort = "listen" => G[g].peer = "up"
             /\ G[g].sort # "listen" => \A b \in 1 .. Len(G[g].rx) : G[g].rx[b].kind \in Kinds
             /\ G[g].sort = F[g].sort /\ G[g].id = F[g].id /\ G[g].rx = F[g].rx
  <2>1. CASE g = f
    BY <1>2, <1>4, <2>1 DEF FilesOK
  <2>2. CASE g # f
    BY <1>4, <2>2 DEF FilesOK
  <2> QED
    BY <2>1, <2>2
<1>6. FilesOK(G)
  BY <1>4, <1>5 DEF FilesOK
<1> QED
  BY <1>3, <1>5, <1>6

-----------------------------------------------------------------------------
(* The invariant holds at first, and every action preserves it.            *)

LEMMA InitInv == Init => IInv
<1> SUFFICES ASSUME Init PROVE IInv
  OBVIOUS
<1>1. ctx \in Context /\ ctx.conns = <<>> /\ ctx.tx = <<>>
  <2>1. <<>> \in Seq(Connection) /\ <<>> \in Seq(Message) /\ <<>> \in Seq(Record)
    OBVIOUS
  <2> QED
    BY <2>1 DEF Init, EmptyContext, Context, Record
<1>2. Good(ctx, files)
  BY <1>1 DEF Good, ConnsOK, TxOK
<1>3. ClosedFile \in File(Body) /\ ClosedFile.sort = "closed" /\ ClosedFile.rx = <<>>
  BY DEF File, ClosedFile
<1>4. FilesOK(files)
  BY <1>3 DEF Init, FilesOK
<1>5. PollInv /\ NoMisdelivery
  BY DEF Init, PollInv, NoMisdelivery
<1>6. RestOK
  BY DEF Init, RestOK, IPC_EVENT_CLEAN, EventType
<1> QED
  BY <1>2, <1>4, <1>5, <1>6 DEF IInv

(* ipc_server_init, ipc_connection and ipc_add_fd.                         *)
LEMMA OpenStep ==
  ASSUME IInv, pc = "app", NEW f \in Free(files), NEW type \in ConnType,
         NEW sort \in Sorts, Matches(type, sort),
         ctx' = ipc_add_fd_(ctx, f, type), files' = OpenFile(files, f, Fresh, sort),
         nfiles' = Fresh, UNCHANGED <<event, pc, revents, nmsgs, sent>>
  PROVE  IInv'
<1>1. Good(ctx, files) /\ FilesOK(files) /\ RestOK /\ NoMisdelivery
  BY DEF IInv
<1>2. f \in Fd /\ files[f].sort = "closed"
  BY <1>1 DEF Free, FilesOK, IsOpen
<1>3. Fresh \in Nat
  BY <1>1 DEF Fresh, RestOK
<1>4. FilesOK(files') /\ files'[f].sort = sort /\ \A g \in Fd \ {f} : files'[g] = files[g]
  BY <1>1, <1>2, <1>3, FilesOpen
<1>5. Good(ctx', files')
  BY <1>1, <1>2, <1>4, GoodAdd
<1>6. RestOK' /\ PollInv' /\ NoMisdelivery'
  BY <1>1, <1>3 DEF RestOK, PollInv, NoMisdelivery
<1> QED
  BY <1>4, <1>5, <1>6 DEF IInv

LEMMA OpenSteps ==
  ASSUME IInv, NEW f \in Fd, ServerInit(f) \/ Connect(f) \/ AddFd(f)
  PROVE  IInv'
<1>1. CASE ServerInit(f)
  BY <1>1, OpenStep DEF ServerInit, May, Matches, ConnType, Sorts
<1>2. CASE Connect(f)
  BY <1>2, OpenStep DEF Connect, May, Matches, ConnType, Sorts
<1>3. CASE AddFd(f)
  BY <1>3, OpenStep DEF AddFd, May, Matches, ConnType, Sorts
<1> QED
  BY <1>1, <1>2, <1>3

(* ipc_connection_switched: the two descriptors are added one by one.      *)
LEMMA ConnectSwitchedStep ==
  ASSUME IInv, NEW c \in Fd, NEW s \in Fd, ConnectSwitched(c, s)
  PROVE  IInv'
<1> DEFINE F1 == OpenFile(files, c, Fresh, "sock")
           c1 == ipc_add_fd_(ctx, s, "SWITCHED")
           c2 == ipc_add_fd_(c1, c, "SWITCHED")
           G == OpenFile(files, s, Fresh + 1, "sock")
<1>1. Good(ctx, files) /\ FilesOK(files) /\ RestOK /\ NoMisdelivery
  BY DEF IInv
<1>2. c \in Fd /\ s \in Fd /\ c # s /\ files[c].sort = "closed" /\ files[s].sort = "closed"
  BY <1>1 DEF ConnectSwitched, Free, IsOpen
<1>3. Fresh \in Nat /\ Fresh + 1 \in Nat /\ nfiles + 2 \in Nat /\ "sock" \in Sorts
  BY <1>1 DEF Fresh, RestOK, Sorts
<1>4. files' = OpenFile(F1, s, Fresh + 1, "sock")
      /\ ctx' = ipc_ctx_switching_add(c2, c, s)
  BY DEF ConnectSwitched
<1>5. FilesOK(F1) /\ F1[c].sort = "sock" /\ \A g \in Fd \ {c} : F1[g] = files[g]
  <2>1. FilesOK(files) /\ Fresh \in Nat /\ "sock" \in Sorts
    BY <1>1, <1>3
  <2> QED
    BY <2>1, FilesOpen
<1>6. FilesOK(G) /\ G[s].sort = "sock" /\ \A g \in Fd \ {s} : G[g] = files[g]
  BY <1>1, <1>2, <1>3, FilesOpen
<1> HIDE DEF F1
<1>7. FilesOK(files') /\ files'[s].sort = "sock" /\ \A g \in Fd \ {s} : files'[g] = F1[g]
  BY <1>2, <1>3, <1>4, <1>5, FilesOpen, SMTT(30)
<1>8. G[s] = files'[s]
  BY <1>1, <1>2, <1>4, <1>5 DEF OpenFile, FilesOK
<1>9. Good(c1, G)
  <2>1. Matches("SWITCHED", "sock") /\ "SWITCHED" \in ConnType
    BY DEF Matches, ConnType
  <2> QED
    BY <1>1, <1>2, <1>6, <2>1, GoodAdd
<1> HIDE DEF c1, G
<1>10. Good(c2, files')
  <2>1. Matches("SWITCHED", files'[c].sort) /\ "SWITCHED" \in ConnType
    BY <1>2, <1>5, <1>7 DEF Matches, ConnType
  <2>2. G[c].sort = "closed"
    BY <1>2, <1>6
  <2>3. \A g \in Fd \ {c} : files'[g] = G[g]
    BY <1>2, <1>5, <1>6, <1>7, <1>8
  <2> QED
    BY <1>2, <1>9, <2>1, <2>2, <2>3, GoodAdd
<1> HIDE DEF c2
<1>11. Good(ctx', files')
  <2>1. c2 \in Context /\ c2.switchdb \in Seq(Record)
    BY <1>10, ContextFields DEF Good
  <2>2. ipc_switching_add(c2.switchdb, c, s) \in Seq(Record)
    BY <1>2, <2>1, SwitchingAddType
  <2> QED
    BY <1>4, <1>10, <2>2, GoodSwitchdb DEF ipc_ctx_switching_add
<1>12. RestOK' /\ PollInv' /\ NoMisdelivery'
  BY <1>1, <1>3 DEF RestOK, PollInv, NoMisdelivery, ConnectSwitched, May
<1> QED
  BY <1>7, <1>11, <1>12 DEF IInv

(* ipc_switching_callbacks.                                                *)
LEMMA CallbacksStep ==
  ASSUME IInv, NEW f \in Fd, NEW cb \in Callback, SetCallbacks(f, cb) \/ SetCallbackIn(f, cb)
  PROVE  IInv'
<1>1. Good(ctx, files) /\ FilesOK(files) /\ RestOK /\ NoMisdelivery
  BY DEF IInv
<1>2. PICK out \in Callback \cup {Null} :
        ctx' = [ctx EXCEPT !.switchdb = ipc_switching_callbacks(@, f, cb, out)]
  BY DEF SetCallbacks, SetCallbackIn
<1>3. UNCHANGED <<event, pc, revents, files, nfiles, nmsgs, sent>> /\ pc = "app"
  BY DEF SetCallbacks, SetCallbackIn, May
<1> DEFINE db == ipc_switching_callbacks(ctx.switchdb, f, cb, out)
<1>4. db \in Seq(Record)
  BY <1>1, ContextFields, SwitchingCallbacksType DEF Good
<1>5. ctx' = [ctx EXCEPT !.switchdb = db]
  BY <1>2
<1> HIDE DEF db
<1>6. Good(ctx', files')
  BY <1>1, <1>3, <1>4, <1>5, GoodSwitchdb
<1>7. RestOK' /\ PollInv' /\ NoMisdelivery' /\ FilesOK(files')
  BY <1>1, <1>3 DEF RestOK, PollInv, NoMisdelivery
<1> QED
  BY <1>6, <1>7 DEF IInv

(* ipc_write.                                                              *)
LEMMA WriteStep ==
  ASSUME IInv, NEW f \in Fd, NEW kind \in Payload, Write(f, kind)
  PROVE  IInv'
<1> DEFINE m == [fd |-> f, file |-> files[f].id, id |-> nmsgs + 1, kind |-> kind]
<1>1. Good(ctx, files) /\ FilesOK(files) /\ RestOK /\ NoMisdelivery
  BY DEF IInv
<1>2. kind \in Kinds /\ nmsgs + 1 \in Nat /\ files[f].id \in Nat
  BY <1>1, PayloadAssumption DEF Kinds, RestOK, FilesOK, File
<1>3. m \in Message /\ files[m.fd].id = m.file
  BY <1>2 DEF Message
<1>4. ctx' = ipc_write(ctx, m) /\ files' = files /\ nmsgs' = nmsgs + 1
      /\ UNCHANGED <<event, pc, revents, nfiles, sent>> /\ pc = "app"
  BY DEF Write, May
<1> HIDE DEF m
<1>5. Good(ctx', files')
  BY <1>1, <1>3, <1>4, GoodWrite
<1>6. RestOK' /\ PollInv' /\ NoMisdelivery' /\ FilesOK(files')
  BY <1>1, <1>2, <1>4 DEF RestOK, PollInv, NoMisdelivery
<1> QED
  BY <1>5, <1>6 DEF IInv

(* close(2) of a descriptor that is not in the context.                    *)
LEMMA CloseUnregistered ==
  ASSUME NEW c, NEW F, Good(c, F), FilesOK(F), NEW f \in Fd, ~Registered(c, f)
  PROVE  Good(c, CloseFile(F, f)) /\ FilesOK(CloseFile(F, f))
<1>1. FilesOK(CloseFile(F, f)) /\ \A g \in Fd \ {f} : CloseFile(F, f)[g] = F[g]
  BY FilesClose
<1>2. \A g \in Fd : Registered(c, g) => CloseFile(F, f)[g] = F[g]
  BY <1>1
<1> QED
  BY <1>1, <1>2, GoodFiles

(* ipc_close and ipc_del of one connection.                                *)
LEMMA EndConnection ==
  ASSUME NEW c, NEW F, Good(c, F), FilesOK(F), NEW i \in 1 .. Len(c.conns),
         c.conns[i].fd # NoFd
  PROVE  /\ Good(ipc_del(ipc_close(c, c.conns[i].fd), i), CloseFile(F, c.conns[i].fd))
         /\ FilesOK(CloseFile(F, c.conns[i].fd))
<1> DEFINE f == c.conns[i].fd
           d == ipc_close(c, f)
<1>1. f \in Fd
  BY ContextFields DEF Good
<1>2. Good(d, F) /\ d.conns = c.conns
  BY GoodClose
<1> HIDE DEF d
<1>3. Good(ipc_del(d, i), F) /\ ~Registered(ipc_del(d, i), f)
  BY <1>2, GoodDel
<1>4. Good(ipc_del(d, i), CloseFile(F, f)) /\ FilesOK(CloseFile(F, f))
  BY <1>1, <1>3, CloseUnregistered
<1> QED
  BY <1>4 DEF d

(* Both ends of a switching leave the context, and are closed.             *)
LEMMA EndPair ==
  ASSUME NEW c, NEW F, Good(c, F), FilesOK(F), NEW f \in Fd, NEW g \in Fd
  PROVE  /\ Good(ipc_del_fd(ipc_del_fd(c, g), f), F)
         /\ Good(ipc_del_fd(ipc_del_fd(c, g), f), CloseFile(CloseFile(F, g), f))
         /\ FilesOK(CloseFile(CloseFile(F, g), f))
<1> DEFINE d == ipc_del_fd(c, g)
           e == ipc_del_fd(d, f)
           G == CloseFile(F, g)
<1>1. Good(d, F) /\ ~Registered(d, g)
  BY GoodDelFd
<1> HIDE DEF d
<1>2. Good(e, F) /\ ~Registered(e, f) /\ ~Registered(e, g)
  BY <1>1, GoodDelFd
<1> HIDE DEF e
<1>3. Good(e, G) /\ FilesOK(G)
  BY <1>2, CloseUnregistered
<1> HIDE DEF G
<1>4. Good(e, CloseFile(G, f)) /\ FilesOK(CloseFile(G, f))
  BY <1>2, <1>3, CloseUnregistered
<1> QED
  BY <1>2, <1>4 DEF d, e, G

(* ipc_switching_del.                                                      *)
LEMMA GoodSwitchingDel ==
  ASSUME NEW c, NEW F, Good(c, F), NEW f
  PROVE  Good(ipc_ctx_switching_del(c, f), F)
<1>1. ipc_switching_del(c.switchdb, f) \in Seq(Record)
  BY ContextFields, SwitchingDelType DEF Good
<1> QED
  BY <1>1, GoodSwitchdb DEF ipc_ctx_switching_del

LEMMA CloseConnectionStep ==
  ASSUME IInv, NEW i \in 1 .. Len(ctx.conns), CloseConnection(i)
  PROVE  IInv'
<1>1. Good(ctx, files) /\ FilesOK(files) /\ RestOK /\ NoMisdelivery
  BY DEF IInv
<1>2. ctx.conns[i].fd # NoFd
      /\ ctx' = ipc_del(ipc_close(ctx, ctx.conns[i].fd), i)
      /\ files' = CloseFile(files, ctx.conns[i].fd)
      /\ UNCHANGED <<event, pc, revents, nfiles, nmsgs, sent>> /\ pc = "app"
  BY DEF CloseConnection, May
<1>3. Good(ctx', files') /\ FilesOK(files')
  BY <1>1, <1>2, EndConnection
<1>4. RestOK' /\ PollInv' /\ NoMisdelivery'
  BY <1>1, <1>2 DEF RestOK, PollInv, NoMisdelivery
<1> QED
  BY <1>3, <1>4 DEF IInv

LEMMA DisconnectionStep ==
  ASSUME IInv, NEW f \in Fd, handle_disconnection(f)
  PROVE  IInv'
<1> DEFINE other == OtherEnd(ipc_switching_get_(ctx.switchdb, f), f)
           c == ipc_ctx_switching_del(ctx, f)
<1>1. Good(ctx, files) /\ FilesOK(files) /\ RestOK /\ NoMisdelivery
  BY DEF IInv
<1>2. HasRecord(ctx.switchdb, f)
      /\ ctx' = ipc_del_fd(ipc_del_fd(c, other), f)
      /\ files' = CloseFile(CloseFile(files, other), f)
      /\ UNCHANGED <<event, pc, revents, nfiles, nmsgs, sent>> /\ pc = "app"
  BY DEF handle_disconnection, May
<1>3. other \in Fd
  BY <1>1, <1>2, ContextFields, RecordFacts DEF Good
<1>4. Good(c, files)
  BY <1>1, GoodSwitchingDel
<1> HIDE DEF other, c
<1>5. Good(ctx', files') /\ FilesOK(files')
  BY <1>1, <1>2, <1>3, <1>4, EndPair
<1>6. RestOK' /\ PollInv' /\ NoMisdelivery'
  BY <1>1, <1>2 DEF RestOK, PollInv, NoMisdelivery
<1> QED
  BY <1>5, <1>6 DEF IInv

LEMMA CloseForgottenStep ==
  ASSUME IInv, NEW f \in Fd, CloseForgotten(f)
  PROVE  IInv'
<1>1. Good(ctx, files) /\ FilesOK(files) /\ RestOK /\ NoMisdelivery
  BY DEF IInv
<1>2. ~Registered(ctx, f) /\ files' = CloseFile(files, f)
      /\ UNCHANGED <<ctx, event, pc, revents, nfiles, nmsgs, sent>> /\ pc = "app"
  BY DEF CloseForgotten, May
<1>3. Good(ctx', files') /\ FilesOK(files')
  BY <1>1, <1>2, CloseUnregistered
<1>4. RestOK' /\ PollInv' /\ NoMisdelivery'
  BY <1>1, <1>2 DEF RestOK, PollInv, NoMisdelivery
<1> QED
  BY <1>3, <1>4 DEF IInv

(* ipc_close_all then ipc_ctx_free: every message was for a connection, so *)
(* the list is empty when its array is freed.                              *)
LEMMA ShutdownStep == ASSUME IInv, Shutdown PROVE IInv'
<1> DEFINE S == {ctx.conns[i].fd : i \in 1 .. Len(ctx.conns)}
           t == RemoveFor(ctx.tx, S)
<1>1. Good(ctx, files) /\ FilesOK(files) /\ RestOK /\ NoMisdelivery
  BY DEF IInv
<1>2. ctx \in Context /\ ctx.tx \in Seq(Message) /\ TxOK(ctx, files)
  BY <1>1, ContextFields DEF Good
<1>3. t \in Seq(Message)
      /\ \A j \in 1 .. Len(t) :
           \E k \in 1 .. Len(ctx.tx) : t[j] = ctx.tx[k] /\ ctx.tx[k].fd \notin S
  BY <1>2, RemoveForFacts
<1>4. \A k \in 1 .. Len(ctx.tx) : ctx.tx[k].fd \in S
  BY <1>2 DEF TxOK, Registered
<1>5. \A j \in 1 .. Len(t) : FALSE
  BY <1>3, <1>4
<1>6. ctx' = [ctx EXCEPT !.tx = t, !.conns = <<>>, !.switchdb = <<>>]
  BY <1>2 DEF Shutdown, ipc_ctx_free, ipc_close_all, Context
<1>7. UNCHANGED <<event, pc, revents, nfiles, nmsgs, sent>> /\ pc = "app"
      /\ files' = [f \in Fd |-> IF Registered(ctx, f) /\ ~HasType(ctx, f, "EXTERNAL")
                                THEN ClosedFile ELSE files[f]]
  BY DEF Shutdown, May
<1> HIDE DEF t
<1>8. ctx' \in Context /\ ctx'.conns = <<>> /\ ctx'.tx = t
  <2>1. <<>> \in Seq(Connection) /\ <<>> \in Seq(Record)
    OBVIOUS
  <2> QED
    BY <1>2, <1>3, <1>6, <2>1 DEF Context, Record
<1>9. Good(ctx', files')
  BY <1>5, <1>8 DEF Good, ConnsOK, TxOK
<1>10. FilesOK(files')
  <2>1. ClosedFile \in File(Body) /\ ClosedFile.sort = "closed" /\ ClosedFile.rx = <<>>
    BY DEF File, ClosedFile
  <2>2. \A f \in Fd : files'[f] = ClosedFile \/ files'[f] = files[f]
    BY <1>7
  <2>3. files' \in [Fd -> File(Body)]
    BY <1>1, <1>7, <2>1 DEF FilesOK
  <2> QED
    BY <1>1, <2>1, <2>2, <2>3 DEF FilesOK
<1>11. RestOK' /\ PollInv' /\ NoMisdelivery'
  BY <1>1, <1>7 DEF RestOK, PollInv, NoMisdelivery
<1> QED
  BY <1>9, <1>10, <1>11 DEF IInv

-----------------------------------------------------------------------------
(* ipc_wait_event.                                                         *)

LEMMA PollReadyStep == ASSUME IInv, PollReady PROVE IInv'
<1>1. Good(ctx, files) /\ FilesOK(files) /\ RestOK /\ NoMisdelivery
  BY DEF IInv
<1>2. ctx' = ctx /\ files' = files /\ revents' = Reported /\ event' = IPC_EVENT_CLEAN
      /\ pc' = "polled" /\ UNCHANGED <<nfiles, nmsgs, sent>>
  BY DEF PollReady
<1> DEFINE n == Len(ctx.conns)
           r == Reported
<1>3. n \in Nat /\ ctx.conns \in Seq(Connection)
  BY <1>1, ContextFields DEF Good
<1>4. ASSUME NEW i \in 1 .. n
      PROVE  r[i] \in SUBSET Flags /\ FlagsOK(ctx, r, files, i)
  <2> DEFINE f == ctx.conns[i].fd
  <2>1. CASE f = NoFd
    <3>1. r[i] = {}
      BY <2>1 DEF Reported
    <3> QED
      BY <2>1, <3>1 DEF FlagsOK
  <2>2. CASE f # NoFd
    <3>1. r[i] = Poll(files[f], HasMessage(ctx.tx, f))
      BY <2>2 DEF Reported
    <3>2. f \in Fd /\ Matches(ctx.conns[i].type, files[f].sort)
      BY <1>1, <2>2, ContextFields DEF Good, ConnsOK
    <3>3. files[f].sort = "listen" => files[f].peer = "up"
      BY <1>1, <3>2 DEF FilesOK
    <3> HIDE DEF r, f
    <3>4. r[i] \in SUBSET Flags
      BY <3>1 DEF Poll
    <3>5. "OUT" \in r[i] => HasMessage(ctx.tx, f)
      BY <3>1 DEF Poll
    <3>6. "HUP" \in r[i] /\ "IN" \notin r[i] => ctx.conns[i].type = "EXTERNAL"
      BY <3>1, <3>2, <3>3 DEF Poll, Flags, Matches
    <3>7. "IN" \in r[i] /\ ctx.conns[i].type = "SERVER" => files[f].rx # <<>>
      BY <3>1, <3>2 DEF Poll, Flags, Matches
    <3> QED
      BY <2>2, <3>4, <3>5, <3>6, <3>7 DEF FlagsOK, f
  <2> QED
    BY <2>1, <2>2
<1>5. r \in Seq(SUBSET Flags) /\ Len(r) = n
  <2>1. r = [i \in 1 .. n |-> r[i]]
    BY DEF Reported
  <2> HIDE DEF r
  <2>2. r \in [1 .. n -> SUBSET Flags]
    BY <1>4, <2>1
  <2> QED
    BY <1>3, <2>2
<1> HIDE DEF r
<1>6. PollInv'
  BY <1>2, <1>4, <1>5 DEF PollInv, FlagsOK, r
<1>7. RestOK'
  BY <1>1, <1>2, <1>5 DEF RestOK, IPC_EVENT_CLEAN, EventType, r
<1>8. Good(ctx', files') /\ FilesOK(files') /\ NoMisdelivery'
  BY <1>1, <1>2 DEF NoMisdelivery
<1> QED
  BY <1>6, <1>7, <1>8 DEF IInv

LEMMA PollTimeoutStep == ASSUME IInv, PollTimeout PROVE IInv'
<1>1. Good(ctx, files) /\ FilesOK(files) /\ RestOK /\ NoMisdelivery
  BY DEF IInv
<1>2. ctx' = ctx /\ files' = files
      /\ pc' = "returned" /\ UNCHANGED <<revents, nfiles, nmsgs, sent>>
  BY DEF PollTimeout
<1>3. LastOrigin \in Fd \cup {NoFd}
  <2>1. ctx.conns \in Seq(Connection)
    BY <1>1 DEF Good, Context
  <2>2. PICK q \in Seq(Connection) : q = ctx.conns
    BY <2>1
  <2>3. q # <<>> => q[Len(q)] \in Connection
    OBVIOUS
  <2> QED
    BY <2>2, <2>3 DEF LastOrigin, Connection
<1>4. event' \in [type : EventType, origin : Fd \cup {NoFd}]
  BY <1>3 DEF PollTimeout, IPC_EVENT_SET, EventType
<1>5. RestOK'
  BY <1>1, <1>2, <1>4 DEF RestOK
<1>6. PollInv' /\ NoMisdelivery' /\ Good(ctx', files') /\ FilesOK(files')
  BY <1>1, <1>2 DEF PollInv, NoMisdelivery
<1> QED
  BY <1>5, <1>6 DEF IInv

(* What is known of the connection that is served.                         *)
LEMMA FirstFacts ==
  ASSUME IInv, NEW i \in 1 .. Len(ctx.conns), First(i)
  PROVE  /\ Good(ctx, files) /\ FilesOK(files) /\ RestOK /\ NoMisdelivery
         /\ ctx.conns[i].fd \in Fd
         /\ Matches(ctx.conns[i].type, files[ctx.conns[i].fd].sort)
         /\ ctx.conns[i].more_to_read => ctx.conns[i].type = "SWITCHED"
         /\ FlagsOK(ctx, revents, files, i)
<1>1. Good(ctx, files) /\ FilesOK(files) /\ RestOK /\ NoMisdelivery
  BY DEF IInv
<1>2. FlagsOK(ctx, revents, files, i) /\ (revents[i] # {} \/ ctx.conns[i].more_to_read)
  BY DEF IInv, PollInv, First, Ready
<1>3. ctx.conns[i].fd # NoFd
  BY <1>1, <1>2 DEF FlagsOK, Good, ConnsOK
<1>4. ctx.conns[i].fd \in Fd
  BY <1>1, <1>3, ContextFields DEF Good
<1>5. Matches(ctx.conns[i].type, files[ctx.conns[i].fd].sort)
      /\ (ctx.conns[i].more_to_read => ctx.conns[i].type = "SWITCHED")
  BY <1>1, <1>3 DEF Good, ConnsOK
<1> QED
  BY <1>1, <1>2, <1>4, <1>5

Deliveries == [id : Nat, kind : Kinds, for : Nat, file : Nat]

(* ipc_wait_event returns.                                                 *)
LEMMA ReturnStep ==
  ASSUME IInv, NEW type \in EventType, NEW f \in Fd \cup {NoFd},
         Return(IPC_EVENT_SET(type, f)), UNCHANGED <<nfiles, nmsgs>>,
         sent' \in SUBSET Deliveries, \A d \in sent' : d.file = d.for,
         Good(ctx', files'), FilesOK(files')
  PROVE  IInv'
<1>1. event' \in [type : EventType, origin : Fd \cup {NoFd}] /\ pc' = "returned"
      /\ revents' \in Seq(SUBSET Flags)
  BY DEF Return, IPC_EVENT_SET
<1>2. RestOK'
  BY <1>1 DEF IInv, RestOK, Deliveries
<1>3. PollInv' /\ NoMisdelivery'
  BY <1>1 DEF PollInv, NoMisdelivery
<1> QED
  BY <1>2, <1>3 DEF IInv

(* The same, when nothing was sent.                                        *)
LEMMA ReturnQuiet ==
  ASSUME IInv, NEW type \in EventType, NEW f \in Fd \cup {NoFd},
         Return(IPC_EVENT_SET(type, f)), UNCHANGED <<nfiles, nmsgs, sent>>,
         Good(ctx', files'), FilesOK(files')
  PROVE  IInv'
<1>1. sent' \in SUBSET Deliveries /\ \A d \in sent' : d.file = d.for
  BY DEF IInv, RestOK, NoMisdelivery, Deliveries
<1> QED
  BY <1>1, ReturnStep

LEMMA TailFacts ==
  ASSUME NEW E, NEW s \in Seq(E), s # <<>>
  PROVE  /\ s[1] \in E /\ 1 \in 1 .. Len(s)
         /\ Tail(s) \in Seq(E)
         /\ \A b \in 1 .. Len(Tail(s)) : b + 1 \in 1 .. Len(s) /\ Tail(s)[b] = s[b + 1]
OBVIOUS

(* ipc_accept_add.                                                         *)
LEMMA AcceptStep ==
  ASSUME IInv, NEW i \in 1 .. Len(ctx.conns), ipc_accept_add(i)
  PROVE  IInv'
<1> DEFINE s == ctx.conns[i].fd
<1>1. First(i) /\ ctx.conns[i].type = "SERVER"
      /\ ("IN" \in revents[i] \/ ctx.conns[i].more_to_read)
      /\ UNCHANGED <<nfiles, nmsgs, sent>>
  BY DEF ipc_accept_add, FirstIn
<1>2. Good(ctx, files) /\ FilesOK(files) /\ s \in Fd /\ files[s].sort = "listen"
      /\ files[s].rx # <<>>
  BY <1>1, FirstFacts DEF Matches, FlagsOK
<1>3. CASE Free(files) = {} /\ ctx' = ipc_add_fd_(ctx, NoFd, "IPC")
           /\ Return(IPC_EVENT_SET("NOT_SET", s)) /\ UNCHANGED files
  <2>1. Good(ctx', files') /\ FilesOK(files') /\ "NOT_SET" \in EventType
    BY <1>2, <1>3, GoodPhantom DEF EventType
  <2> QED
    BY <1>1, <1>2, <1>3, <2>1, ReturnQuiet
<1>4. ASSUME NEW f \in Free(files), ctx' = ipc_add_fd_(ctx, f, "IPC"),
             files' = [OpenFile(files, f, files[s].rx[1].id, "sock") EXCEPT ![s].rx = Tail(@)],
             Return(IPC_EVENT_SET("CONNECTION", f))
      PROVE  IInv'
  <2> DEFINE id == files[s].rx[1].id
             rest == Tail(files[s].rx)
             G == OpenFile(files, f, id, "sock")
  <2>1. f \in Fd /\ files[f].sort = "closed" /\ f # s
    BY <1>2 DEF Free, IsOpen, FilesOK
  <2>2. files[s] \in File(Body)
    BY <1>2 DEF FilesOK
  <2>3. files[s].rx \in Seq(Body)
    BY <2>2 DEF File
  <2>4. files[s].rx[1] \in Body /\ Tail(files[s].rx) \in Seq(Body)
    BY <1>2, <2>3, TailFacts
  <2>5. id \in Nat /\ "sock" \in Sorts
    BY <2>4 DEF Body, Sorts
  <2> HIDE DEF id
  <2>6. FilesOK(G) /\ G[f].sort = "sock" /\ \A g \in Fd \ {f} : G[g] = files[g]
    BY <1>2, <2>1, <2>5, FilesOpen
  <2>7. files' = WithRx(G, s, rest)
    BY <1>2, <1>4, <2>1, <2>6 DEF id, FilesOK, WithRx
  <2> HIDE DEF G
  <2>8. G[s].sort = "listen" /\ rest \in Seq(Body) /\ s \in Fd /\ FilesOK(G)
    BY <1>2, <2>1, <2>4, <2>6
  <2> HIDE DEF rest
  <2>9. FilesOK(files')
        /\ \A g \in Fd : files'[g].sort = G[g].sort /\ files'[g].id = G[g].id
    BY <2>7, <2>8, FilesRead
  <2>10. Matches("IPC", files'[f].sort) /\ "IPC" \in ConnType /\ "CONNECTION" \in EventType
    BY <2>1, <2>6, <2>9 DEF Matches, ConnType, EventType
  <2>11. \A g \in Fd \ {f} : files'[g].sort = files[g].sort /\ files'[g].id = files[g].id
    BY <2>6, <2>9
  <2>12. Good(ctx', files')
    <3>1. Good(ctx, files) /\ ctx' = ipc_add_fd_(ctx, f, "IPC")
      BY <1>2, <1>4
    <3> QED
      BY <2>1, <2>10, <2>11, <3>1, GoodAdd
  <2> QED
    BY <1>1, <1>4, <2>1, <2>9, <2>10, <2>12, ReturnQuiet
<1> QED
  BY <1>3, <1>4 DEF ipc_accept_add

LEMMA ExtraSocketStep ==
  ASSUME IInv, NEW i \in 1 .. Len(ctx.conns), ExtraSocket(i)
  PROVE  IInv'
<1>1. First(i) /\ ctx' = MoreToRead(ctx, i, FALSE)
      /\ Return(IPC_EVENT_SET("EXTRA_SOCKET", ctx.conns[i].fd))
      /\ UNCHANGED <<files, nfiles, nmsgs, sent>>
  BY DEF ExtraSocket, FirstIn
<1>2. Good(ctx, files) /\ FilesOK(files) /\ ctx.conns[i].fd \in Fd
  BY <1>1, FirstFacts
<1>3. Good(ctx', files') /\ FilesOK(files') /\ "EXTRA_SOCKET" \in EventType
  BY <1>1, <1>2, GoodMore DEF EventType
<1> QED
  BY <1>1, <1>2, <1>3, ReturnQuiet

(* The same change of the files, when only what can be read changes.       *)
LEMMA GoodRead ==
  ASSUME NEW c, NEW F, Good(c, F), FilesOK(F), NEW f \in Fd, NEW rx \in Seq(Body),
         \A b \in 1 .. Len(rx) : rx[b].kind \in Kinds
  PROVE  Good(c, WithRx(F, f, rx)) /\ FilesOK(WithRx(F, f, rx))
<1> DEFINE G == WithRx(F, f, rx)
<1>1. FilesOK(G) /\ \A g \in Fd : G[g].sort = F[g].sort /\ G[g].id = F[g].id
  BY FilesRead
<1> HIDE DEF G
<1>2. Good(c, G)
  BY <1>1, GoodFiles
<1> QED
  BY <1>1, <1>2 DEF G

LEMMA NoData ==
  ASSUME NEW rx, rx = <<>>
  PROVE  rx \in Seq(Body) /\ \A b \in 1 .. Len(rx) : rx[b].kind \in Kinds
<1>1. rx \in Seq(Body)
  OBVIOUS
<1>2. Len(rx) = 0
  OBVIOUS
<1>3. \A b \in 1 .. Len(rx) : FALSE
  BY <1>2
<1> QED
  BY <1>1, <1>3

LEMMA GoodDrain ==
  ASSUME NEW c, NEW F, Good(c, F), FilesOK(F), NEW f \in Fd
  PROVE  Good(c, Drain(F, f)) /\ FilesOK(Drain(F, f))
<1>1. Drain(F, f) = WithRx(F, f, <<>>)
  BY DEF Drain, WithRx
<1>2. PICK rx : rx = <<>>
  OBVIOUS
<1>3. rx \in Seq(Body) /\ \A b \in 1 .. Len(rx) : rx[b].kind \in Kinds
  BY <1>2, NoData
<1>4. Good(c, WithRx(F, f, rx)) /\ FilesOK(WithRx(F, f, rx))
  BY <1>3, GoodRead
<1> QED
  BY <1>1, <1>2, <1>4

(* handle_new_message.                                                     *)
LEMMA NewMessageStep ==
  ASSUME IInv, NEW i \in 1 .. Len(ctx.conns), handle_new_message(i)
  PROVE  IInv'
<1> DEFINE f == ctx.conns[i].fd
           outcome == ReadOutcome(files[f])
<1>1. First(i) /\ UNCHANGED <<nfiles, nmsgs, sent>>
  BY DEF handle_new_message, FirstIn
<1>2. Good(ctx, files) /\ FilesOK(files) /\ f \in Fd /\ f # NoFd
  BY <1>1, FirstFacts, FdAssumption
<1>3. {"MESSAGE", "DISCONNECTION", "ERROR"} \subseteq EventType
  BY DEF EventType
<1>4. CASE ctx' = MoreToRead(ctx, i, FALSE) /\ files' = Drain(files, f)
           /\ Return(IPC_EVENT_SET("MESSAGE", f))
  <2>1. Good(ctx', files)
    BY <1>2, <1>4, GoodMore
  <2>2. Good(ctx', files') /\ FilesOK(files')
    BY <1>2, <1>4, <2>1, GoodDrain
  <2> QED
    BY <1>1, <1>2, <1>3, <1>4, <2>2, ReturnQuiet
<1>5. CASE ctx' = ipc_del(ipc_close(ctx, f), i) /\ files' = CloseFile(files, f)
           /\ Return(IPC_EVENT_SET(IF outcome = "closed" THEN "DISCONNECTION"
                                                         ELSE "ERROR", f))
  <2>1. Good(ctx', files') /\ FilesOK(files')
    BY <1>2, <1>5, EndConnection
  <2>2. PICK type \in EventType : Return(IPC_EVENT_SET(type, f))
    BY <1>3, <1>5
  <2> QED
    BY <1>1, <1>2, <2>1, <2>2, ReturnQuiet
<1> QED
  BY <1>4, <1>5 DEF handle_new_message

(* What a callback gives back when it reads a file that is not a listening *)
(* socket.                                                                 *)
LEMMA InResultsFacts ==
  ASSUME NEW x \in File(Body), NEW cb, NEW in \in InResults(cb, x),
         \A b \in 1 .. Len(x.rx) : x.rx[b].kind \in Kinds
  PROVE  /\ in.more \in BOOLEAN /\ in.rx \in Seq(Body)
         /\ \A b \in 1 .. Len(in.rx) : in.rx[b].kind \in Kinds
         /\ in.r = "NO_ERROR" => x.rx # <<>>
<1>1. x.rx \in Seq(Body)
  BY DEF File
<1>2. CASE cb = Null
  <2>1. in = [r |-> default_cb_in(x), rx |-> <<>>, more |-> FALSE]
    BY <1>2 DEF InResults
  <2>2. default_cb_in(x) = "NO_ERROR" => x.rx # <<>>
    <3>1. ReadOutcome(x) \in {"message", "closed", "error", "parsing"}
      BY DEF ReadOutcome
    <3>2. default_cb_in(x) = "NO_ERROR" => ReadOutcome(x) = "message"
      BY <3>1 DEF default_cb_in
    <3>3. x.rx = <<>> => ReadOutcome(x) \in {"error", "closed"}
      BY DEF ReadOutcome
    <3> QED
      BY <3>2, <3>3
  <2>3. in.rx = <<>> /\ in.more = FALSE /\ in.r = default_cb_in(x)
    BY <2>1
  <2>4. in.more \in BOOLEAN
    BY <2>3
  <2> QED
    BY <2>2, <2>3, <2>4, NoData
<1>3. CASE cb # Null /\ x.rx = <<>>
  <2>1. in.rx = <<>> /\ in.more = FALSE /\ in.r \in {"FD_CLOSING", "FD_ERROR"}
    BY <1>3 DEF InResults
  <2>2. in.more \in BOOLEAN /\ in.r # "NO_ERROR"
    BY <2>1
  <2> QED
    BY <2>1, <2>2, NoData
<1>4. CASE cb # Null /\ x.rx # <<>>
  <2>1. in.rx \in {Tail(x.rx), <<>>} /\ in.more \in {Len(x.rx) > 1, FALSE}
    BY <1>4 DEF InResults
  <2>2. /\ Tail(x.rx) \in Seq(Body)
        /\ \A b \in 1 .. Len(Tail(x.rx)) :
             b + 1 \in 1 .. Len(x.rx) /\ Tail(x.rx)[b] = x.rx[b + 1]
    BY <1>1, <1>4, TailFacts
  <2>3. \A b \in 1 .. Len(Tail(x.rx)) : Tail(x.rx)[b].kind \in Kinds
    BY <2>2
  <2>4. in.rx \in Seq(Body) /\ \A b \in 1 .. Len(in.rx) : in.rx[b].kind \in Kinds
    <3>1. CASE in.rx = Tail(x.rx)
      BY <2>2, <2>3, <3>1, Zenon
    <3>2. CASE in.rx = <<>>
      BY <3>2, NoData
    <3> QED
      BY <2>1, <3>1, <3>2
  <2>5. in.more \in BOOLEAN
    <3>1. (Len(x.rx) > 1) \in BOOLEAN /\ FALSE \in BOOLEAN
      OBVIOUS
    <3> QED
      BY <2>1, <3>1, Zenon
  <2> QED
    BY <1>4, <2>4, <2>5
<1> QED
  BY <1>2, <1>3, <1>4

(* fd_switching_read.                                                      *)
LEMMA SwitchingReadStep ==
  ASSUME IInv, NEW i \in 1 .. Len(ctx.conns), fd_switching_read(i)
  PROVE  IInv'
<1> DEFINE f  == ctx.conns[i].fd
           sw == ipc_switching_get_(ctx.switchdb, f)
           x  == files[f]
           to == OtherEnd(sw, f)
           m  == [fd |-> to, file |-> files[to].id, id |-> x.rx[1].id, kind |-> x.rx[1].kind]
<1>1. First(i) /\ ctx.conns[i].type = "SWITCHED" /\ UNCHANGED <<nfiles, nmsgs, sent>>
  BY DEF fd_switching_read, FirstIn
<1>2. Good(ctx, files) /\ FilesOK(files) /\ f \in Fd /\ x.sort = "sock"
  BY <1>1, FirstFacts DEF Matches
<1>3. x \in File(Body) /\ \A b \in 1 .. Len(x.rx) : x.rx[b].kind \in Kinds
  BY <1>2 DEF FilesOK
<1>4. x.rx \in Seq(Body)
  BY <1>3 DEF File
<1>5. {"NOT_SET", "SWITCH", "DISCONNECTION", "ERROR"} \subseteq EventType
  BY DEF EventType
<1>6. CASE ctx' = MoreToRead(ctx, i, FALSE) /\ Return(IPC_EVENT_SET("NOT_SET", f))
           /\ UNCHANGED files
  <2>1. Good(ctx', files') /\ FilesOK(files')
    BY <1>2, <1>6, GoodMore
  <2> QED
    BY <1>1, <1>2, <1>5, <1>6, <2>1, ReturnQuiet
<1>7. ASSUME HasRecord(ctx.switchdb, f),
             NEW in \in InResults(InCallback(sw, f), x),
             files' = [files EXCEPT ![f].rx = in.rx],
             \/ /\ in.r = "NO_ERROR"
                /\ ctx' = ipc_write(MoreToRead(ctx, i, in.more), m)
                /\ Return(IPC_EVENT_SET("SWITCH", f))
             \/ /\ in.r = "IGNORE"
                /\ ctx' = MoreToRead(ctx, i, in.more)
                /\ Return(IPC_EVENT_SET("SWITCH", f))
             \/ /\ ctx' = ipc_ctx_switching_del(
                     ipc_del_fd(ipc_del_fd(MoreToRead(ctx, i, in.more), sw.dest), f), f)
                /\ Return(IPC_EVENT_SET(IF in.r = "FD_CLOSING" THEN "DISCONNECTION"
                                                              ELSE "ERROR", f))
      PROVE  IInv'
  <2> DEFINE c == MoreToRead(ctx, i, in.more)
  <2>1. in.more \in BOOLEAN /\ in.rx \in Seq(Body)
        /\ (\A b \in 1 .. Len(in.rx) : in.rx[b].kind \in Kinds)
        /\ (in.r = "NO_ERROR" => x.rx # <<>>)
    BY <1>3, InResultsFacts
  <2>2. sw.dest \in Fd /\ to \in Fd
    BY <1>2, <1>7, ContextFields, RecordFacts DEF Good
  <2>3. Good(c, files)
    BY <1>1, <1>2, <2>1, GoodMore
  <2>4. files' = WithRx(files, f, in.rx)
    BY <1>7 DEF WithRx
  <2> HIDE DEF c
  <2>5. \E type \in EventType : Return(IPC_EVENT_SET(type, f))
    BY <1>5, <1>7
  <2>6. Good(ctx', files)
    <3>1. CASE in.r = "NO_ERROR" /\ ctx' = ipc_write(c, m)
      <4>1. x.rx[1] \in Body /\ x.rx[1].kind \in Kinds
        BY <1>3, <1>4, <2>1, <3>1, TailFacts
      <4>2. files[to] \in File(Body)
        BY <1>2, <2>2 DEF FilesOK
      <4>3. files[to].id \in Nat /\ x.rx[1].id \in Nat
        BY <4>1, <4>2 DEF File, Body
      <4> HIDE DEF to, x
      <4>4. m \in Message /\ files[m.fd].id = m.file
        BY <2>2, <4>1, <4>3 DEF Message
      <4> HIDE DEF m
      <4> QED
        BY <2>3, <3>1, <4>4, GoodWrite
    <3>2. CASE ctx' = c
      BY <2>3, <3>2
    <3>3. CASE ctx' = ipc_ctx_switching_del(ipc_del_fd(ipc_del_fd(c, sw.dest), f), f)
      <4>1. Good(ipc_del_fd(ipc_del_fd(c, sw.dest), f), files)
        BY <1>2, <2>2, <2>3, EndPair
      <4> QED
        BY <3>3, <4>1, GoodSwitchingDel
    <3> QED
      BY <1>7, <3>1, <3>2, <3>3 DEF c
  <2>7. Good(ctx', files') /\ FilesOK(files')
    BY <1>2, <2>1, <2>4, <2>6, GoodRead
  <2> QED
    BY <1>1, <1>2, <2>5, <2>7, ReturnQuiet
<1> QED
  BY <1>6, <1>7 DEF fd_switching_read

(* The message that is written when poll(2) said that f is writable.       *)
LEMMA FirstOutFacts ==
  ASSUME IInv, NEW i \in 1 .. Len(ctx.conns), FirstOut(i)
  PROVE  LET f == ctx.conns[i].fd
             k == FirstFor(ctx.tx, f)
         IN  /\ Good(ctx, files) /\ FilesOK(files) /\ f \in Fd
             /\ k \in 1 .. Len(ctx.tx)
             /\ Delivery(ctx.tx[k], f) \in Deliveries
             /\ Delivery(ctx.tx[k], f).file = Delivery(ctx.tx[k], f).for
<1> DEFINE f == ctx.conns[i].fd
           k == FirstFor(ctx.tx, f)
           m == ctx.tx[k]
<1>1. Good(ctx, files) /\ FilesOK(files) /\ f \in Fd /\ HasMessage(ctx.tx, f)
  BY FirstFacts DEF FirstOut, FlagsOK
<1>2. ctx.tx \in Seq(Message) /\ TxOK(ctx, files)
  BY <1>1, ContextFields DEF Good
<1>3. k \in 1 .. Len(ctx.tx) /\ m.fd = f
  BY <1>1, <1>2, FirstForFacts
<1>4. m \in Message /\ files[f].id = m.file
  BY <1>2, <1>3 DEF TxOK
<1> HIDE DEF m, k, f
<1>5. Delivery(m, f) \in Deliveries /\ Delivery(m, f).file = Delivery(m, f).for
  BY <1>4 DEF Delivery, Deliveries, Message
<1> QED
  BY <1>1, <1>3, <1>5 DEF m, k, f

(* A message was written, or not.                                          *)
LEMMA SentOK ==
  ASSUME IInv, NEW d \in Deliveries, d.file = d.for, sent' = sent \cup {d} \/ sent' = sent
  PROVE  sent' \in SUBSET Deliveries /\ \A e \in sent' : e.file = e.for
BY DEF IInv, RestOK, NoMisdelivery, Deliveries

(* handle_writing_message.                                                 *)
LEMMA WritingMessageStep ==
  ASSUME IInv, NEW i \in 1 .. Len(ctx.conns), handle_writing_message(i)
  PROVE  IInv'
<1> DEFINE f == ctx.conns[i].fd
           k == FirstFor(ctx.tx, f)
           d == Delivery(ctx.tx[k], f)
<1>1. FirstOut(i) /\ ctx' = [ctx EXCEPT !.tx = ipc_messages_del(ctx.tx, k)]
      /\ sent' = (IF Sends(f) THEN sent \cup {d} ELSE sent)
      /\ Return(IPC_EVENT_SET("TX", f)) /\ UNCHANGED <<files, nfiles, nmsgs>>
  BY DEF handle_writing_message
<1>2. Good(ctx, files) /\ FilesOK(files) /\ f \in Fd /\ k \in 1 .. Len(ctx.tx)
      /\ d \in Deliveries /\ d.file = d.for
  BY <1>1, FirstOutFacts
<1> HIDE DEF f, k, d
<1>3. sent' \in SUBSET Deliveries /\ \A e \in sent' : e.file = e.for
  BY <1>1, <1>2, SentOK
<1>4. Good(ctx', files') /\ FilesOK(files') /\ "TX" \in EventType
  BY <1>1, <1>2, GoodMessageDel DEF EventType
<1> QED
  BY <1>1, <1>2, <1>3, <1>4, ReturnStep

(* fd_switching_write.                                                     *)
LEMMA SwitchingWriteStep ==
  ASSUME IInv, NEW i \in 1 .. Len(ctx.conns), fd_switching_write(i)
  PROVE  IInv'
<1> DEFINE f  == ctx.conns[i].fd
           k  == FirstFor(ctx.tx, f)
           sw == ipc_switching_get_(ctx.switchdb, f)
           to == OtherEnd(sw, f)
           c  == [ctx EXCEPT !.tx = ipc_messages_del(ctx.tx, k)]
           d  == Delivery(ctx.tx[k], f)
           default == InCallback(sw, f) = Null
<1>1. FirstOut(i) /\ UNCHANGED <<nfiles, nmsgs>>
  BY DEF fd_switching_write
<1>2. Good(ctx, files) /\ FilesOK(files) /\ f \in Fd /\ k \in 1 .. Len(ctx.tx)
      /\ d \in Deliveries /\ d.file = d.for
  BY <1>1, FirstOutFacts
<1>3. Good(c, files)
  BY <1>2, GoodMessageDel
<1>4. {"NOT_SET", "TX", "DISCONNECTION", "ERROR"} \subseteq EventType
  BY DEF EventType
<1>5. CASE Return(IPC_EVENT_SET("NOT_SET", f)) /\ UNCHANGED <<ctx, files, sent>>
  BY <1>1, <1>2, <1>4, <1>5, ReturnQuiet
<1>6. CASE pc' = "crashed" /\ UNCHANGED <<ctx, event, revents, files, sent>>
  BY <1>1, <1>6 DEF IInv, RestOK, PollInv, NoMisdelivery
<1>7. CASE ctx' = c /\ sent' = sent \cup {d} /\ Return(IPC_EVENT_SET("TX", f))
           /\ UNCHANGED files
  <2>1. sent' \in SUBSET Deliveries /\ \A e \in sent' : e.file = e.for
    BY <1>2, <1>7, SentOK
  <2>2. Good(ctx', files') /\ FilesOK(files')
    BY <1>2, <1>3, <1>7
  <2> QED
    BY <1>1, <1>2, <1>4, <1>7, <2>1, <2>2, ReturnStep
<1>8. CASE HasRecord(ctx.switchdb, f) /\ UNCHANGED sent
           /\ ctx' = ipc_del_fd(ipc_del_fd(ipc_ctx_switching_del(c, f), to), f)
           /\ files' = CloseFile(CloseFile(files, to), f)
           /\ \E type \in {"ERROR"} \cup (IF default THEN {} ELSE {"DISCONNECTION"}) :
                Return(IPC_EVENT_SET(type, f))
  <2> DEFINE e == ipc_ctx_switching_del(c, f)
  <2>1. to \in Fd
    BY <1>2, <1>8, ContextFields, RecordFacts DEF Good
  <2>2. Good(e, files)
    BY <1>3, GoodSwitchingDel
  <2> HIDE DEF to, e, c
  <2>3. Good(ctx', files') /\ FilesOK(files')
    BY <1>2, <1>8, <2>1, <2>2, EndPair DEF e
  <2>4. PICK type \in EventType : Return(IPC_EVENT_SET(type, f))
    BY <1>4, <1>8
  <2> QED
    BY <1>1, <1>2, <1>8, <2>3, <2>4, ReturnQuiet
<1> QED
  BY <1>5, <1>6, <1>7, <1>8 DEF fd_switching_write

(* A hung-up descriptor that is not readable is an external one.           *)
LEMMA HangUpStep ==
  ASSUME IInv, NEW i \in 1 .. Len(ctx.conns), HangUp(i)
  PROVE  IInv'
<1>1. First(i) /\ "IN" \notin revents[i] /\ "HUP" \in revents[i]
      /\ ctx' = ipc_close(ctx, ctx.conns[i].fd)
      /\ files' = (IF Closes(ctx, i) THEN CloseFile(files, ctx.conns[i].fd) ELSE files)
      /\ Return(IPC_EVENT_SET("DISCONNECTION", ctx.conns[i].fd))
      /\ UNCHANGED <<nfiles, nmsgs, sent>>
  BY DEF HangUp
<1>2. Good(ctx, files) /\ FilesOK(files) /\ ctx.conns[i].fd \in Fd
      /\ ctx.conns[i].type = "EXTERNAL"
  BY <1>1, FirstFacts DEF FlagsOK
<1>3. files' = files /\ "DISCONNECTION" \in EventType
  BY <1>1, <1>2 DEF Closes, EventType
<1>4. Good(ctx', files') /\ FilesOK(files')
  BY <1>1, <1>2, <1>3, GoodClose
<1> QED
  BY <1>1, <1>2, <1>3, <1>4, ReturnQuiet

LEMMA PollErrorStep ==
  ASSUME IInv, NEW i \in 1 .. Len(ctx.conns), PollError(i)
  PROVE  IInv'
<1>1. First(i) /\ Return(IPC_EVENT_SET("ERROR", ctx.conns[i].fd))
      /\ UNCHANGED <<ctx, files, nfiles, nmsgs, sent>>
  BY DEF PollError
<1>2. Good(ctx, files) /\ FilesOK(files) /\ ctx.conns[i].fd \in Fd /\ "ERROR" \in EventType
  BY <1>1, FirstFacts DEF EventType
<1> QED
  BY <1>1, <1>2, ReturnQuiet

(* The application looks at the event.                                     *)
LEMMA HandleEventStep == ASSUME IInv, HandleEvent PROVE IInv'
<1> DEFINE f == event.origin
           ended == event.type \in {"DISCONNECTION", "ERROR"} /\ HasType(ctx, f, "EXTERNAL")
<1>1. Good(ctx, files) /\ FilesOK(files) /\ RestOK /\ NoMisdelivery
  BY DEF IInv
<1>2. ctx' = (IF ended THEN ipc_del_fd(ctx, f) ELSE ctx)
      /\ files' = (CASE ended -> CloseFile(files, f)
                     [] event.type = "EXTRA_SOCKET" -> Drain(files, f)
                     [] OTHER -> files)
      /\ event' = IPC_EVENT_CLEAN /\ pc' = "app"
      /\ UNCHANGED <<revents, nfiles, nmsgs, sent>>
  BY DEF HandleEvent
<1>3. f \in Fd \cup {NoFd}
  BY <1>1 DEF RestOK
<1>4. RestOK' /\ PollInv' /\ NoMisdelivery'
  BY <1>1, <1>2 DEF RestOK, PollInv, NoMisdelivery, IPC_EVENT_CLEAN, EventType
<1>5. Good(ctx', files') /\ FilesOK(files')
  <2>1. CASE ended
    <3>1. PICK i \in 1 .. Len(ctx.conns) : ctx.conns[i].fd = f /\ ctx.conns[i].type = "EXTERNAL"
      BY <2>1 DEF HasType
    <3>2. f \in Fd
      BY <1>1, <1>3, <3>1 DEF Good, ConnsOK
    <3>3. ctx' = ipc_del_fd(ctx, f) /\ files' = CloseFile(files, f)
      BY <1>2, <2>1
    <3>4. Good(ctx', files) /\ ~Registered(ctx', f)
      BY <1>1, <3>2, <3>3, GoodDelFd
    <3> QED
      BY <1>1, <3>2, <3>3, <3>4, CloseUnregistered
  <2>2. CASE ~ended /\ event.type = "EXTRA_SOCKET"
    <3>1. ctx' = ctx /\ files' = Drain(files, f)
      BY <1>2, <2>2
    <3>2. CASE f \in Fd
      BY <1>1, <3>1, <3>2, GoodDrain
    <3>3. CASE f = NoFd
      <4>1. Drain(files, f) = files
        BY <1>1, <3>3, FdAssumption DEF Drain, FilesOK
      <4> QED
        BY <1>1, <3>1, <4>1
    <3> QED
      BY <1>3, <3>2, <3>3
  <2>3. CASE ~ended /\ event.type # "EXTRA_SOCKET"
    BY <1>1, <1>2, <2>3
  <2> QED
    BY <2>1, <2>2, <2>3
<1> QED
  BY <1>4, <1>5 DEF IInv

-----------------------------------------------------------------------------
(* The peers act at any moment, between poll(2) and what follows too: they *)
(* may make data arrive, never go away.                                    *)

LEMMA PeerStep ==
  ASSUME IInv, UNCHANGED <<ctx, event, pc, revents, sent>>,
         nfiles' \in Nat, nmsgs' \in Nat, FilesOK(files'),
         \A f \in Fd : files'[f].sort = files[f].sort /\ files'[f].id = files[f].id,
         \A f \in Fd : files[f].rx # <<>> => files'[f].rx # <<>>
  PROVE  IInv'
<1>1. Good(ctx, files) /\ RestOK /\ NoMisdelivery /\ PollInv
  BY DEF IInv
<1>2. Good(ctx', files')
  BY <1>1, GoodFiles
<1>3. PollInv'
  <2> SUFFICES ASSUME pc = "polled", NEW i \in 1 .. Len(ctx.conns)
               PROVE  FlagsOK(ctx, revents, files', i)
    BY <1>1 DEF PollInv, FlagsOK
  <2>1. FlagsOK(ctx, revents, files, i)
    BY <1>1 DEF PollInv
  <2>2. revents[i] # {} => ctx.conns[i].fd \in Fd
    BY <1>1, <2>1, ContextFields DEF FlagsOK, Good
  <2> QED
    BY <2>1, <2>2 DEF FlagsOK
<1>4. RestOK' /\ NoMisdelivery'
  BY <1>1 DEF RestOK, NoMisdelivery
<1> QED
  BY <1>2, <1>3, <1>4 DEF IInv

LEMMA AppendFacts ==
  ASSUME NEW E, NEW s \in Seq(E), NEW b \in E
  PROVE  /\ Append(s, b) \in Seq(E)
         /\ Append(s, b) # <<>>
         /\ Len(Append(s, b)) = Len(s) + 1 /\ Len(s) \in Nat
         /\ Append(s, b)[Len(s) + 1] = b
         /\ \A k \in 1 .. Len(s) : Append(s, b)[k] = s[k]
OBVIOUS

(* Something more can be read of f.                                        *)
LEMMA FilesArrive ==
  ASSUME NEW F, FilesOK(F), NEW f \in Fd, NEW b \in Body,
         F[f].sort # "listen" => b.kind \in Kinds
  PROVE  LET G == WithRx(F, f, Append(F[f].rx, b))
         IN  /\ FilesOK(G)
             /\ \A g \in Fd : G[g].sort = F[g].sort /\ G[g].id = F[g].id
             /\ \A g \in Fd : F[g].rx # <<>> => G[g].rx # <<>>
<1> DEFINE old == F[f].rx
           rx == Append(old, b)
           G == WithRx(F, f, rx)
<1>1. F[f] \in File(Body)
  BY DEF FilesOK
<1>2. old \in Seq(Body) /\ (F[f].sort # "listen" => \A k \in 1 .. Len(old) : old[k].kind \in Kinds)
  BY <1>1 DEF File, FilesOK
<1>3. rx \in Seq(Body) /\ rx # <<>> /\ Len(rx) = Len(old) + 1 /\ Len(old) \in Nat
      /\ rx[Len(old) + 1] = b /\ \A k \in 1 .. Len(old) : rx[k] = old[k]
  BY <1>2, AppendFacts
<1> HIDE DEF rx, old
<1>4. \A k \in 1 .. Len(rx) : k \in 1 .. Len(old) \/ k = Len(old) + 1
  BY <1>3
<1>5. F[f].sort # "listen" => \A k \in 1 .. Len(rx) : rx[k].kind \in Kinds
  BY <1>2, <1>3, <1>4
<1>6. FilesOK(G)
      /\ \A g \in Fd : /\ G[g].sort = F[g].sort /\ G[g].id = F[g].id
                        /\ G[g].rx = IF g = f THEN rx ELSE F[g].rx
  BY <1>3, <1>5, FilesRead
<1> HIDE DEF G
<1>7. \A g \in Fd : F[g].rx # <<>> => G[g].rx # <<>>
  BY <1>3, <1>6
<1> QED
  BY <1>6, <1>7 DEF G, rx, old

LEMMA ArrivalStep ==
  ASSUME IInv, NEW f \in Fd, NEW b \in Body, files[f].sort # "listen" => b.kind \in Kinds,
         files' = WithRx(files, f, Append(files[f].rx, b)),
         UNCHANGED <<ctx, event, pc, revents, sent>>, nfiles' \in Nat, nmsgs' \in Nat
  PROVE  IInv'
<1>1. FilesOK(files)
  BY DEF IInv
<1>2. /\ FilesOK(files')
      /\ \A g \in Fd : files'[g].sort = files[g].sort /\ files'[g].id = files[g].id
      /\ \A g \in Fd : files[g].rx # <<>> => files'[g].rx # <<>>
  BY <1>1, FilesArrive
<1> QED
  BY <1>2, PeerStep

LEMMA PeersStep == ASSUME IInv, Peers PROVE IInv'
<1>1. FilesOK(files) /\ nfiles \in Nat /\ nmsgs \in Nat
  BY DEF IInv, RestOK
<1>2. ASSUME NEW f \in Fd, PeerConnect(f)
      PROVE  IInv'
  <2> DEFINE b == [id |-> Fresh, kind |-> "connect"]
  <2>1. files[f].sort = "listen" /\ files' = WithRx(files, f, Append(files[f].rx, b))
        /\ nfiles' = Fresh /\ UNCHANGED <<ctx, event, pc, revents, nmsgs, sent>>
    BY <1>1, <1>2 DEF PeerConnect, WithRx, FilesOK
  <2>2. b \in Body /\ nfiles' \in Nat /\ nmsgs' \in Nat
    BY <1>1, <2>1 DEF Body, Fresh
  <2> HIDE DEF b
  <2> QED
    BY <2>1, <2>2, ArrivalStep
<1>3. ASSUME NEW f \in Fd, NEW kind \in Payload, PeerSend(f, kind)
      PROVE  IInv'
  <2> DEFINE b == [id |-> nmsgs + 1, kind |-> kind]
  <2>1. files' = WithRx(files, f, Append(files[f].rx, b))
        /\ nmsgs' = nmsgs + 1 /\ UNCHANGED <<ctx, event, pc, revents, nfiles, sent>>
    BY <1>1, <1>3 DEF PeerSend, WithRx, FilesOK
  <2>2. kind \in Kinds
    BY PayloadAssumption DEF Kinds
  <2>3. b \in Body /\ b.kind \in Kinds /\ nfiles' \in Nat /\ nmsgs' \in Nat
    BY <1>1, <2>1, <2>2 DEF Body
  <2> HIDE DEF b
  <2> QED
    BY <2>1, <2>3, ArrivalStep
<1>4. ASSUME NEW f \in Fd, NEW how \in {"gone", "reset"}, PeerLeave(f, how)
      PROVE  IInv'
  <2>1. files[f].sort # "listen" /\ files' = WithPeer(files, f, how)
        /\ UNCHANGED <<ctx, event, pc, revents, nfiles, nmsgs, sent>>
    BY <1>4 DEF PeerLeave, WithPeer
  <2>2. FilesOK(files')
        /\ \A g \in Fd : /\ files'[g].sort = files[g].sort /\ files'[g].id = files[g].id
                          /\ files'[g].rx = files[g].rx
    BY <1>1, <2>1, FilesPeer
  <2> QED
    BY <1>1, <2>1, <2>2, PeerStep
<1> QED
  BY <1>2, <1>3, <1>4 DEF Peers

-----------------------------------------------------------------------------
(* The invariant is inductive, and what follows from it.                   *)

LEMMA NextInv == IInv /\ [Next]_vars => IInv'
<1> SUFFICES ASSUME IInv, [Next]_vars PROVE IInv'
  OBVIOUS
<1>1. CASE Application
  BY <1>1, OpenSteps, ConnectSwitchedStep, CallbacksStep, WriteStep, CloseConnectionStep,
     DisconnectionStep, CloseForgottenStep, ShutdownStep DEF Application
<1>2. CASE EventLoop
  <2>1. ASSUME NEW i \in 1 .. Len(ctx.conns), Serve(i)
        PROVE  IInv'
    BY <2>1, AcceptStep, ExtraSocketStep, NewMessageStep, SwitchingReadStep,
       WritingMessageStep, SwitchingWriteStep, HangUpStep, PollErrorStep DEF Serve
  <2> QED
    BY <1>2, <2>1, PollReadyStep, PollTimeoutStep, HandleEventStep
    DEF EventLoop, ipc_wait_event
<1>3. CASE Peers
  BY <1>3, PeersStep
<1>4. CASE UNCHANGED vars
  BY <1>4 DEF vars, IInv, PollInv, RestOK, NoMisdelivery
<1>5. CASE Killed
  BY <1>4, <1>5 DEF Killed
<1> QED
  BY <1>1, <1>2, <1>3, <1>4, <1>5 DEF Next

LEMMA IInvAlways == Spec => []IInv
BY InitInv, NextInv, PTL DEF Spec

(* Every operation of the context, the kernel model and the callbacks keep *)
(* the state within its type, whatever the number of descriptors.          *)
THEOREM TypeCorrect == Spec => []TypeOK
<1>1. IInv => TypeOK
  BY DEF IInv, Good, FilesOK, RestOK, TypeOK
<1> QED
  BY <1>1, IInvAlways, PTL

(* No message to send is ever left for a descriptor that has no connection *)
(* in the context, so none is lost from sight of ipc_wait_event, and the   *)
(* list is empty whenever ipc_del frees the context.                       *)
THEOREM TxAlwaysRegistered == Spec => []TxRegistered
<1>1. IInv => TxRegistered
  BY DEF IInv, Good, TxOK, TxRegistered, Listed
<1> QED
  BY <1>1, IInvAlways, PTL

(* The connections of a context have distinct and open descriptors: no     *)
(* path that closes a descriptor leaves its connection behind.             *)
THEOREM DescriptorsAlwaysOwned == Spec => []DescriptorsOwned
<1>1. ASSUME IInv
      PROVE  DescriptorsOwned
  <2> SUFFICES ASSUME NEW i \in 1 .. Len(ctx.conns), NEW j \in 1 .. Len(ctx.conns),
                      ctx.conns[i].fd # NoFd
               PROVE  /\ IsOpen(files, ctx.conns[i].fd)
                      /\ i # j => ctx.conns[i].fd # ctx.conns[j].fd
    BY DEF DescriptorsOwned
  <2>1. ConnsOK(ctx, files)
    BY <1>1 DEF IInv, Good
  <2>2. Matches(ctx.conns[i].type, files[ctx.conns[i].fd].sort)
    BY <2>1 DEF ConnsOK
  <2>3. IsOpen(files, ctx.conns[i].fd)
    BY <2>2 DEF Matches, IsOpen
  <2>4. i # j => ctx.conns[i].fd # ctx.conns[j].fd
    BY <2>1 DEF ConnsOK
  <2> QED
    BY <2>3, <2>4
<1> QED
  BY <1>1, IInvAlways, PTL

(* A message is written to the connection it was scheduled for, whatever   *)
(* the reuse of descriptor numbers between ipc_write and                   *)
(* handle_writing_message or fd_switching_write.                           *)
THEOREM NeverMisdelivered == Spec => []NoMisdelivery
<1>1. IInv => NoMisdelivery
  BY DEF IInv
<1> QED
  BY <1>1, IInvAlways, PTL

-----------------------------------------------------------------------------
(***************************************************************************)
(* The switching records stay coherent with the connections, for any       *)
(* number of pairs.  The proof rests on IInv: a descriptor has one         *)
(* connection, so that the removal of another one leaves the ends of a     *)
(* record alone.                                                           *)
(***************************************************************************)

IsSwitched(c, f) == HasType(c, f, "SWITCHED")

(* SwitchdbCoherent, for any context.                                      *)
Coherent(c) ==
  \A k \in 1 .. Len(c.switchdb) :
    /\ c.switchdb[k].orig # c.switchdb[k].dest
    /\ \A f \in Ends(c.switchdb[k]) : IsSwitched(c, f)
    /\ \A l \in 1 .. Len(c.switchdb) :
         l # k => Ends(c.switchdb[k]) \cap Ends(c.switchdb[l]) = {}

(* From context c to context d, no switched connection leaves but for      *)
(* those of the descriptors in S.                                          *)
Keeps(c, d, S) == \A g : IsSwitched(c, g) /\ g \notin S => IsSwitched(d, g)

-----------------------------------------------------------------------------
(* The connections.                                                        *)

LEMMA KeepsChain ==
  ASSUME NEW c, NEW d, NEW e, NEW S, NEW T, Keeps(c, d, S), Keeps(d, e, T)
  PROVE  Keeps(c, e, S \cup T)
BY Zenon DEF Keeps

LEMMA KeepsSame ==
  ASSUME NEW c, NEW d, d.conns = c.conns
  PROVE  Keeps(c, d, {})
BY DEF Keeps, IsSwitched, HasType

LEMMA KeepsAppend ==
  ASSUME NEW c \in Context, NEW d, NEW new \in Connection,
         d.conns = Append(c.conns, new)
  PROVE  Keeps(c, d, {}) /\ (new.type = "SWITCHED" => IsSwitched(d, new.fd))
<1>1. c.conns \in Seq(Connection) /\ Len(c.conns) \in Nat
  BY ContextFields
<1>2. Len(d.conns) = Len(c.conns) + 1 /\ d.conns[Len(c.conns) + 1] = new
      /\ \A i \in 1 .. Len(c.conns) : d.conns[i] = c.conns[i]
  BY <1>1
<1>3. \A i \in 1 .. Len(c.conns) : i \in 1 .. Len(d.conns)
  BY <1>1, <1>2
<1>4. Len(c.conns) + 1 \in 1 .. Len(d.conns)
  BY <1>1, <1>2
<1> QED
  BY <1>2, <1>3, <1>4 DEF Keeps, IsSwitched, HasType

LEMMA KeepsMore ==
  ASSUME NEW c \in Context, NEW i \in 1 .. Len(c.conns), NEW more \in BOOLEAN
  PROVE  /\ Keeps(c, MoreToRead(c, i, more), {})
         /\ MoreToRead(c, i, more).switchdb = c.switchdb
         /\ MoreToRead(c, i, more) \in Context
<1> DEFINE d == MoreToRead(c, i, more)
           q == [c.conns EXCEPT ![i].more_to_read = more]
<1>1. c.conns \in Seq(Connection) /\ \A j \in 1 .. Len(c.conns) : c.conns[j] \in Connection
  BY ContextFields
<1>2. d.conns = q /\ d.switchdb = c.switchdb
  BY DEF MoreToRead, Context
<1>3. Len(q) = Len(c.conns)
  BY <1>1
<1>4. \A j \in 1 .. Len(c.conns) : q[j].fd = c.conns[j].fd /\ q[j].type = c.conns[j].type
  BY <1>1 DEF Connection
<1>5. q \in Seq(Connection)
  BY <1>1 DEF Connection
<1>6. d = [c EXCEPT !.conns = q]
  BY DEF MoreToRead, Context
<1> HIDE DEF q, d
<1>7. d \in Context
  BY <1>5, <1>6, ContextConns
<1>8. Keeps(c, d, {})
  BY <1>2, <1>3, <1>4 DEF Keeps, IsSwitched, HasType
<1> QED
  BY <1>2, <1>7, <1>8 DEF d

(* ipc_del, whichever connection is moved into the hole.                   *)
LEMMA KeepsDel ==
  ASSUME NEW c \in Context, NEW i \in 1 .. Len(c.conns)
  PROVE  /\ Keeps(c, ipc_del(c, i), {c.conns[i].fd})
         /\ ipc_del(c, i).switchdb \in {c.switchdb, <<>>}
<1> DEFINE n == Len(c.conns)
           d == ipc_del(c, i)
           t == ipc_remove_messages_for_fd(c.tx, c.conns[i].fd)
<1>1. c.conns \in Seq(Connection) /\ n \in Nat
  BY ContextFields
<1>2. d = IF n = 1 THEN [c EXCEPT !.tx = t, !.conns = <<>>, !.switchdb = <<>>]
                   ELSE [c EXCEPT !.tx = t, !.conns = SwapRemove(c.conns, i)]
  BY DEF ipc_del, ipc_ctx_free, Context
<1> HIDE DEF d, t
<1>3. CASE n = 1
  <2>1. d.switchdb = <<>>
    BY <1>2, <1>3 DEF Context
  <2>2. \A j \in 1 .. n : j = i
    BY <1>1, <1>3
  <2>3. Keeps(c, d, {c.conns[i].fd})
    BY <2>2 DEF Keeps, IsSwitched, HasType
  <2> QED
    BY <2>1, <2>3 DEF d
<1>4. CASE n # 1
  <2> DEFINE q == SwapRemove(c.conns, i)
  <2>1. Len(q) = n - 1
        /\ \A k \in 1 .. n - 1 : q[k] = IF k = i THEN c.conns[n] ELSE c.conns[k]
    BY <1>1, SwapRemoveFacts
  <2>2. d.conns = q /\ d.switchdb = c.switchdb
    BY <1>2, <1>4 DEF Context
  <2> HIDE DEF q
  <2>3. ASSUME NEW l \in 1 .. n, l # i
        PROVE  \E j \in 1 .. Len(q) : q[j] = c.conns[l]
    <3>1. CASE l = n
      <4>1. i \in 1 .. Len(q) /\ q[i] = c.conns[l]
        BY <1>1, <2>1, <2>3, <3>1
      <4> QED
        BY <4>1
    <3>2. CASE l # n
      <4>1. l \in 1 .. Len(q) /\ q[l] = c.conns[l]
        BY <1>1, <2>1, <2>3, <3>2
      <4> QED
        BY <4>1
    <3> QED
      BY <3>1, <3>2
  <2>4. ASSUME NEW g, IsSwitched(c, g), g # c.conns[i].fd
        PROVE  IsSwitched(d, g)
    <3>1. PICK l \in 1 .. n : c.conns[l].fd = g /\ c.conns[l].type = "SWITCHED"
      BY <2>4 DEF IsSwitched, HasType
    <3>2. PICK j \in 1 .. Len(q) : q[j] = c.conns[l]
      BY <2>3, <2>4, <3>1
    <3> QED
      BY <2>2, <3>1, <3>2 DEF IsSwitched, HasType
  <2> QED
    BY <2>2, <2>4 DEF Keeps, d
<1> QED
  BY <1>3, <1>4

LEMMA DelFdContext ==
  ASSUME NEW c \in Context, NEW f
  PROVE  ipc_del_fd(c, f) \in Context
<1>1. CASE ~Registered(c, f)
  BY <1>1 DEF ipc_del_fd
<1>2. CASE Registered(c, f)
  <2> DEFINE i == IndexOf(c, f)
             t == RemoveFor(c.tx, {c.conns[i].fd})
             q == SwapRemove(c.conns, i)
  <2>1. i \in 1 .. Len(c.conns)
    BY <1>2, IndexOfFacts
  <2>2. c.conns \in Seq(Connection) /\ c.tx \in Seq(Message)
    BY ContextFields
  <2>3. t \in Seq(Message) /\ q \in Seq(Connection)
    BY <2>1, <2>2, RemoveForFacts, SwapRemoveFacts
  <2>4. ipc_del_fd(c, f) =
          IF Len(c.conns) = 1 THEN [c EXCEPT !.tx = t, !.conns = <<>>, !.switchdb = <<>>]
                              ELSE [c EXCEPT !.tx = t, !.conns = q]
    BY <1>2 DEF ipc_del_fd, ipc_del, ipc_ctx_free, ipc_remove_messages_for_fd, Context
  <2> HIDE DEF t, q
  <2>5. <<>> \in Seq(Connection) /\ <<>> \in Seq(Record)
    OBVIOUS
  <2> QED
    BY <2>3, <2>4, <2>5 DEF Context, Record
<1> QED
  BY <1>1, <1>2

LEMMA KeepsDelFd ==
  ASSUME NEW c \in Context, NEW f
  PROVE  /\ Keeps(c, ipc_del_fd(c, f), {f})
         /\ ipc_del_fd(c, f).switchdb \in {c.switchdb, <<>>}
<1>1. CASE ~Registered(c, f)
  BY <1>1 DEF ipc_del_fd, Keeps
<1>2. CASE Registered(c, f)
  <2>1. IndexOf(c, f) \in 1 .. Len(c.conns) /\ c.conns[IndexOf(c, f)].fd = f
    BY <1>2, IndexOfFacts
  <2>2. ipc_del_fd(c, f) = ipc_del(c, IndexOf(c, f))
    BY <1>2 DEF ipc_del_fd
  <2> QED
    BY <2>1, <2>2, KeepsDel
<1> QED
  BY <1>1, <1>2

-----------------------------------------------------------------------------
(* The records.                                                            *)

(* The records stay, or all go with the last connection.                   *)
LEMMA CoherentKept ==
  ASSUME NEW c, NEW d, Coherent(c), Keeps(c, d, {}),
         d.switchdb \in {c.switchdb, <<>>}
  PROVE  Coherent(d)
<1>1. CASE d.switchdb = c.switchdb
  BY <1>1 DEF Coherent, Keeps
<1>2. CASE d.switchdb = <<>>
  BY <1>2 DEF Coherent
<1> QED
  BY <1>1, <1>2

(* ipc_switching_del: what is left has the ends of the other records, each *)
(* once.                                                                   *)
LEMMA SwitchingDelEnds ==
  ASSUME NEW db \in Seq(Record), NEW f, HasRecord(db, f),
         NEW k \in 1 .. Len(ipc_switching_del(db, f))
  PROVE  \E m \in 1 .. Len(db) :
           /\ m # RecordIndex(db, f)
           /\ m = IF k = RecordIndex(db, f) THEN Len(db) ELSE k
           /\ ipc_switching_del(db, f)[k].orig = db[m].orig
           /\ ipc_switching_del(db, f)[k].dest = db[m].dest
<1> DEFINE i == RecordIndex(db, f)
           n == Len(db)
           e == ipc_switching_del(db, f)
           m == IF k = i THEN n ELSE k
<1>1. i \in 1 .. n /\ n \in Nat
  BY RecordIndexFacts
<1>2. e = [j \in 1 .. n - 1 |->
             IF j = i THEN [db[i] EXCEPT !.orig = db[n].orig, !.dest = db[n].dest]
                      ELSE db[j]]
  BY DEF ipc_switching_del
<1>3. e \in Seq(Record) /\ DOMAIN e = 1 .. n - 1
  BY <1>2, SwitchingDelType
<1>4. Len(e) = n - 1
  BY <1>1, <1>3
<1>5. k \in 1 .. n - 1
  BY <1>4
<1>6. m \in 1 .. n /\ m # i
  BY <1>1, <1>5
<1>7. e[k].orig = db[m].orig /\ e[k].dest = db[m].dest
  <2>1. db[i] \in Record
    BY <1>1
  <2>2. CASE k = i
    BY <1>2, <1>5, <2>1, <2>2 DEF Record, Switching
  <2>3. CASE k # i
    BY <1>2, <1>5, <2>3
  <2> QED
    BY <2>2, <2>3
<1> QED
  BY <1>6, <1>7

(* A record is removed with, at most, the connections of its ends.         *)
LEMMA CoherentCut ==
  ASSUME NEW c, NEW d, NEW f, c.switchdb \in Seq(Record), Coherent(c),
         HasRecord(c.switchdb, f),
         Keeps(c, d, Ends(ipc_switching_get_(c.switchdb, f))),
         d.switchdb \in {<<>>, ipc_switching_del(c.switchdb, f)}
  PROVE  Coherent(d)
<1> DEFINE db == c.switchdb
           i == RecordIndex(db, f)
           e == ipc_switching_del(db, f)
           at(k) == IF k = i THEN Len(db) ELSE k
<1>1. CASE d.switchdb = <<>>
  BY <1>1 DEF Coherent
<1>2. CASE d.switchdb = e
  <2>1. i \in 1 .. Len(db) /\ ipc_switching_get_(db, f) = db[i]
    BY RecordIndexFacts DEF ipc_switching_get_
  <2>2. ASSUME NEW k \in 1 .. Len(e)
        PROVE  /\ at(k) \in 1 .. Len(db) /\ at(k) # i
               /\ e[k].orig = db[at(k)].orig /\ e[k].dest = db[at(k)].dest
    BY SwitchingDelEnds
  <2>3. \A k \in 1 .. Len(e) : Ends(e[k]) = Ends(db[at(k)])
    BY <2>2 DEF Ends
  <2>4. \A k, l \in 1 .. Len(e) : k # l => at(k) # at(l)
    <3> SUFFICES ASSUME NEW k \in 1 .. Len(e), NEW l \in 1 .. Len(e), k # l
                 PROVE  at(k) # at(l)
      OBVIOUS
    <3>1. Len(e) = Len(db) - 1
      <4>1. e = [j \in 1 .. Len(db) - 1 |->
                   IF j = i THEN [db[i] EXCEPT !.orig = db[Len(db)].orig,
                                               !.dest = db[Len(db)].dest]
                            ELSE db[j]]
        BY DEF ipc_switching_del
      <4>2. e \in Seq(Record) /\ DOMAIN e = 1 .. Len(db) - 1
        BY <4>1, SwitchingDelType
      <4> QED
        BY <2>1, <4>2
    <3>2. k \in 1 .. Len(db) - 1 /\ l \in 1 .. Len(db) - 1 /\ Len(db) \in Nat
      BY <3>1
    <3> QED
      BY <3>2
  <2> HIDE DEF e, at, db, i
  <2>5. \A m \in 1 .. Len(db) :
          /\ db[m].orig # db[m].dest
          /\ \A g \in Ends(db[m]) : IsSwitched(c, g)
          /\ \A l \in 1 .. Len(db) : l # m => Ends(db[m]) \cap Ends(db[l]) = {}
    BY DEF Coherent, db
  <2>6. \A g : IsSwitched(c, g) /\ g \notin Ends(db[i]) => IsSwitched(d, g)
    BY <2>1 DEF Keeps, db
  <2>7. ASSUME NEW k \in 1 .. Len(e)
        PROVE  /\ e[k].orig # e[k].dest
               /\ \A g \in Ends(e[k]) : IsSwitched(d, g)
               /\ \A l \in 1 .. Len(e) : l # k => Ends(e[k]) \cap Ends(e[l]) = {}
    <3>1. at(k) \in 1 .. Len(db) /\ at(k) # i /\ Ends(e[k]) = Ends(db[at(k)])
      BY <2>2, <2>3
    <3>2. e[k].orig # e[k].dest
      BY <2>2, <2>5
    <3>3. Ends(db[at(k)]) \cap Ends(db[i]) = {}
      BY <2>1, <2>5, <3>1
    <3>4. \A g \in Ends(e[k]) : IsSwitched(d, g)
      BY <2>5, <2>6, <3>1, <3>3
    <3>5. ASSUME NEW l \in 1 .. Len(e), l # k
          PROVE  Ends(e[k]) \cap Ends(e[l]) = {}
      <4>1. at(l) \in 1 .. Len(db) /\ at(l) # at(k) /\ Ends(e[l]) = Ends(db[at(l)])
        BY <2>2, <2>3, <2>4, <3>5
      <4> QED
        BY <2>5, <3>1, <4>1
    <3> QED
      BY <3>2, <3>4, <3>5
  <2> QED
    BY <1>2, <2>7 DEF Coherent
<1> QED
  BY <1>1, <1>2

-----------------------------------------------------------------------------
(* Every step.                                                             *)

(* A connection whose descriptor has another type is not switched.         *)
LEMMA OneType ==
  ASSUME NEW c, NEW F, Good(c, F), NEW i \in 1 .. Len(c.conns),
         c.conns[i].type # "SWITCHED", c.conns[i].fd # NoFd
  PROVE  ~IsSwitched(c, c.conns[i].fd)
BY DEF Good, ConnsOK, IsSwitched, HasType

LEMMA NoType ==
  ASSUME NEW c, NEW F, Good(c, F), NEW f \in Fd, F[f].sort = "closed"
  PROVE  ~IsSwitched(c, f)
BY FdAssumption DEF Good, ConnsOK, Matches, IsSwitched, HasType

(* ipc_close and ipc_del of a connection that is not switched.             *)
LEMMA CoherentEnd ==
  ASSUME NEW c, NEW F, Good(c, F), Coherent(c), NEW i \in 1 .. Len(c.conns),
         c.conns[i].type # "SWITCHED", c.conns[i].fd # NoFd
  PROVE  Coherent(ipc_del(ipc_close(c, c.conns[i].fd), i))
<1> DEFINE f == c.conns[i].fd
           d == ipc_close(c, f)
           e == ipc_del(d, i)
<1>1. d \in Context /\ d.conns = c.conns
  BY GoodClose DEF Good
<1>2. d.switchdb = c.switchdb
  BY DEF ipc_close, Good, Context
<1> HIDE DEF d
<1>3. Keeps(d, e, {f}) /\ e.switchdb \in {c.switchdb, <<>>}
  BY <1>1, <1>2, KeepsDel
<1>4. \A g : IsSwitched(d, g) <=> IsSwitched(c, g)
  BY <1>1 DEF IsSwitched, HasType
<1>5. ~IsSwitched(c, f)
  BY OneType
<1> HIDE DEF e
<1>6. Keeps(c, e, {})
  BY <1>3, <1>4, <1>5 DEF Keeps
<1>7. Coherent(e)
  BY <1>3, <1>6, CoherentKept
<1> QED
  BY <1>7 DEF e, d

(* Both ends of a switching leave once its record is removed.              *)
LEMMA CoherentEndPair ==
  ASSUME NEW c, NEW F, Good(c, F), FilesOK(F), Coherent(c), NEW f \in Fd,
         HasRecord(c.switchdb, f), NEW t \in Seq(Message)
  PROVE  LET d == [c EXCEPT !.tx = t]
         IN  Coherent(ipc_del_fd(ipc_del_fd(ipc_ctx_switching_del(d, f),
                          OtherEnd(ipc_switching_get_(c.switchdb, f), f)), f))
<1> DEFINE db == c.switchdb
           sw == ipc_switching_get_(db, f)
           to == OtherEnd(sw, f)
           d == [c EXCEPT !.tx = t]
           b == ipc_ctx_switching_del(d, f)
           e == ipc_del_fd(b, to)
           h == ipc_del_fd(e, f)
<1>1. c \in Context /\ db \in Seq(Record)
  BY ContextFields DEF Good
<1>2. f \in Ends(sw) /\ to \in Ends(sw)
  BY <1>1, RecordIndexFacts DEF ipc_switching_get_, OtherEnd, Ends
<1>3. ipc_switching_del(db, f) \in Seq(Record)
  BY <1>1, SwitchingDelType
<1>4. b \in Context /\ b.conns = c.conns /\ b.switchdb = ipc_switching_del(db, f)
  BY <1>1, <1>3 DEF ipc_ctx_switching_del, Context, Record
<1>5. Keeps(c, b, {})
  BY <1>4, KeepsSame
<1> HIDE DEF b, to, sw
<1>6. Keeps(b, e, {to}) /\ e.switchdb \in {b.switchdb, <<>>}
  BY <1>4, KeepsDelFd
<1>7. e \in Context
  BY <1>4, DelFdContext
<1> HIDE DEF e
<1>8. Keeps(e, h, {f}) /\ h.switchdb \in {e.switchdb, <<>>}
  BY <1>7, KeepsDelFd
<1> HIDE DEF h
<1>9. Keeps(c, h, ({} \cup {to}) \cup {f})
  BY <1>5, <1>6, <1>8, KeepsChain
<1>10. Keeps(c, h, Ends(sw))
  BY <1>2, <1>9 DEF Keeps
<1>11. h.switchdb \in {<<>>, ipc_switching_del(db, f)}
  BY <1>4, <1>6, <1>8
<1>12. Coherent(h)
  BY <1>1, <1>10, <1>11, CoherentCut DEF sw
<1> QED
  BY <1>12 DEF h, e, b, to, sw

LEMMA AddFacts ==
  ASSUME NEW c \in Context, NEW f \in Fd \cup {NoFd}, NEW type \in ConnType
  PROVE  LET new == [fd |-> f, type |-> type, more_to_read |-> FALSE]
             d   == ipc_add_fd_(c, f, type)
         IN  /\ new \in Connection /\ d \in Context
             /\ d.conns = Append(c.conns, new) /\ d.switchdb = c.switchdb
<1> DEFINE new == [fd |-> f, type |-> type, more_to_read |-> FALSE]
           q   == Append(c.conns, new)
<1>1. new \in Connection
  BY DEF Connection
<1>2. q \in Seq(Connection)
  BY <1>1, ContextFields
<1>3. ipc_add_fd_(c, f, type) = [c EXCEPT !.conns = q]
  BY DEF ipc_add_fd_
<1> DEFINE d == ipc_add_fd_(c, f, type)
<1> HIDE DEF q
<1>4. d \in Context /\ d.conns = q /\ d.switchdb = c.switchdb
  BY <1>2, <1>3, ContextConns
<1> HIDE DEF d, new
<1> QED
  BY <1>1, <1>4 DEF q, d, new

(* A connection is added.                                                  *)
LEMMA CoherentAdd ==
  ASSUME NEW c, NEW F, Good(c, F), Coherent(c), NEW f \in Fd \cup {NoFd}, NEW type \in ConnType
  PROVE  Coherent(ipc_add_fd_(c, f, type))
<1> DEFINE new == [fd |-> f, type |-> type, more_to_read |-> FALSE]
           d == ipc_add_fd_(c, f, type)
<1>1. c \in Context /\ new \in Connection
  BY DEF Good, Connection
<1>2. d.conns = Append(c.conns, new) /\ d.switchdb = c.switchdb
  BY <1>1 DEF ipc_add_fd_, Context
<1> HIDE DEF new, d
<1>3. Keeps(c, d, {})
  BY <1>1, <1>2, KeepsAppend
<1>4. Coherent(d)
  BY <1>2, <1>3, CoherentKept
<1> QED
  BY <1>4 DEF d

(* ipc_connection_switched: two new connections and their record.          *)
LEMMA CoherentSwitch ==
  ASSUME IInv, Coherent(ctx), NEW c \in Fd, NEW s \in Fd, ConnectSwitched(c, s)
  PROVE  Coherent(ctx')
<1> DEFINE cs == [fd |-> s, type |-> "SWITCHED", more_to_read |-> FALSE]
           cc == [fd |-> c, type |-> "SWITCHED", more_to_read |-> FALSE]
           r == [orig |-> c, dest |-> s, orig_in |-> Null, orig_out |-> Null,
                 dest_in |-> Null, dest_out |-> Null]
           d == ipc_add_fd_(ctx, s, "SWITCHED")
           e == ipc_add_fd_(d, c, "SWITCHED")
           db == ctx.switchdb
           n == Len(db)
<1>1. Good(ctx, files) /\ ctx \in Context /\ db \in Seq(Record) /\ n \in Nat
  BY ContextFields DEF IInv, Good
<1>2. files[c].sort = "closed" /\ files[s].sort = "closed" /\ c # s
  BY DEF ConnectSwitched, Free, IsOpen
<1>3. ~IsSwitched(ctx, c) /\ ~IsSwitched(ctx, s)
  BY <1>1, <1>2, NoType
<1>4. cs \in Connection /\ cc \in Connection
  BY DEF Connection, ConnType
<1>5. d.conns = Append(ctx.conns, cs) /\ d \in Context /\ d.switchdb = db
  BY <1>1, AddFacts DEF ConnType
<1> HIDE DEF d
<1>6. e.conns = Append(d.conns, cc) /\ e \in Context /\ e.switchdb = db
  BY <1>5, AddFacts DEF ConnType
<1> HIDE DEF e
<1>7. ctx'.conns = e.conns /\ ctx'.switchdb = Append(db, r)
  <2>1. ctx' = [e EXCEPT !.switchdb = ipc_switching_add(e.switchdb, c, s)]
    BY DEF ConnectSwitched, ipc_ctx_switching_add, e, d
  <2>2. ipc_switching_add(e.switchdb, c, s) = Append(db, r)
    BY <1>6 DEF ipc_switching_add
  <2> QED
    BY <1>6, <2>1, <2>2 DEF Context
<1>8. Keeps(ctx, d, {}) /\ IsSwitched(d, s)
  BY <1>1, <1>4, <1>5, KeepsAppend
<1>9. Keeps(d, e, {}) /\ IsSwitched(e, c)
  BY <1>4, <1>5, <1>6, KeepsAppend
<1>10. \A g : IsSwitched(ctx', g) <=> IsSwitched(e, g)
  BY <1>7 DEF IsSwitched, HasType
<1>11. /\ \A g : IsSwitched(ctx, g) => IsSwitched(ctx', g)
       /\ IsSwitched(ctx', c) /\ IsSwitched(ctx', s)
  BY <1>8, <1>9, <1>10 DEF Keeps
<1>12. \A k \in 1 .. n :
         /\ db[k].orig # db[k].dest
         /\ \A f \in Ends(db[k]) : IsSwitched(ctx, f)
         /\ \A l \in 1 .. n : l # k => Ends(db[k]) \cap Ends(db[l]) = {}
  BY DEF Coherent
<1> HIDE DEF r
<1>13. Ends(r) = {c, s} /\ r.orig # r.dest
  BY <1>2 DEF r, Ends
<1>14. \A k \in 1 .. n : Ends(db[k]) \cap Ends(r) = {}
  BY <1>3, <1>12, <1>13
<1> DEFINE new == Append(db, r)
<1>15. Len(new) = n + 1 /\ new[n + 1] = r /\ \A k \in 1 .. n : new[k] = db[k]
  BY <1>1
<1> HIDE DEF new, db, n
<1>16. ASSUME NEW k \in 1 .. Len(new)
       PROVE  /\ new[k].orig # new[k].dest
              /\ \A f \in Ends(new[k]) : IsSwitched(ctx', f)
              /\ \A l \in 1 .. Len(new) : l # k => Ends(new[k]) \cap Ends(new[l]) = {}
  <2>1. CASE k = n + 1
    <3>1. new[k] = r
      BY <1>15, <2>1
    <3>2. ASSUME NEW l \in 1 .. Len(new), l # k
          PROVE  Ends(new[k]) \cap Ends(new[l]) = {}
      <4>1. l \in 1 .. n /\ new[l] = db[l]
        BY <1>1, <1>15, <2>1, <3>2
      <4> QED
        BY <1>14, <3>1, <4>1
    <3> QED
      BY <1>11, <1>13, <3>1, <3>2
  <2>2. CASE k # n + 1
    <3>1. k \in 1 .. n /\ new[k] = db[k]
      BY <1>1, <1>15, <2>2
    <3>2. ASSUME NEW l \in 1 .. Len(new), l # k
          PROVE  Ends(new[k]) \cap Ends(new[l]) = {}
      <4>1. CASE l = n + 1
        BY <1>14, <1>15, <3>1, <4>1
      <4>2. CASE l # n + 1
        <5>1. l \in 1 .. n /\ new[l] = db[l]
          BY <1>1, <1>15, <4>2
        <5> QED
          BY <1>12, <3>1, <3>2, <5>1
      <4> QED
        BY <4>1, <4>2
    <3> QED
      BY <1>11, <1>12, <3>1, <3>2
  <2> QED
    BY <2>1, <2>2
<1> QED
  BY <1>7, <1>16 DEF Coherent, new

(* ipc_switching_callbacks leaves the ends of the records alone.           *)
LEMMA CoherentCallbacks ==
  ASSUME NEW c \in Context, Coherent(c), NEW f, NEW in, NEW out, HasRecord(c.switchdb, f)
  PROVE  Coherent([c EXCEPT !.switchdb = ipc_switching_callbacks(@, f, in, out)])
<1> DEFINE db == c.switchdb
           i == RecordIndex(db, f)
           new == ipc_switching_callbacks(db, f, in, out)
           d == [c EXCEPT !.switchdb = new]
<1>1. db \in Seq(Record) /\ i \in 1 .. Len(db)
  BY ContextFields, RecordIndexFacts
<1>2. \A k \in 1 .. Len(db) : db[k] \in Record
  BY <1>1
<1>3. new = IF db[i].orig = f
            THEN [db EXCEPT ![i].orig_in = in, ![i].orig_out = out]
            ELSE [db EXCEPT ![i].dest_in = in, ![i].dest_out = out]
  BY DEF ipc_switching_callbacks
<1>4. Len(new) = Len(db)
  BY <1>1, <1>3
<1>5. \A k \in 1 .. Len(db) : new[k].orig = db[k].orig /\ new[k].dest = db[k].dest
  BY <1>1, <1>2, <1>3 DEF Record, Switching
<1>6. d.conns = c.conns /\ d.switchdb = new
  BY DEF Context
<1> HIDE DEF new, d
<1>7. \A k \in 1 .. Len(db) : Ends(new[k]) = Ends(db[k])
  BY <1>5 DEF Ends
<1>8. \A g : IsSwitched(d, g) <=> IsSwitched(c, g)
  BY <1>6 DEF IsSwitched, HasType
<1>9. Coherent(d)
  BY <1>4, <1>5, <1>6, <1>7, <1>8 DEF Coherent
<1> QED
  BY <1>9 DEF d, new

(* Steps that leave the connections and the records as they are.           *)
LEMMA CoherentSame ==
  ASSUME NEW c, NEW d, Coherent(c), d.conns = c.conns, d.switchdb = c.switchdb
  PROVE  Coherent(d)
BY KeepsSame, CoherentKept

LEMMA CoherentMore ==
  ASSUME NEW c \in Context, Coherent(c), NEW i \in 1 .. Len(c.conns), NEW more \in BOOLEAN
  PROVE  Coherent(MoreToRead(c, i, more))
BY KeepsMore, CoherentKept

LEMMA WriteSame ==
  ASSUME NEW c \in Context, NEW m
  PROVE  ipc_write(c, m).conns = c.conns /\ ipc_write(c, m).switchdb = c.switchdb
BY DEF ipc_write, Context

(* The calls of the application.                                           *)
LEMMA CoherentApplication ==
  ASSUME IInv, Coherent(ctx), Application
  PROVE  Coherent(ctx')
<1>1. Good(ctx, files) /\ ctx \in Context /\ FilesOK(files)
  BY DEF IInv, Good
<1>2. ASSUME NEW f \in Fd, ServerInit(f) \/ Connect(f) \/ AddFd(f)
      PROVE  Coherent(ctx')
  <2>1. PICK type \in ConnType : ctx' = ipc_add_fd_(ctx, f, type)
    BY <1>2, Zenon DEF ServerInit, Connect, AddFd, ConnType
  <2> QED
    BY <1>1, <2>1, CoherentAdd
<1>3. ASSUME NEW c \in Fd, NEW s \in Fd, ConnectSwitched(c, s)
      PROVE  Coherent(ctx')
  BY <1>3, CoherentSwitch
<1>4. ASSUME NEW f \in Fd, NEW cb \in Callback, SetCallbacks(f, cb) \/ SetCallbackIn(f, cb)
      PROVE  Coherent(ctx')
  BY <1>1, <1>4, CoherentCallbacks DEF SetCallbacks, SetCallbackIn
<1>5. ASSUME NEW f \in Fd, NEW kind \in Payload, Write(f, kind)
      PROVE  Coherent(ctx')
  BY <1>1, <1>5, WriteSame, CoherentSame DEF Write
<1>6. ASSUME NEW i \in 1 .. Len(ctx.conns), CloseConnection(i)
      PROVE  Coherent(ctx')
  BY <1>1, <1>6, CoherentEnd DEF CloseConnection
<1>7. ASSUME NEW f \in Fd, handle_disconnection(f)
      PROVE  Coherent(ctx')
  <2>1. ctx.tx \in Seq(Message) /\ [ctx EXCEPT !.tx = ctx.tx] = ctx
    BY <1>1, ContextFields DEF Context
  <2>2. HasRecord(ctx.switchdb, f)
    BY <1>7 DEF handle_disconnection
  <2>3. Coherent(ipc_del_fd(ipc_del_fd(ipc_ctx_switching_del(ctx, f),
                   OtherEnd(ipc_switching_get_(ctx.switchdb, f), f)), f))
    BY <1>1, <2>1, <2>2, CoherentEndPair
  <2> QED
    BY <1>7, <2>3 DEF handle_disconnection
<1>8. ASSUME NEW f \in Fd, CloseForgotten(f)
      PROVE  Coherent(ctx')
  BY <1>8 DEF CloseForgotten
<1>9. ASSUME Shutdown
      PROVE  Coherent(ctx')
  <2>1. ctx'.switchdb = <<>>
    BY <1>1, <1>9 DEF Shutdown, ipc_ctx_free, ipc_close_all, Context
  <2> QED
    BY <2>1 DEF Coherent
<1> QED
  BY <1>2, <1>3, <1>4, <1>5, <1>6, <1>7, <1>8, <1>9 DEF Application

(* fd_switching_read: a pair is given up with its record.                  *)
LEMMA CoherentSwitchingRead ==
  ASSUME IInv, Coherent(ctx), NEW i \in 1 .. Len(ctx.conns), fd_switching_read(i)
  PROVE  Coherent(ctx')
<1> DEFINE f  == ctx.conns[i].fd
           db == ctx.switchdb
           sw == ipc_switching_get_(db, f)
<1>1. Good(ctx, files) /\ ctx \in Context /\ FilesOK(files) /\ db \in Seq(Record)
  BY ContextFields DEF IInv, Good
<1>2. CASE ~HasRecord(db, f)
  BY <1>1, <1>2, CoherentMore DEF fd_switching_read
<1>3. CASE HasRecord(db, f)
  <2>1. f \in Fd /\ files[f].sort = "sock"
    <3>1. ctx.conns[i].type = "SWITCHED"
      BY DEF fd_switching_read, FirstIn
    <3> QED
      BY <1>1, <3>1, ContextFields, FdAssumption DEF Good, ConnsOK, Matches
  <2>2. files[f] \in File(Body) /\ \A b \in 1 .. Len(files[f].rx) : files[f].rx[b].kind \in Kinds
    BY <1>1, <2>1 DEF FilesOK
  <2>3. PICK in \in InResults(InCallback(sw, f), files[f]) :
          LET c == MoreToRead(ctx, i, in.more)
          IN  \/ \E m : ctx' = ipc_write(c, m)
              \/ ctx' = c
              \/ ctx' = ipc_ctx_switching_del(ipc_del_fd(ipc_del_fd(c, sw.dest), f), f)
    BY <1>3 DEF fd_switching_read
  <2>4. in.more \in BOOLEAN
    BY <2>2, InResultsFacts
  <2> DEFINE c == MoreToRead(ctx, i, in.more)
  <2>5. Keeps(ctx, c, {}) /\ c.switchdb = db
    BY <1>1, <2>4, KeepsMore
  <2>6. Coherent(c)
    BY <1>1, <2>4, CoherentMore
  <2>7. c \in Context
    BY <1>1, <2>4, KeepsMore
  <2> HIDE DEF c
  <2>8. ASSUME NEW m, ctx' = ipc_write(c, m)
        PROVE  Coherent(ctx')
    BY <2>6, <2>7, <2>8, WriteSame, CoherentSame
  <2>9. ASSUME ctx' = ipc_ctx_switching_del(ipc_del_fd(ipc_del_fd(c, sw.dest), f), f)
        PROVE  Coherent(ctx')
    <3> DEFINE d == ipc_del_fd(c, sw.dest)
               e == ipc_del_fd(d, f)
    <3>1. Keeps(c, d, {sw.dest}) /\ d.switchdb \in {db, <<>>} /\ d \in Context
      BY <2>5, <2>7, KeepsDelFd, DelFdContext
    <3> HIDE DEF d
    <3>2. Keeps(d, e, {f}) /\ e.switchdb \in {db, <<>>} /\ e \in Context
      BY <3>1, KeepsDelFd, DelFdContext
    <3> HIDE DEF e
    <3>3. ctx' = [e EXCEPT !.switchdb = ipc_switching_del(e.switchdb, f)]
      BY <2>9 DEF d, e, ipc_ctx_switching_del
    <3>4. ctx'.conns = e.conns /\ ctx'.switchdb = ipc_switching_del(e.switchdb, f)
      BY <3>2, <3>3 DEF Context
    <3>5. ipc_switching_del(<<>>, f) = <<>>
      BY DEF ipc_switching_del, HasRecord
    <3>6. ctx'.switchdb \in {<<>>, ipc_switching_del(db, f)}
      BY <3>2, <3>4, <3>5
    <3>7. Keeps(e, ctx', {})
      BY <3>4, KeepsSame
    <3>8. Keeps(ctx, ctx', (({} \cup {sw.dest}) \cup {f}) \cup {})
      BY <2>5, <3>1, <3>2, <3>7, KeepsChain
    <3>9. f \in Ends(sw) /\ sw.dest \in Ends(sw)
      BY <1>1, <1>3, RecordIndexFacts DEF ipc_switching_get_, Ends
    <3>10. Keeps(ctx, ctx', Ends(sw))
      BY <3>8, <3>9 DEF Keeps
    <3> QED
      BY <1>1, <1>3, <3>6, <3>10, CoherentCut
  <2> QED
    BY <2>3, <2>6, <2>8, <2>9 DEF c
<1> QED
  BY <1>2, <1>3

(* The other half of ipc_wait_event.                                       *)
LEMMA CoherentServe ==
  ASSUME IInv, Coherent(ctx), NEW i \in 1 .. Len(ctx.conns), Serve(i)
  PROVE  Coherent(ctx')
<1> DEFINE f == ctx.conns[i].fd
<1>1. Good(ctx, files) /\ ctx \in Context /\ FilesOK(files) /\ ctx.tx \in Seq(Message)
  BY ContextFields DEF IInv, Good
<1>2. CASE ipc_accept_add(i)
  <2>1. PICK g \in Fd \cup {NoFd} : ctx' = ipc_add_fd_(ctx, g, "IPC")
    BY <1>1, <1>2 DEF ipc_accept_add, Free, FilesOK, IsOpen
  <2> QED
    BY <1>1, <2>1, CoherentAdd DEF ConnType
<1>3. CASE ExtraSocket(i)
  BY <1>1, <1>3, CoherentMore DEF ExtraSocket
<1>4. CASE handle_new_message(i)
  <2>1. f # NoFd /\ ctx.conns[i].type # "SWITCHED"
    BY <1>1, <1>4, FirstFacts, FdAssumption DEF handle_new_message, FirstIn
  <2>2. ctx' = MoreToRead(ctx, i, FALSE) \/ ctx' = ipc_del(ipc_close(ctx, f), i)
    BY <1>4 DEF handle_new_message
  <2> QED
    BY <1>1, <2>1, <2>2, CoherentMore, CoherentEnd
<1>5. CASE fd_switching_read(i)
  BY <1>5, CoherentSwitchingRead
<1>6. CASE handle_writing_message(i)
  <2>1. ctx'.conns = ctx.conns /\ ctx'.switchdb = ctx.switchdb
    BY <1>1, <1>6 DEF handle_writing_message, Context
  <2> QED
    BY <2>1, CoherentSame
<1>7. CASE fd_switching_write(i)
  <2> DEFINE t == ipc_messages_del(ctx.tx, FirstFor(ctx.tx, f))
             d == [ctx EXCEPT !.tx = t]
  <2>1. f \in Fd /\ t \in Seq(Message)
    BY <1>1, <1>7, FirstOutFacts, SwapRemoveFacts DEF fd_switching_write, ipc_messages_del
  <2>2. d.conns = ctx.conns /\ d.switchdb = ctx.switchdb
    BY <1>1 DEF Context
  <2>3. HasRecord(ctx.switchdb, f) =>
          Coherent(ipc_del_fd(ipc_del_fd(ipc_ctx_switching_del(d, f),
                       OtherEnd(ipc_switching_get_(ctx.switchdb, f), f)), f))
    BY <1>1, <2>1, CoherentEndPair
  <2>4. \/ ctx' = ctx \/ ctx' = d
        \/ /\ HasRecord(ctx.switchdb, f)
           /\ ctx' = ipc_del_fd(ipc_del_fd(ipc_ctx_switching_del(d, f),
                       OtherEnd(ipc_switching_get_(ctx.switchdb, f), f)), f)
    BY <1>7 DEF fd_switching_write
  <2> HIDE DEF d
  <2> QED
    BY <2>2, <2>3, <2>4, CoherentSame
<1>8. CASE HangUp(i)
  <2>1. ctx'.conns = ctx.conns /\ ctx'.switchdb = ctx.switchdb
    BY <1>1, <1>8 DEF HangUp, ipc_close, Context
  <2> QED
    BY <2>1, CoherentSame
<1>9. CASE PollError(i)
  BY <1>9 DEF PollError
<1> QED
  BY <1>2, <1>3, <1>4, <1>5, <1>6, <1>7, <1>8, <1>9 DEF Serve

(* The application removes an external descriptor that ended.              *)
LEMMA CoherentHandleEvent ==
  ASSUME IInv, Coherent(ctx), HandleEvent
  PROVE  Coherent(ctx')
<1> DEFINE f == event.origin
<1>1. Good(ctx, files) /\ ctx \in Context
  BY DEF IInv, Good
<1>2. CASE ctx' = ctx
  BY <1>2
<1>3. CASE HasType(ctx, f, "EXTERNAL") /\ ctx' = ipc_del_fd(ctx, f)
  <2>1. PICK k \in 1 .. Len(ctx.conns) : ctx.conns[k].fd = f /\ ctx.conns[k].type = "EXTERNAL"
    BY <1>3 DEF HasType
  <2>2. f # NoFd
    BY <1>1, <2>1 DEF Good, ConnsOK
  <2>3. ~IsSwitched(ctx, f)
    BY <1>1, <2>1, <2>2, OneType
  <2>4. Keeps(ctx, ctx', {f}) /\ ctx'.switchdb \in {ctx.switchdb, <<>>}
    BY <1>1, <1>3, KeepsDelFd
  <2>5. Keeps(ctx, ctx', {})
    BY <2>3, <2>4 DEF Keeps
  <2> QED
    BY <2>4, <2>5, CoherentKept
<1> QED
  BY <1>2, <1>3 DEF HandleEvent

LEMMA CoherentNext == IInv /\ Coherent(ctx) /\ [Next]_vars => Coherent(ctx)'
<1> SUFFICES ASSUME IInv, Coherent(ctx), [Next]_vars
             PROVE  Coherent(ctx')
  BY DEF Coherent, IsSwitched, HasType
<1>1. CASE Application
  BY <1>1, CoherentApplication
<1>2. CASE EventLoop
  <2>1. CASE PollReady \/ PollTimeout
    BY <2>1 DEF PollReady, PollTimeout
  <2>2. ASSUME NEW i \in 1 .. Len(ctx.conns), Serve(i)
        PROVE  Coherent(ctx')
    BY <2>2, CoherentServe
  <2>3. CASE HandleEvent
    BY <2>3, CoherentHandleEvent
  <2> QED
    BY <1>2, <2>1, <2>2, <2>3 DEF EventLoop, ipc_wait_event
<1>3. CASE Peers
  BY <1>3 DEF Peers, PeerConnect, PeerSend, PeerLeave
<1>4. CASE Killed \/ UNCHANGED vars
  BY <1>4 DEF Killed, vars
<1> QED
  BY <1>1, <1>2, <1>3, <1>4 DEF Next

(* Both ends of every switching record stay connections of the context,    *)
(* and no descriptor is in two records, through the removal by exchange of *)
(* ipc_del and ipc_switching_del and whichever end of a pair fails first.  *)
THEOREM SwitchingsCoherent == Spec => []SwitchdbCoherent
<1>1. Init => Coherent(ctx)
  BY DEF Init, EmptyContext, Coherent
<1>2. Coherent(ctx) => SwitchdbCoherent
  BY DEF Coherent, SwitchdbCoherent, IsSwitched
<1> QED
  BY <1>1, <1>2, IInvAlways, CoherentNext, PTL DEF Spec

-----------------------------------------------------------------------------
(***************************************************************************)
(* What a switched pair can rely on.  Two messages that arrive together    *)
(* are a parsing error; a service that leaves, or a callback that fails,   *)
(* leaves its client without a record.  Without these the pair is served   *)
(* until it is removed as a whole.                                         *)
(***************************************************************************)

(* A file that is not a listening socket has one message at most to read.  *)
OneQueued(F) == \A f \in Fd : F[f].sort # "listen" => Len(F[f].rx) <= 1

(* No connection asks to be read again, or listens.                        *)
Calm(c) ==
  \A i \in 1 .. Len(c.conns) :
    /\ ~c.conns[i].more_to_read
    /\ "server" \notin Calls => c.conns[i].type # "SERVER"

(* SwitchedHasRecord, for any context.                                     *)
Recorded(c) == \A g : IsSwitched(c, g) => HasRecord(c.switchdb, g)

(* The services of the pairs are there.                                    *)
DestUp(c, F) == \A k \in 1 .. Len(c.switchdb) : F[c.switchdb[k].dest].peer = "up"

(* A connection that poll(2) reported as readable has something to read,   *)
(* or its end.                                                             *)
InInv ==
  pc = "polled" =>
    \A i \in 1 .. Len(ctx.conns) :
      "IN" \in revents[i] =>
        files[ctx.conns[i].fd].rx # <<>> \/ files[ctx.conns[i].fd].peer # "up"

(* The inductive invariant, beside IInv and Coherent.                      *)
PairsOK(c, F) == OneQueued(F) /\ Calm(c) /\ Recorded(c) /\ DestUp(c, F)
PairInv == PairsOK(ctx, files) /\ InInv

(* From table F to table G no peer leaves and nothing arrives.             *)
Milder(F, G) ==
  \A f \in Fd :
    /\ F[f].peer = "up" => G[f].peer = "up"
    /\ G[f].sort # "listen" =>
         G[f].rx = <<>> \/ (G[f].rx = F[f].rx /\ F[f].sort # "listen")

(* Every connection of context d is one of context c.                      *)
Within(d, c) ==
  \A i \in 1 .. Len(d.conns) : \E j \in 1 .. Len(c.conns) : d.conns[i] = c.conns[j]

LEMMA MilderQueued ==
  ASSUME NEW F, NEW G, OneQueued(F), Milder(F, G)
  PROVE  OneQueued(G)
BY DEF OneQueued, Milder

LEMMA MilderChain ==
  ASSUME NEW F, NEW G, NEW H, Milder(F, G), Milder(G, H)
  PROVE  Milder(F, H)
BY DEF Milder

LEMMA MilderSame ==
  ASSUME NEW F PROVE Milder(F, F)
BY DEF Milder

LEMMA MilderClose ==
  ASSUME NEW F \in [Fd -> File(Body)], NEW f \in Fd
  PROVE  Milder(F, CloseFile(F, f))
BY DEF Milder, CloseFile, ClosedFile

LEMMA MilderOpen ==
  ASSUME NEW F \in [Fd -> File(Body)], NEW f \in Fd, NEW id, NEW sort
  PROVE  Milder(F, OpenFile(F, f, id, sort)) /\ OpenFile(F, f, id, sort)[f].peer = "up"
BY DEF Milder, OpenFile

(* Reading: all that waits on a connection, or one request of a listening  *)
(* socket.                                                                 *)
LEMMA MilderRead ==
  ASSUME NEW F \in [Fd -> File(Body)], NEW f \in Fd, NEW rx,
         rx = <<>> \/ F[f].sort = "listen"
  PROVE  Milder(F, WithRx(F, f, rx))
<1> DEFINE G == WithRx(F, f, rx)
<1>1. F[f] \in File(Body)
  OBVIOUS
<1>2. G[f].rx = rx /\ G[f].sort = F[f].sort /\ G[f].peer = F[f].peer
  BY <1>1 DEF WithRx, File
<1>3. \A g \in Fd \ {f} : G[g] = F[g]
  BY DEF WithRx
<1> HIDE DEF G
<1>4. Milder(F, G)
  BY <1>2, <1>3 DEF Milder
<1> QED
  BY <1>4 DEF G

(* The pairs whose services are there.                                     *)
LEMMA DestInFd ==
  ASSUME NEW c \in Context
  PROVE  \A l \in 1 .. Len(c.switchdb) : c.switchdb[l].dest \in Fd
<1>1. c.switchdb \in Seq(Record)
  BY ContextFields
<1>2. \A l \in 1 .. Len(c.switchdb) : c.switchdb[l] \in Record
  BY <1>1
<1>3. \A r \in Record : r.dest \in Fd
  BY DEF Record, Switching
<1> QED
  BY <1>2, <1>3

LEMMA DestUpPeer ==
  ASSUME NEW c \in Context, NEW F, NEW G, DestUp(c, F),
         \A g \in Fd : G[g].peer = F[g].peer
  PROVE  DestUp(c, G)
BY DestInFd DEF DestUp

LEMMA DestUpKept ==
  ASSUME NEW c \in Context, NEW d, NEW F, NEW G, DestUp(c, F), Milder(F, G),
         \A k \in 1 .. Len(d.switchdb) :
           \E l \in 1 .. Len(c.switchdb) : d.switchdb[k].dest = c.switchdb[l].dest
  PROVE  DestUp(d, G)
<1>1. \A l \in 1 .. Len(c.switchdb) : c.switchdb[l].dest \in Fd
  BY DestInFd
<1> SUFFICES ASSUME NEW k \in 1 .. Len(d.switchdb)
             PROVE  G[d.switchdb[k].dest].peer = "up"
  BY DEF DestUp
<1>2. PICK l \in 1 .. Len(c.switchdb) : d.switchdb[k].dest = c.switchdb[l].dest
  OBVIOUS
<1>3. F[c.switchdb[l].dest].peer = "up" /\ c.switchdb[l].dest \in Fd
  BY <1>1 DEF DestUp
<1> QED
  BY <1>2, <1>3 DEF Milder

LEMMA DestUpSame ==
  ASSUME NEW c \in Context, NEW d, NEW F, NEW G, DestUp(c, F), Milder(F, G),
         d.switchdb \in {c.switchdb, <<>>}
  PROVE  DestUp(d, G)
<1>1. \A k \in 1 .. Len(d.switchdb) :
        \E l \in 1 .. Len(c.switchdb) : d.switchdb[k].dest = c.switchdb[l].dest
  <2>1. CASE d.switchdb = c.switchdb
    BY <2>1
  <2>2. CASE d.switchdb = <<>>
    BY <2>2
  <2> QED
    BY <2>1, <2>2
<1> QED
  BY <1>1, DestUpKept

LEMMA DestUpCut ==
  ASSUME NEW c \in Context, NEW d, NEW F, NEW G, NEW f, DestUp(c, F), Milder(F, G),
         HasRecord(c.switchdb, f),
         d.switchdb \in {<<>>, ipc_switching_del(c.switchdb, f)}
  PROVE  DestUp(d, G)
<1>0. c.switchdb \in Seq(Record)
  BY ContextFields
<1>1. \A k \in 1 .. Len(d.switchdb) :
        \E l \in 1 .. Len(c.switchdb) : d.switchdb[k].dest = c.switchdb[l].dest
  <2>1. CASE d.switchdb = <<>>
    BY <2>1
  <2>2. CASE d.switchdb = ipc_switching_del(c.switchdb, f)
    BY <1>0, <2>2, SwitchingDelEnds
  <2> QED
    BY <2>1, <2>2
<1> QED
  BY <1>1, DestUpKept

(* ipc_del and ipc_del_fd add nothing, and lose records only with the last *)
(* connection.                                                             *)
LEMMA WithinDel ==
  ASSUME NEW c \in Context, NEW i \in 1 .. Len(c.conns)
  PROVE  /\ Within(ipc_del(c, i), c)
         /\ ipc_del(c, i).switchdb = c.switchdb \/ ipc_del(c, i).conns = <<>>
<1> DEFINE n == Len(c.conns)
           d == ipc_del(c, i)
           t == ipc_remove_messages_for_fd(c.tx, c.conns[i].fd)
<1>1. c.conns \in Seq(Connection) /\ n \in Nat
  BY ContextFields
<1>2. d = IF n = 1 THEN [c EXCEPT !.tx = t, !.conns = <<>>, !.switchdb = <<>>]
                   ELSE [c EXCEPT !.tx = t, !.conns = SwapRemove(c.conns, i)]
  BY DEF ipc_del, ipc_ctx_free, Context
<1> HIDE DEF d, t
<1>3. CASE n = 1
  <2>1. d.conns = <<>>
    BY <1>2, <1>3 DEF Context
  <2> QED
    BY <2>1 DEF Within, d
<1>4. CASE n # 1
  <2>1. d.conns = SwapRemove(c.conns, i) /\ d.switchdb = c.switchdb
    BY <1>2, <1>4 DEF Context
  <2>2. Len(SwapRemove(c.conns, i)) = n - 1
        /\ \A k \in 1 .. n - 1 :
             SwapRemove(c.conns, i)[k] = IF k = i THEN c.conns[n] ELSE c.conns[k]
    BY <1>1, SwapRemoveFacts
  <2>3. ASSUME NEW k \in 1 .. Len(d.conns)
        PROVE  \E j \in 1 .. n : d.conns[k] = c.conns[j]
    <3>1. k \in 1 .. n - 1 /\ k \in 1 .. n /\ n \in 1 .. n
      BY <1>1, <2>1, <2>2
    <3> QED
      BY <2>1, <2>2, <3>1
  <2> QED
    BY <2>1, <2>3 DEF Within, d
<1> QED
  BY <1>3, <1>4

LEMMA WithinDelFd ==
  ASSUME NEW c \in Context, NEW f
  PROVE  /\ Within(ipc_del_fd(c, f), c)
         /\ ipc_del_fd(c, f).switchdb = c.switchdb \/ ipc_del_fd(c, f).conns = <<>>
<1>1. CASE ~Registered(c, f)
  BY <1>1 DEF ipc_del_fd, Within
<1>2. CASE Registered(c, f)
  <2>1. IndexOf(c, f) \in 1 .. Len(c.conns)
    BY <1>2, IndexOfFacts
  <2> QED
    BY <1>2, <2>1, WithinDel DEF ipc_del_fd
<1> QED
  BY <1>1, <1>2

LEMMA WithinChain ==
  ASSUME NEW c, NEW d, NEW e, Within(d, c), Within(e, d)
  PROVE  Within(e, c)
<1> SUFFICES ASSUME NEW i \in 1 .. Len(e.conns)
             PROVE  \E j \in 1 .. Len(c.conns) : e.conns[i] = c.conns[j]
  BY DEF Within
<1>1. PICK j \in 1 .. Len(d.conns) : e.conns[i] = d.conns[j]
  BY DEF Within
<1> QED
  BY <1>1 DEF Within

LEMMA WithinSame ==
  ASSUME NEW c, NEW d, d.conns = c.conns
  PROVE  Within(d, c)
BY DEF Within

LEMMA WithinCalm ==
  ASSUME NEW c, NEW d, Within(d, c), Calm(c)
  PROVE  Calm(d)
<1> SUFFICES ASSUME NEW i \in 1 .. Len(d.conns)
             PROVE  /\ ~d.conns[i].more_to_read
                    /\ "server" \notin Calls => d.conns[i].type # "SERVER"
  BY DEF Calm
<1>1. PICK j \in 1 .. Len(c.conns) : d.conns[i] = c.conns[j]
  BY DEF Within
<1> QED
  BY <1>1 DEF Calm

LEMMA WithinSwitched ==
  ASSUME NEW c, NEW d, Within(d, c), NEW g, IsSwitched(d, g)
  PROVE  IsSwitched(c, g)
<1>1. PICK i \in 1 .. Len(d.conns) : d.conns[i].fd = g /\ d.conns[i].type = "SWITCHED"
  BY DEF IsSwitched, HasType
<1>2. PICK j \in 1 .. Len(c.conns) : d.conns[i] = c.conns[j]
  BY DEF Within
<1> QED
  BY <1>1, <1>2 DEF IsSwitched, HasType

(* Connections leave and the records stay.                                 *)
LEMMA RecordedWithin ==
  ASSUME NEW c, NEW d, Recorded(c), Within(d, c),
         d.switchdb = c.switchdb \/ d.conns = <<>>
  PROVE  Recorded(d)
<1> SUFFICES ASSUME NEW g, IsSwitched(d, g) PROVE HasRecord(d.switchdb, g)
  BY DEF Recorded
<1>1. d.conns # <<>>
  BY DEF IsSwitched, HasType
<1>2. IsSwitched(c, g)
  BY WithinSwitched
<1> QED
  BY <1>1, <1>2 DEF Recorded

(* ipc_switching_del keeps the records of all other descriptors.           *)
LEMMA SwitchingDelKeeps ==
  ASSUME NEW db \in Seq(Record), NEW f, HasRecord(db, f), NEW g, HasRecord(db, g),
         g \notin Ends(ipc_switching_get_(db, f))
  PROVE  HasRecord(ipc_switching_del(db, f), g)
<1> DEFINE i == RecordIndex(db, f)
           n == Len(db)
           e == ipc_switching_del(db, f)
<1>1. i \in 1 .. n /\ n \in Nat /\ ipc_switching_get_(db, f) = db[i]
  BY RecordIndexFacts DEF ipc_switching_get_
<1>2. e = [j \in 1 .. n - 1 |->
             IF j = i THEN [db[i] EXCEPT !.orig = db[n].orig, !.dest = db[n].dest]
                      ELSE db[j]]
  BY DEF ipc_switching_del
<1>3. e \in Seq(Record) /\ DOMAIN e = 1 .. n - 1
  BY <1>2, SwitchingDelType
<1>4. Len(e) = n - 1
  BY <1>1, <1>3
<1>5. PICK k \in 1 .. n : g \in Ends(db[k])
  BY DEF HasRecord
<1>6. k # i
  BY <1>1, <1>5
<1>7. CASE k # n
  <2>1. k \in 1 .. n - 1
    BY <1>1, <1>7
  <2>2. e[k] = db[k]
    BY <1>2, <1>6, <2>1
  <2> QED
    BY <1>4, <1>5, <2>1, <2>2 DEF HasRecord
<1>8. CASE k = n
  <2>1. i \in 1 .. n - 1
    BY <1>1, <1>6, <1>8
  <2>2. db[i] \in Record
    BY <1>1
  <2>3. e[i].orig = db[n].orig /\ e[i].dest = db[n].dest
    BY <1>2, <2>1, <2>2 DEF Record, Switching
  <2>4. g \in Ends(e[i])
    BY <1>5, <1>8, <2>3 DEF Ends
  <2> QED
    BY <1>4, <2>1, <2>4 DEF HasRecord
<1> QED
  BY <1>7, <1>8

(* A record leaves with both its ends.                                     *)
LEMMA RecordedCut ==
  ASSUME NEW c \in Context, NEW d, NEW f, Recorded(c), HasRecord(c.switchdb, f),
         Within(d, c),
         \A g \in Ends(ipc_switching_get_(c.switchdb, f)) : ~IsSwitched(d, g),
         d.switchdb = ipc_switching_del(c.switchdb, f) \/ d.conns = <<>>
  PROVE  Recorded(d)
<1> SUFFICES ASSUME NEW g, IsSwitched(d, g) PROVE HasRecord(d.switchdb, g)
  BY DEF Recorded
<1>1. d.conns # <<>>
  BY DEF IsSwitched, HasType
<1>2. HasRecord(c.switchdb, g)
  BY WithinSwitched DEF Recorded
<1>3. g \notin Ends(ipc_switching_get_(c.switchdb, f))
  OBVIOUS
<1>4. c.switchdb \in Seq(Record)
  BY ContextFields
<1> QED
  BY <1>1, <1>2, <1>3, <1>4, SwitchingDelKeeps

(* Without callbacks, and when no connection asks for it, MoreToRead does  *)
(* nothing.                                                                *)
LEMMA CalmMore ==
  ASSUME NEW c \in Context, Calm(c), NEW i \in 1 .. Len(c.conns)
  PROVE  MoreToRead(c, i, FALSE) = c
<1> DEFINE q == [c.conns EXCEPT ![i].more_to_read = FALSE]
<1>1. c.conns \in Seq(Connection) /\ c.conns[i] \in Connection
  BY ContextFields
<1>2. c.conns[i].more_to_read = FALSE
  BY <1>1 DEF Calm, Connection
<1>3. [c.conns[i] EXCEPT !.more_to_read = FALSE] = c.conns[i]
  BY <1>1, <1>2 DEF Connection
<1>4. q = c.conns
  <2>1. PICK n \in Nat : n = Len(c.conns)
    BY <1>1
  <2>2. PICK s \in [1 .. n -> Connection] : s = c.conns
    BY <1>1, <2>1
  <2>3. [s EXCEPT ![i] = s[i]] = s
    BY <2>1, <2>2
  <2>4. q = [s EXCEPT ![i] = s[i]]
    BY <1>3, <2>2
  <2> QED
    BY <2>2, <2>3, <2>4
<1>5. MoreToRead(c, i, FALSE) = [c EXCEPT !.conns = q]
  BY DEF MoreToRead, Context
<1>6. [c EXCEPT !.conns = c.conns] = c
  BY DEF Context
<1> QED
  BY <1>4, <1>5, <1>6

(* Connections may leave, without records or with all of them.             *)
LEMMA PairsLess ==
  ASSUME NEW c \in Context, NEW d, NEW F, NEW G, PairsOK(c, F), Milder(F, G),
         Within(d, c), d.switchdb \in {c.switchdb, <<>>},
         d.switchdb = c.switchdb \/ d.conns = <<>>
  PROVE  PairsOK(d, G)
<1>1. OneQueued(G)
  BY MilderQueued DEF PairsOK
<1>2. Calm(d)
  BY WithinCalm DEF PairsOK
<1>3. Recorded(d)
  BY RecordedWithin DEF PairsOK
<1>4. DestUp(d, G)
  BY DestUpSame DEF PairsOK
<1> QED
  BY <1>1, <1>2, <1>3, <1>4 DEF PairsOK

LEMMA PairsSame ==
  ASSUME NEW c \in Context, NEW d, NEW F, NEW G, PairsOK(c, F), Milder(F, G),
         d.conns = c.conns, d.switchdb = c.switchdb
  PROVE  PairsOK(d, G)
<1>1. Within(d, c)
  BY WithinSame
<1> QED
  BY <1>1, PairsLess

(* A connection that is not switched is added.                             *)
LEMMA PairsAdd ==
  ASSUME NEW c \in Context, NEW F, NEW G, PairsOK(c, F), Milder(F, G),
         NEW f \in Fd \cup {NoFd}, NEW type \in ConnType, type # "SWITCHED",
         type = "SERVER" => "server" \in Calls
  PROVE  PairsOK(ipc_add_fd_(c, f, type), G)
<1> DEFINE new == [fd |-> f, type |-> type, more_to_read |-> FALSE]
<1>1. PICK d : d = ipc_add_fd_(c, f, type)
  OBVIOUS
<1>2. d.conns = Append(c.conns, new) /\ d.switchdb = c.switchdb
  BY <1>1, AddFacts
<1>3. c.conns \in Seq(Connection) /\ new \in Connection
  BY ContextFields, AddFacts
<1>4. PICK n \in Nat : n = Len(c.conns)
  BY <1>3
<1>5. Len(d.conns) = n + 1 /\ d.conns[n + 1] = new
      /\ \A k \in 1 .. n : d.conns[k] = c.conns[k]
  BY <1>2, <1>3, <1>4
<1>6. \A k \in 1 .. n + 1 : k \in 1 .. n \/ k = n + 1
  OBVIOUS
<1>7. Calm(d)
  BY <1>4, <1>5, <1>6 DEF Calm, PairsOK
<1>8. Recorded(d)
  <2> SUFFICES ASSUME NEW g, IsSwitched(d, g) PROVE HasRecord(d.switchdb, g)
    BY DEF Recorded
  <2>1. PICK k \in 1 .. n + 1 : d.conns[k].fd = g /\ d.conns[k].type = "SWITCHED"
    BY <1>5 DEF IsSwitched, HasType
  <2>2. k \in 1 .. n /\ d.conns[k] = c.conns[k]
    BY <1>5, <1>6, <2>1
  <2>3. IsSwitched(c, g)
    BY <1>4, <2>1, <2>2 DEF IsSwitched, HasType
  <2> QED
    BY <1>2, <2>3 DEF Recorded, PairsOK
<1>9. OneQueued(G) /\ DestUp(d, G)
  BY <1>2, MilderQueued, DestUpSame DEF PairsOK
<1> QED
  BY <1>1, <1>7, <1>8, <1>9 DEF PairsOK

(* Two switched connections are added with their record.                   *)
LEMMA PairsSwitch ==
  ASSUME NEW F \in [Fd -> File(Body)], NEW c \in Context, NEW o \in Fd, NEW s \in Fd,
         NEW a, NEW b, PairsOK(c, F), o # s,
         NEW d, d = ipc_ctx_switching_add(
                      ipc_add_fd_(ipc_add_fd_(c, s, "SWITCHED"), o, "SWITCHED"), o, s),
         NEW G, G = OpenFile(OpenFile(F, o, a, "sock"), s, b, "sock"),
         OpenFile(F, o, a, "sock") \in [Fd -> File(Body)]
  PROVE  PairsOK(d, G)
<1> DEFINE cs == [fd |-> s, type |-> "SWITCHED", more_to_read |-> FALSE]
           co == [fd |-> o, type |-> "SWITCHED", more_to_read |-> FALSE]
           r == [orig |-> o, dest |-> s, orig_in |-> Null, orig_out |-> Null,
                 dest_in |-> Null, dest_out |-> Null]
           db == c.switchdb
<1>0. "SWITCHED" \in ConnType
  BY DEF ConnType
<1>1. PICK d1 \in Context : d1 = ipc_add_fd_(c, s, "SWITCHED")
  BY <1>0, AddFacts
<1>2. d1.conns = Append(c.conns, cs) /\ d1.switchdb = db
  BY <1>0, <1>1, AddFacts
<1>3. PICK d2 \in Context : d2 = ipc_add_fd_(d1, o, "SWITCHED")
  BY <1>0, <1>1, AddFacts
<1>4. d2.conns = Append(d1.conns, co) /\ d2.switchdb = db
  <2>1. d2.conns = Append(d1.conns, co) /\ d2.switchdb = d1.switchdb
    BY <1>0, <1>3, AddFacts
  <2> QED
    BY <1>2, <2>1
<1>5. d.conns = d2.conns /\ d.switchdb = Append(db, r)
  <2>1. d = [d2 EXCEPT !.switchdb = ipc_switching_add(d2.switchdb, o, s)]
    BY <1>1, <1>3 DEF ipc_ctx_switching_add
  <2>2. ipc_switching_add(d2.switchdb, o, s) = Append(db, r)
    BY <1>4 DEF ipc_switching_add
  <2> QED
    BY <2>1, <2>2 DEF Context
<1>6. c.conns \in Seq(Connection) /\ cs \in Connection /\ co \in Connection /\ db \in Seq(Record)
  BY ContextFields DEF Connection, ConnType
<1>7. PICK n \in Nat : n = Len(c.conns)
  BY <1>6
<1>8. Len(d.conns) = n + 2 /\ d.conns[n + 1] = cs /\ d.conns[n + 2] = co
      /\ \A k \in 1 .. n : d.conns[k] = c.conns[k]
  <2>1. d1.conns \in Seq(Connection) /\ Len(d1.conns) = n + 1 /\ d1.conns[n + 1] = cs
        /\ \A k \in 1 .. n : d1.conns[k] = c.conns[k]
    BY <1>2, <1>6, <1>7
  <2>2. Len(d.conns) = n + 2 /\ d.conns[n + 2] = co
        /\ \A k \in 1 .. n + 1 : d.conns[k] = d1.conns[k]
    <3>1. PICK t \in Seq(Connection) : t = d1.conns
      BY <2>1
    <3>2. PICK l \in Nat : l = n + 1
      OBVIOUS
    <3>3. Len(t) = l /\ d.conns = Append(t, co)
      BY <1>4, <1>5, <2>1, <3>1, <3>2
    <3>4. Len(d.conns) = l + 1 /\ d.conns[l + 1] = co
          /\ \A k \in 1 .. l : d.conns[k] = t[k]
      <4>1. PICK y \in Connection : y = co
        BY <1>6
      <4>2. PICK q : q = d.conns
        OBVIOUS
      <4>3. q = Append(t, y) /\ Len(t) = l
        BY <3>3, <4>1, <4>2
      <4> HIDE DEF co, cs
      <4>4. Len(q) = l + 1 /\ q[l + 1] = y /\ \A k \in 1 .. l : q[k] = t[k]
        BY <4>3
      <4> QED
        BY <4>1, <4>2, <4>4
    <3>5. l + 1 = n + 2
      BY <3>2
    <3> QED
      BY <3>1, <3>2, <3>4, <3>5
  <2> QED
    BY <2>1, <2>2
<1>9. \A k \in 1 .. n + 2 : k \in 1 .. n \/ k = n + 1 \/ k = n + 2
  OBVIOUS
<1>10. Calm(d)
  BY <1>7, <1>8, <1>9 DEF Calm, PairsOK
<1>11. PICK m \in Nat : m = Len(db)
  BY <1>6
<1>12. Len(d.switchdb) = m + 1 /\ d.switchdb[m + 1] = r
       /\ \A k \in 1 .. m : d.switchdb[k] = db[k]
  <2>1. PICK t \in Seq(Record) : t = db
    BY <1>6
  <2>2. PICK y \in Record : y = r
    BY DEF Record, Switching
  <2>3. PICK q : q = d.switchdb
    OBVIOUS
  <2>4. q = Append(t, y) /\ Len(t) = m
    BY <1>5, <1>11, <2>1, <2>2, <2>3
  <2> HIDE DEF r, db, co, cs
  <2>5. Len(q) = m + 1 /\ q[m + 1] = y /\ \A k \in 1 .. m : q[k] = t[k]
    BY <2>4
  <2> QED
    BY <2>1, <2>2, <2>3, <2>5
<1>13. \A g : HasRecord(db, g) => HasRecord(d.switchdb, g)
  <2>1. \A k \in 1 .. m : k \in 1 .. m + 1
    OBVIOUS
  <2> QED
    BY <1>11, <1>12, <2>1 DEF HasRecord
<1>14. HasRecord(d.switchdb, o) /\ HasRecord(d.switchdb, s)
  <2>1. m + 1 \in 1 .. m + 1 /\ Ends(r) = {o, s}
    BY DEF Ends
  <2> QED
    BY <1>12, <2>1 DEF HasRecord
<1>15. Recorded(d)
  <2> SUFFICES ASSUME NEW g, IsSwitched(d, g) PROVE HasRecord(d.switchdb, g)
    BY DEF Recorded
  <2>1. PICK k \in 1 .. n + 2 : d.conns[k].fd = g /\ d.conns[k].type = "SWITCHED"
    BY <1>8 DEF IsSwitched, HasType
  <2>2. CASE k \in 1 .. n
    <3>1. IsSwitched(c, g)
      BY <1>7, <1>8, <2>1, <2>2 DEF IsSwitched, HasType
    <3> QED
      BY <1>13, <3>1 DEF Recorded, PairsOK
  <2>3. CASE k \notin 1 .. n
    <3>1. g \in {o, s}
      BY <1>8, <1>9, <2>1, <2>3
    <3> QED
      BY <1>14, <3>1
  <2> QED
    BY <2>2, <2>3
<1>16. PICK F1 \in [Fd -> File(Body)] : F1 = OpenFile(F, o, a, "sock")
  OBVIOUS
<1>17. Milder(F, F1)
  BY <1>16, MilderOpen
<1>18. Milder(F1, G) /\ G[s].peer = "up"
  BY <1>16, MilderOpen
<1>19. Milder(F, G)
  BY <1>17, <1>18, MilderChain
<1>20. DestUp(d, G)
  <2>1. DestUp(c, G)
    BY <1>19, DestUpSame DEF PairsOK
  <2>2. \A k \in 1 .. m : G[db[k].dest].peer = "up"
    BY <1>11, <2>1 DEF DestUp
  <2>3. \A k \in 1 .. m + 1 : k \in 1 .. m \/ k = m + 1
    OBVIOUS
  <2>4. r.dest = s
    OBVIOUS
  <2> QED
    BY <1>12, <1>18, <2>2, <2>3, <2>4 DEF DestUp
<1>21. OneQueued(G)
  BY <1>19, MilderQueued DEF PairsOK
<1> QED
  BY <1>10, <1>15, <1>20, <1>21 DEF PairsOK

(* A record leaves with both ends, as handle_disconnection and             *)
(* fd_switching_write do it.                                               *)
LEMMA PairsEnd ==
  ASSUME NEW c, NEW F, NEW G, Good(c, F), PairsOK(c, F), Milder(F, G), NEW f \in Fd,
         HasRecord(c.switchdb, f),
         NEW d, d = ipc_del_fd(ipc_del_fd(ipc_ctx_switching_del(c, f),
                      OtherEnd(ipc_switching_get_(c.switchdb, f), f)), f)
  PROVE  PairsOK(d, G)
<1>1. c \in Context /\ c.switchdb \in Seq(Record)
  BY ContextFields DEF Good
<1>2. PICK sw \in Record : sw = ipc_switching_get_(c.switchdb, f)
  BY <1>1, RecordFacts
<1>3. f \in Ends(sw)
  BY <1>1, <1>2, RecordIndexFacts DEF ipc_switching_get_
<1>4. PICK to \in Fd : to = OtherEnd(sw, f)
  BY <1>1, <1>2, RecordFacts
<1>5. Ends(sw) = {f, to}
  BY <1>3, <1>4 DEF Ends, OtherEnd
<1>6. PICK b : b = ipc_ctx_switching_del(c, f)
  OBVIOUS
<1>7. Good(b, F) /\ b \in Context
  BY <1>6, GoodSwitchingDel DEF Good
<1>8. b.conns = c.conns /\ b.switchdb = ipc_switching_del(c.switchdb, f)
  BY <1>1, <1>6 DEF ipc_ctx_switching_del, Context
<1>9. PICK e : e = ipc_del_fd(b, to)
  OBVIOUS
<1>10. Good(e, F) /\ e \in Context /\ ~Registered(e, to)
  BY <1>7, <1>9, GoodDelFd DEF Good
<1>11. Within(e, b) /\ (e.switchdb = b.switchdb \/ e.conns = <<>>)
       /\ e.switchdb \in {b.switchdb, <<>>}
  BY <1>7, <1>9, WithinDelFd, KeepsDelFd
<1>12. d = ipc_del_fd(e, f)
  BY <1>2, <1>4, <1>6, <1>9
<1>13. ~Registered(d, f) /\ \A g : Registered(d, g) => Registered(e, g)
  BY <1>10, <1>12, GoodDelFd
<1>14. Within(d, e) /\ (d.switchdb = e.switchdb \/ d.conns = <<>>)
       /\ d.switchdb \in {e.switchdb, <<>>}
  <2>1. Within(ipc_del_fd(e, f), e)
        /\ (ipc_del_fd(e, f).switchdb = e.switchdb \/ ipc_del_fd(e, f).conns = <<>>)
    BY <1>10, WithinDelFd
  <2>2. ipc_del_fd(e, f).switchdb \in {e.switchdb, <<>>}
    BY <1>10, KeepsDelFd
  <2> QED
    BY <1>12, <2>1, <2>2
<1>15. Within(d, c)
  <2>1. Within(b, c)
    BY <1>8, WithinSame
  <2> QED
    BY <1>11, <1>14, <2>1, WithinChain
<1>16. \A g \in Ends(sw) : ~IsSwitched(d, g)
  <2>1. ~Registered(d, f) /\ ~Registered(d, to)
    BY <1>10, <1>13
  <2> QED
    BY <1>5, <2>1 DEF Registered, IsSwitched, HasType
<1>17. d.switchdb = ipc_switching_del(c.switchdb, f) \/ d.conns = <<>>
  <2>1. CASE e.conns = <<>>
    <3>1. d.conns \in Seq(Connection)
      BY <1>10, <1>12, DelFdContext, ContextFields
    <3> QED
      BY <1>14, <2>1, <3>1 DEF Within
  <2>2. CASE e.conns # <<>>
    BY <1>8, <1>11, <1>14, <2>2
  <2> QED
    BY <2>1, <2>2
<1>18. d.switchdb \in {<<>>, ipc_switching_del(c.switchdb, f)}
  BY <1>8, <1>11, <1>14
<1>19. Recorded(d)
  BY <1>1, <1>2, <1>15, <1>16, <1>17, RecordedCut DEF PairsOK
<1>20. Calm(d) /\ OneQueued(G)
  BY <1>15, WithinCalm, MilderQueued DEF PairsOK
<1>21. DestUp(d, G)
  BY <1>1, <1>18, DestUpCut DEF PairsOK
<1> QED
  BY <1>19, <1>20, <1>21 DEF PairsOK

LEMMA MilderCloseTwo ==
  ASSUME NEW F \in [Fd -> File(Body)], NEW f \in Fd, NEW g \in Fd
  PROVE  Milder(F, CloseFile(CloseFile(F, f), g))
<1>1. CloseFile(F, f) \in [Fd -> File(Body)]
  BY DEF CloseFile, ClosedFile, File
<1> QED
  BY <1>1, MilderClose, MilderChain

(* ipc_close and ipc_del of a connection.                                  *)
LEMMA PairsClose ==
  ASSUME NEW c \in Context, NEW F \in [Fd -> File(Body)], PairsOK(c, F),
         NEW i \in 1 .. Len(c.conns), NEW f \in Fd, Good(c, F)
  PROVE  PairsOK(ipc_del(ipc_close(c, f), i), CloseFile(F, f))
<1>1. PICK b : b = ipc_close(c, f)
  OBVIOUS
<1>2. b \in Context /\ b.conns = c.conns /\ b.switchdb = c.switchdb
  <2>1. Good(b, F) /\ b.conns = c.conns
    BY <1>1, GoodClose
  <2>2. b.switchdb = c.switchdb
    BY <1>1 DEF ipc_close, Context
  <2> QED
    BY <2>1, <2>2 DEF Good
<1>3. PairsOK(b, F)
  BY <1>2, MilderSame, PairsSame
<1>4. PICK d : d = ipc_del(b, i)
  OBVIOUS
<1>5. i \in 1 .. Len(b.conns)
  BY <1>2
<1>6. Within(d, b) /\ (d.switchdb = b.switchdb \/ d.conns = <<>>)
  BY <1>2, <1>4, <1>5, WithinDel
<1>7. d.switchdb \in {b.switchdb, <<>>}
  BY <1>2, <1>4, <1>5, KeepsDel
<1>8. Milder(F, CloseFile(F, f))
  BY MilderClose
<1>9. PairsOK(d, CloseFile(F, f))
  BY <1>2, <1>3, <1>6, <1>7, <1>8, PairsLess
<1> QED
  BY <1>1, <1>4, <1>9

(* The calls of the application.                                           *)
LEMMA PairsApplication ==
  ASSUME IInv, PairsOK(ctx, files), Callback = {}, Application
  PROVE  PairsOK(ctx', files') /\ pc' = "app"
<1>1. Good(ctx, files) /\ ctx \in Context /\ FilesOK(files) /\ files \in [Fd -> File(Body)]
  BY DEF IInv, Good, FilesOK
<1>2. ASSUME NEW f \in Fd, ServerInit(f) \/ Connect(f) \/ AddFd(f)
      PROVE  PairsOK(ctx', files') /\ pc' = "app"
  <2>1. PICK type \in ConnType, sort \in {"listen", "sock", "ext"} :
          /\ ctx' = ipc_add_fd_(ctx, f, type) /\ type # "SWITCHED"
          /\ type = "SERVER" => "server" \in Calls
          /\ files' = OpenFile(files, f, Fresh, sort) /\ pc' = "app"
    <3>1. CASE ServerInit(f)
      BY <3>1, Zenon DEF ServerInit, May, ConnType
    <3>2. CASE Connect(f)
      BY <3>2, Zenon DEF Connect, May, ConnType
    <3>3. CASE AddFd(f)
      BY <3>3, Zenon DEF AddFd, May, ConnType
    <3> QED
      BY <1>2, <3>1, <3>2, <3>3
  <2>2. Milder(files, OpenFile(files, f, Fresh, sort))
    BY <1>1, MilderOpen
  <2>3. PairsOK(ipc_add_fd_(ctx, f, type), OpenFile(files, f, Fresh, sort))
    BY <1>1, <2>1, <2>2, PairsAdd
  <2> QED
    BY <2>1, <2>3
<1>3. ASSUME NEW c \in Fd, NEW s \in Fd, ConnectSwitched(c, s)
      PROVE  PairsOK(ctx', files') /\ pc' = "app"
  <2>1. /\ ctx' = ipc_ctx_switching_add(
                    ipc_add_fd_(ipc_add_fd_(ctx, s, "SWITCHED"), c, "SWITCHED"), c, s)
        /\ files' = OpenFile(OpenFile(files, c, Fresh, "sock"), s, Fresh + 1, "sock")
        /\ c # s /\ pc' = "app"
    BY <1>3 DEF ConnectSwitched, May
  <2>2. Fresh \in Nat
    BY DEF IInv, RestOK, Fresh
  <2>3. OpenFile(files, c, Fresh, "sock") \in [Fd -> File(Body)]
    BY <1>1, <2>2, FilesOpen DEF Sorts, FilesOK
  <2>4. PICK d : d = ctx'
    OBVIOUS
  <2>5. PICK G : G = files'
    OBVIOUS
  <2>6. PICK a : a = Fresh
    OBVIOUS
  <2>7. PICK b : b = Fresh + 1
    OBVIOUS
  <2>8. /\ d = ipc_ctx_switching_add(
                 ipc_add_fd_(ipc_add_fd_(ctx, s, "SWITCHED"), c, "SWITCHED"), c, s)
        /\ G = OpenFile(OpenFile(files, c, a, "sock"), s, b, "sock")
        /\ OpenFile(files, c, a, "sock") \in [Fd -> File(Body)]
    BY <2>1, <2>3, <2>4, <2>5, <2>6, <2>7
  <2>9. PairsOK(d, G)
    BY <1>1, <2>1, <2>8, PairsSwitch
  <2> QED
    BY <2>1, <2>4, <2>5, <2>9
<1>4. ASSUME NEW f \in Fd, NEW cb \in Callback, SetCallbacks(f, cb) \/ SetCallbackIn(f, cb)
      PROVE  PairsOK(ctx', files') /\ pc' = "app"
  OBVIOUS
<1>5. ASSUME NEW f \in Fd, NEW kind \in Payload, Write(f, kind)
      PROVE  PairsOK(ctx', files') /\ pc' = "app"
  <2>1. ctx'.conns = ctx.conns /\ ctx'.switchdb = ctx.switchdb /\ files' = files
        /\ pc' = "app"
    BY <1>1, <1>5, WriteSame DEF Write, May
  <2>2. PICK d : d = ctx'
    OBVIOUS
  <2>3. PairsOK(d, files)
    BY <1>1, <2>1, <2>2, MilderSame, PairsSame
  <2> QED
    BY <2>1, <2>2, <2>3
<1>6. ASSUME NEW i \in 1 .. Len(ctx.conns), CloseConnection(i)
      PROVE  PairsOK(ctx', files') /\ pc' = "app"
  <2>1. PICK f : f = ctx.conns[i].fd
    OBVIOUS
  <2>2. f \in Fd /\ ctx' = ipc_del(ipc_close(ctx, f), i) /\ files' = CloseFile(files, f)
        /\ pc' = "app"
    BY <1>1, <1>6, <2>1, ContextFields DEF CloseConnection, May
  <2>3. PairsOK(ipc_del(ipc_close(ctx, f), i), CloseFile(files, f))
    BY <1>1, <2>2, PairsClose
  <2> QED
    BY <2>2, <2>3
<1>7. ASSUME NEW f \in Fd, handle_disconnection(f)
      PROVE  PairsOK(ctx', files') /\ pc' = "app"
  <2>1. PICK to : to = OtherEnd(ipc_switching_get_(ctx.switchdb, f), f)
    OBVIOUS
  <2>2. HasRecord(ctx.switchdb, f) /\ pc' = "app"
        /\ ctx' = ipc_del_fd(ipc_del_fd(ipc_ctx_switching_del(ctx, f), to), f)
        /\ files' = CloseFile(CloseFile(files, to), f)
    BY <1>7, <2>1 DEF handle_disconnection, May
  <2>3. to \in Fd
    BY <1>1, <2>1, <2>2, RecordFacts, ContextFields
  <2>4. Milder(files, CloseFile(CloseFile(files, to), f))
    BY <1>1, <2>3, MilderCloseTwo
  <2>5. PICK d : d = ctx'
    OBVIOUS
  <2>6. PICK G : G = files'
    OBVIOUS
  <2>7. PairsOK(d, G)
    BY <1>1, <2>1, <2>2, <2>4, <2>5, <2>6, PairsEnd
  <2> QED
    BY <2>2, <2>5, <2>6, <2>7
<1>8. ASSUME NEW f \in Fd, CloseForgotten(f)
      PROVE  PairsOK(ctx', files') /\ pc' = "app"
  <2>1. ctx' = ctx /\ files' = CloseFile(files, f) /\ pc' = "app"
    BY <1>8 DEF CloseForgotten, May
  <2>2. PairsOK(ctx, CloseFile(files, f))
    BY <1>1, MilderClose, PairsSame
  <2> QED
    BY <2>1, <2>2
<1>9. ASSUME Shutdown
      PROVE  PairsOK(ctx', files') /\ pc' = "app"
  <2>1. PICK d : d = ctx'
    OBVIOUS
  <2>2. PICK G : G = files'
    OBVIOUS
  <2>3. d.switchdb = <<>> /\ d.conns = <<>> /\ pc' = "app"
    BY <1>1, <1>9, <2>1 DEF Shutdown, ipc_ctx_free, ipc_close_all, Context, May
  <2>4. Milder(files, G)
    BY <1>1, <1>9, <2>2 DEF Shutdown, Milder, ClosedFile
  <2>5. Within(d, ctx)
    BY <2>3 DEF Within
  <2>6. PairsOK(d, G)
    BY <1>1, <2>3, <2>4, <2>5, PairsLess
  <2> QED
    BY <2>1, <2>2, <2>3, <2>6
<1> QED
  BY <1>2, <1>3, <1>4, <1>5, <1>6, <1>7, <1>8, <1>9 DEF Application

(* What default_cb_in returns when at most one message waits.              *)
LEMMA DefaultIn ==
  ASSUME NEW x \in File(Body), Len(x.rx) <= 1
  PROVE  default_cb_in(x) = IF x.rx # <<>> THEN "NO_ERROR"
                            ELSE IF x.peer = "reset" THEN "FD_ERROR" ELSE "FD_CLOSING"
<1>1. x.rx \in Seq(Body)
  BY DEF File
<1>2. CASE x.rx # <<>>
  <2>1. Len(x.rx) = 1
    <3>1. PICK q \in Seq(Body) : q = x.rx
      BY <1>1
    <3>2. q # <<>> /\ Len(q) \in Nat /\ Len(q) <= 1
      BY <1>2, <3>1
    <3>3. Len(q) # 0
      BY <3>2
    <3>4. \A n \in Nat : n <= 1 /\ n # 0 => n = 1
      OBVIOUS
    <3>5. Len(q) = 1
      BY <3>2, <3>3, <3>4, Zenon
    <3> QED
      BY <3>1, <3>5
  <2>2. ReadOutcome(x) = "message"
    BY <1>2, <2>1 DEF ReadOutcome
  <2> QED
    BY <1>2, <2>2 DEF default_cb_in
<1>3. CASE x.rx = <<>> /\ x.peer = "reset"
  <2>1. ReadOutcome(x) = "error"
    BY <1>3 DEF ReadOutcome
  <2> QED
    BY <1>3, <2>1 DEF default_cb_in
<1>4. CASE x.rx = <<>> /\ x.peer # "reset"
  <2>1. ReadOutcome(x) = "closed"
    BY <1>4 DEF ReadOutcome
  <2> QED
    BY <1>4, <2>1 DEF default_cb_in
<1> QED
  BY <1>2, <1>3, <1>4

(* fd_switching_read gives up a pair, origin and destination.              *)
LEMMA PairsGiveUp ==
  ASSUME NEW c, NEW F, NEW G, Good(c, F), PairsOK(c, F), Milder(F, G), NEW f \in Fd,
         HasRecord(c.switchdb, f), NEW sw \in Record,
         sw = ipc_switching_get_(c.switchdb, f), sw.orig = f,
         NEW d, d = ipc_ctx_switching_del(ipc_del_fd(ipc_del_fd(c, sw.dest), f), f)
  PROVE  PairsOK(d, G)
<1>1. c \in Context /\ c.switchdb \in Seq(Record)
  BY ContextFields DEF Good
<1>2. PICK to \in Fd : to = sw.dest
  BY DEF Record, Switching
<1>3. Ends(sw) = {f, to}
  BY <1>2 DEF Ends
<1>4. PICK b : b = ipc_del_fd(c, to)
  OBVIOUS
<1>5. Good(b, F) /\ b \in Context /\ ~Registered(b, to)
  BY <1>4, GoodDelFd DEF Good
<1>6. Within(b, c) /\ (b.switchdb = c.switchdb \/ b.conns = <<>>)
  BY <1>1, <1>4, WithinDelFd
<1>7. b.switchdb \in {c.switchdb, <<>>}
  BY <1>1, <1>4, KeepsDelFd
<1>8. PICK e : e = ipc_del_fd(b, f)
  OBVIOUS
<1>9. e \in Context /\ ~Registered(e, f) /\ \A g : Registered(e, g) => Registered(b, g)
  BY <1>5, <1>8, GoodDelFd DEF Good
<1>10. Within(e, b) /\ (e.switchdb = b.switchdb \/ e.conns = <<>>)
  BY <1>5, <1>8, WithinDelFd
<1>11. e.switchdb \in {b.switchdb, <<>>}
  BY <1>5, <1>8, KeepsDelFd
<1>12. d = ipc_ctx_switching_del(e, f)
  BY <1>2, <1>4, <1>8
<1>13. d.conns = e.conns /\ d.switchdb = ipc_switching_del(e.switchdb, f)
  BY <1>9, <1>12 DEF ipc_ctx_switching_del, Context
<1>14. ipc_switching_del(<<>>, f) = <<>>
  BY DEF ipc_switching_del, HasRecord
<1>15. Within(d, c)
  <2>1. Within(d, e)
    BY <1>13, WithinSame
  <2> QED
    BY <1>6, <1>10, <2>1, WithinChain
<1>16. \A g \in Ends(sw) : ~IsSwitched(d, g)
  <2>1. ~Registered(e, f) /\ ~Registered(e, to)
    BY <1>5, <1>9
  <2> QED
    BY <1>3, <1>13, <2>1 DEF Registered, IsSwitched, HasType
<1>17. d.switchdb = ipc_switching_del(c.switchdb, f) \/ d.conns = <<>>
  <2>1. CASE b.conns = <<>>
    <3>1. e.conns \in Seq(Connection)
      BY <1>9, ContextFields
    <3> QED
      BY <1>10, <1>13, <2>1, <3>1 DEF Within
  <2>2. CASE b.conns # <<>>
    BY <1>6, <1>10, <1>13, <2>2
  <2> QED
    BY <2>1, <2>2
<1>18. d.switchdb \in {<<>>, ipc_switching_del(c.switchdb, f)}
  BY <1>7, <1>11, <1>13, <1>14
<1>19. Recorded(d)
  BY <1>1, <1>15, <1>16, <1>17, RecordedCut DEF PairsOK
<1>20. Calm(d) /\ OneQueued(G)
  BY <1>15, WithinCalm, MilderQueued DEF PairsOK
<1>21. DestUp(d, G)
  BY <1>1, <1>18, DestUpCut DEF PairsOK
<1> QED
  BY <1>19, <1>20, <1>21 DEF PairsOK

(* A switched connection has a record, whose callbacks are not set.        *)
LEMMA SwitchedFacts ==
  ASSUME IInv, PairsOK(ctx, files), Callback = {}, NEW i \in 1 .. Len(ctx.conns),
         First(i), ctx.conns[i].type = "SWITCHED"
  PROVE  LET f  == ctx.conns[i].fd
             sw == ipc_switching_get_(ctx.switchdb, f)
         IN  /\ f \in Fd /\ files[f].sort = "sock" /\ HasRecord(ctx.switchdb, f)
             /\ sw \in Record /\ f \in Ends(sw) /\ files[sw.dest].peer = "up"
             /\ InCallback(sw, f) = Null
<1>1. PICK f : f = ctx.conns[i].fd
  OBVIOUS
<1>2. f \in Fd /\ files[f].sort = "sock" /\ ctx \in Context
  BY <1>1, FirstFacts DEF Matches, Good
<1>3. IsSwitched(ctx, f)
  BY <1>1 DEF IsSwitched, HasType
<1>4. HasRecord(ctx.switchdb, f)
  BY <1>3 DEF PairsOK, Recorded
<1>5. PICK db \in Seq(Record) : db = ctx.switchdb
  BY <1>2, ContextFields
<1>6. PICK k \in 1 .. Len(db) : k = RecordIndex(db, f) /\ f \in Ends(db[k])
  BY <1>4, <1>5, RecordIndexFacts
<1>7. PICK sw \in Record : sw = db[k]
  BY <1>5, <1>6
<1>8. sw = ipc_switching_get_(db, f)
  BY <1>6, <1>7 DEF ipc_switching_get_
<1>9. files[sw.dest].peer = "up"
  BY <1>5, <1>6, <1>7 DEF PairsOK, DestUp
<1>10. InCallback(sw, f) = Null
  BY <1>7 DEF InCallback, Record, Switching
<1> QED
  BY <1>1, <1>2, <1>4, <1>5, <1>6, <1>7, <1>8, <1>9, <1>10

(* What fd_switching_read does without callbacks.                          *)
LEMMA PairsSwitchingRead ==
  ASSUME IInv, PairInv, Callback = {}, NEW i \in 1 .. Len(ctx.conns), fd_switching_read(i)
  PROVE  PairsOK(ctx', files') /\ pc' = "returned" /\ event'.type # "NOT_SET"
<1>1. Good(ctx, files) /\ ctx \in Context /\ FilesOK(files) /\ files \in [Fd -> File(Body)]
  BY DEF IInv, Good, FilesOK
<1>2. FirstIn(i, "SWITCHED") /\ PairsOK(ctx, files)
  BY DEF fd_switching_read, PairInv
<1>3. PICK f : f = ctx.conns[i].fd
  OBVIOUS
<1>4. PICK sw : sw = ipc_switching_get_(ctx.switchdb, f)
  OBVIOUS
<1>5. /\ f \in Fd /\ files[f].sort = "sock" /\ HasRecord(ctx.switchdb, f)
      /\ sw \in Record /\ f \in Ends(sw) /\ files[sw.dest].peer = "up"
      /\ InCallback(sw, f) = Null
  BY <1>2, <1>3, <1>4, SwitchedFacts DEF FirstIn
<1>6. PICK x \in File(Body) : x = files[f]
  BY <1>1, <1>5
<1>7. Len(x.rx) <= 1
  BY <1>2, <1>5, <1>6 DEF PairsOK, OneQueued
<1>8. x.rx # <<>> \/ x.peer # "up"
  BY <1>2, <1>3, <1>6 DEF PairInv, InInv, PairsOK, Calm, FirstIn, First
<1>9. InResults(Null, x) = {[r |-> default_cb_in(x), rx |-> <<>>, more |-> FALSE]}
  BY DEF InResults
<1>10. MoreToRead(ctx, i, FALSE) = ctx
  BY <1>1, <1>2, CalmMore DEF PairsOK
<1>11. /\ files' = WithRx(files, f, <<>>)
       /\ \/ /\ default_cb_in(x) = "NO_ERROR"
             /\ \E m : ctx' = ipc_write(ctx, m)
             /\ Return(IPC_EVENT_SET("SWITCH", f))
          \/ /\ default_cb_in(x) = "IGNORE"
             /\ ctx' = ctx
             /\ Return(IPC_EVENT_SET("SWITCH", f))
          \/ /\ default_cb_in(x) \notin {"NO_ERROR", "IGNORE"}
             /\ ctx' = ipc_ctx_switching_del(ipc_del_fd(ipc_del_fd(ctx, sw.dest), f), f)
             /\ \E type \in {"DISCONNECTION", "ERROR"} : Return(IPC_EVENT_SET(type, f))
  <2>1. PICK in \in InResults(InCallback(sw, f), x) :
          LET c == MoreToRead(ctx, i, in.more)
          IN  /\ files' = [files EXCEPT ![f].rx = in.rx]
              /\ \/ /\ in.r = "NO_ERROR"
                    /\ \E m : ctx' = ipc_write(c, m)
                    /\ Return(IPC_EVENT_SET("SWITCH", f))
                 \/ /\ in.r = "IGNORE"
                    /\ ctx' = c
                    /\ Return(IPC_EVENT_SET("SWITCH", f))
                 \/ /\ in.r \notin {"NO_ERROR", "IGNORE"}
                    /\ ctx' = ipc_ctx_switching_del(ipc_del_fd(ipc_del_fd(c, sw.dest), f), f)
                    /\ \E type \in {"DISCONNECTION", "ERROR"} : Return(IPC_EVENT_SET(type, f))
    BY <1>3, <1>4, <1>5, <1>6 DEF fd_switching_read
  <2>2. in = [r |-> default_cb_in(x), rx |-> <<>>, more |-> FALSE]
    BY <1>5, <1>9, <2>1
  <2>3. in.r = default_cb_in(x) /\ in.rx = <<>> /\ in.more = FALSE
    BY <2>2
  <2>4. MoreToRead(ctx, i, in.more) = ctx
    BY <1>10, <2>3
  <2> QED
    BY <2>1, <2>3, <2>4 DEF WithRx
<1>12. PICK G : G = files'
  OBVIOUS
<1>13. Milder(files, G)
  BY <1>1, <1>5, <1>11, <1>12, MilderRead
<1>14. PICK d : d = ctx'
  OBVIOUS
<1>15. CASE x.rx # <<>>
  <2>1. default_cb_in(x) = "NO_ERROR"
    BY <1>7, <1>15, DefaultIn
  <2>2. PICK m : d = ipc_write(ctx, m)
    BY <1>11, <1>14, <2>1
  <2>3. PairsOK(d, G)
    BY <1>1, <1>2, <1>13, <2>2, WriteSame, PairsSame
  <2>4. pc' = "returned" /\ event'.type = "SWITCH"
    BY <1>11, <2>1 DEF Return, IPC_EVENT_SET
  <2> QED
    BY <1>12, <1>14, <2>3, <2>4
<1>16. CASE x.rx = <<>>
  <2>1. default_cb_in(x) \in {"FD_ERROR", "FD_CLOSING"}
    BY <1>7, <1>16, DefaultIn
  <2>2. d = ipc_ctx_switching_del(ipc_del_fd(ipc_del_fd(ctx, sw.dest), f), f)
        /\ pc' = "returned" /\ event'.type \in {"DISCONNECTION", "ERROR"}
    BY <1>11, <1>14, <2>1 DEF Return, IPC_EVENT_SET
  <2>3. f # sw.dest
    BY <1>5, <1>6, <1>8, <1>16
  <2>4. sw.orig = f
    BY <1>5, <2>3 DEF Ends
  <2>5. PairsOK(d, G)
    BY <1>1, <1>2, <1>4, <1>5, <1>13, <2>2, <2>4, PairsGiveUp
  <2> QED
    BY <1>12, <1>14, <2>2, <2>5
<1> QED
  BY <1>15, <1>16


(* The first ready connection is served.                                   *)
Served ==
  /\ PairsOK(ctx', files')
  /\ pc' \in {"returned", "crashed"}
  /\ "server" \notin Calls /\ pc' = "returned" => event'.type # "NOT_SET"

LEMMA PairsServed ==
  ASSUME NEW d, NEW G, d = ctx', G = files', PairsOK(d, G), NEW type, NEW f,
         type # "NOT_SET", Return(IPC_EVENT_SET(type, f))
  PROVE  Served
BY DEF Served, Return, IPC_EVENT_SET

(* accept(2): a file is opened and a request leaves the listening socket.  *)
LEMMA MilderAccept ==
  ASSUME NEW F \in [Fd -> File(Body)], NEW s \in Fd, F[s].sort = "listen",
         NEW f \in Free(F), NEW id, NEW G,
         G = [OpenFile(F, f, id, "sock") EXCEPT ![s].rx = Tail(@)]
  PROVE  Milder(F, G)
<1>1. f \in Fd /\ f # s
  BY DEF Free, IsOpen
<1>2. PICK H : H = OpenFile(F, f, id, "sock")
  OBVIOUS
<1>3. Milder(F, H)
  BY <1>1, <1>2, MilderOpen
<1>4. H[s] = F[s] /\ DOMAIN H = Fd
  BY <1>1, <1>2 DEF OpenFile
<1>5. PICK t : t = Tail(H[s].rx)
  OBVIOUS
<1>6. G = [H EXCEPT ![s].rx = t]
  BY <1>2, <1>5
<1>7. \A g \in Fd : g # s => G[g] = H[g]
  BY <1>4, <1>6
<1>8. G[s] = [F[s] EXCEPT !.rx = t]
  BY <1>4, <1>6
<1>9. G[s].sort = "listen" /\ G[s].peer = H[s].peer
  <2>1. PICK x \in File(Body) : x = F[s]
    OBVIOUS
  <2>2. PICK y : y = [x EXCEPT !.rx = t]
    OBVIOUS
  <2>3. y.sort = x.sort /\ y.peer = x.peer
    BY <2>2 DEF File
  <2> QED
    BY <1>4, <1>8, <2>1, <2>2, <2>3
<1>10. \A g \in Fd : g # s /\ G[g].sort # "listen" =>
         G[g].rx = <<>> \/ (G[g].rx = H[g].rx /\ H[g].sort # "listen")
  BY <1>7
<1>11. Milder(H, G)
  BY <1>7, <1>9, <1>10 DEF Milder
<1> QED
  BY <1>3, <1>11, MilderChain

LEMMA PairsAccept ==
  ASSUME IInv, PairInv, NEW i \in 1 .. Len(ctx.conns), ipc_accept_add(i)
  PROVE  Served
<1>1. Good(ctx, files) /\ ctx \in Context /\ files \in [Fd -> File(Body)]
      /\ PairsOK(ctx, files)
  BY DEF IInv, Good, FilesOK, PairInv
<1>2. PICK s : s = ctx.conns[i].fd
  OBVIOUS
<1>3. First(i) /\ ctx.conns[i].type = "SERVER"
  BY DEF ipc_accept_add, FirstIn
<1>4. s \in Fd /\ files[s].sort = "listen"
  BY <1>2, <1>3, FirstFacts DEF Matches
<1>5. "server" \in Calls
  BY <1>1, <1>3 DEF PairsOK, Calm
<1>6. PICK d : d = ctx'
  OBVIOUS
<1>7. PICK G : G = files'
  OBVIOUS
<1>8. "IPC" \in ConnType /\ "IPC" # "SWITCHED" /\ "IPC" # "SERVER"
  BY DEF ConnType
<1>9. CASE Free(files) = {} /\ ctx' = ipc_add_fd_(ctx, NoFd, "IPC")
           /\ Return(IPC_EVENT_SET("NOT_SET", s)) /\ UNCHANGED files
  <2>1. PairsOK(ipc_add_fd_(ctx, NoFd, "IPC"), files)
    BY <1>1, <1>8, MilderSame, PairsAdd
  <2> QED
    BY <1>5, <1>9, <2>1 DEF Served, Return
<1>10. ASSUME NEW f \in Free(files), ctx' = ipc_add_fd_(ctx, f, "IPC"),
              files' = [OpenFile(files, f, files[s].rx[1].id, "sock")
                         EXCEPT ![s].rx = Tail(@)],
              Return(IPC_EVENT_SET("CONNECTION", f))
       PROVE  Served
  <2>1. f \in Fd
    BY <1>1 DEF Free
  <2>2. PICK id : id = files[s].rx[1].id
    OBVIOUS
  <2>3. Milder(files, G)
    BY <1>1, <1>4, <1>7, <1>10, <2>2, MilderAccept
  <2>4. PairsOK(ipc_add_fd_(ctx, f, "IPC"), G)
    BY <1>1, <1>8, <2>1, <2>3, PairsAdd
  <2> QED
    BY <1>7, <1>10, <2>4, PairsServed
<1> QED
  BY <1>2, <1>9, <1>10 DEF ipc_accept_add

LEMMA PairsNewMessage ==
  ASSUME IInv, PairInv, NEW i \in 1 .. Len(ctx.conns), handle_new_message(i)
  PROVE  Served
<1>1. Good(ctx, files) /\ ctx \in Context /\ files \in [Fd -> File(Body)]
      /\ PairsOK(ctx, files) /\ Calm(ctx)
  BY DEF IInv, Good, FilesOK, PairInv, PairsOK
<1>2. PICK f : f = ctx.conns[i].fd
  OBVIOUS
<1>3. First(i) /\ ctx.conns[i].type = "IPC"
  BY DEF handle_new_message, FirstIn
<1>4. f \in Fd
  BY <1>2, <1>3, FirstFacts
<1>5. CASE ctx' = MoreToRead(ctx, i, FALSE) /\ files' = Drain(files, f)
           /\ Return(IPC_EVENT_SET("MESSAGE", f))
  <2>1. ctx' = ctx /\ files' = WithRx(files, f, <<>>)
    BY <1>1, <1>5, CalmMore DEF Drain, WithRx
  <2>2. Milder(files, WithRx(files, f, <<>>))
    BY <1>1, <1>4, MilderRead
  <2>3. PairsOK(ctx, WithRx(files, f, <<>>))
    BY <1>1, <2>2, PairsSame
  <2> QED
    BY <1>5, <2>1, <2>3 DEF Served, Return, IPC_EVENT_SET
<1>6. CASE ctx' = ipc_del(ipc_close(ctx, f), i) /\ files' = CloseFile(files, f)
           /\ \E type \in {"DISCONNECTION", "ERROR"} : Return(IPC_EVENT_SET(type, f))
  <2>1. PairsOK(ipc_del(ipc_close(ctx, f), i), CloseFile(files, f))
    BY <1>1, <1>4, PairsClose
  <2> QED
    BY <1>6, <2>1 DEF Served, Return, IPC_EVENT_SET
<1> QED
  BY <1>2, <1>5, <1>6 DEF handle_new_message

(* fd_switching_write.                                                     *)
LEMMA PairsSwitchingWrite ==
  ASSUME IInv, PairInv, Callback = {}, NEW i \in 1 .. Len(ctx.conns), fd_switching_write(i)
  PROVE  Served
<1>1. Good(ctx, files) /\ ctx \in Context /\ files \in [Fd -> File(Body)]
      /\ PairsOK(ctx, files) /\ ctx.tx \in Seq(Message)
  BY ContextFields DEF IInv, Good, FilesOK, PairInv
<1>2. FirstOut(i) /\ First(i) /\ ctx.conns[i].type = "SWITCHED"
  BY DEF fd_switching_write, FirstOut
<1>3. PICK f : f = ctx.conns[i].fd
  OBVIOUS
<1>4. PICK sw : sw = ipc_switching_get_(ctx.switchdb, f)
  OBVIOUS
<1>5. f \in Fd /\ HasRecord(ctx.switchdb, f) /\ sw \in Record /\ InCallback(sw, f) = Null
  BY <1>1, <1>2, <1>3, <1>4, SwitchedFacts
<1>6. PICK k : k = FirstFor(ctx.tx, f)
  OBVIOUS
<1>7. k \in 1 .. Len(ctx.tx)
  BY <1>2, <1>3, <1>6, FirstOutFacts
<1>8. PICK c : c = [ctx EXCEPT !.tx = ipc_messages_del(ctx.tx, k)]
  OBVIOUS
<1>9. Good(c, files)
  BY <1>1, <1>7, <1>8, GoodMessageDel
<1>10. c \in Context /\ c.conns = ctx.conns /\ c.switchdb = ctx.switchdb
  BY <1>1, <1>8, <1>9 DEF Good, Context
<1>11. PairsOK(c, files)
  BY <1>1, <1>10, MilderSame, PairsSame
<1>12. PICK to : to = OtherEnd(sw, f)
  OBVIOUS
<1>13. to \in Fd
  BY <1>1, <1>4, <1>5, <1>12, RecordFacts, ContextFields
<1>14. CASE ctx' = c /\ Return(IPC_EVENT_SET("TX", f)) /\ UNCHANGED files
  BY <1>11, <1>14 DEF Served, Return, IPC_EVENT_SET
<1>15. CASE /\ ctx' = ipc_del_fd(ipc_del_fd(ipc_ctx_switching_del(c, f), to), f)
            /\ files' = CloseFile(CloseFile(files, to), f)
            /\ Return(IPC_EVENT_SET("ERROR", f))
  <2>1. PICK d : d = ctx'
    OBVIOUS
  <2>2. PICK G : G = files'
    OBVIOUS
  <2>3. Milder(files, G)
    BY <1>1, <1>5, <1>13, <1>15, <2>2, MilderCloseTwo
  <2>4. d = ipc_del_fd(ipc_del_fd(ipc_ctx_switching_del(c, f),
              OtherEnd(ipc_switching_get_(c.switchdb, f), f)), f)
    BY <1>4, <1>10, <1>12, <1>15, <2>1
  <2>5. HasRecord(c.switchdb, f)
    BY <1>5, <1>10
  <2>6. PairsOK(d, G)
    BY <1>5, <1>9, <1>11, <2>3, <2>4, <2>5, PairsEnd
  <2> QED
    BY <1>15, <2>1, <2>2, <2>6, PairsServed
<1> QED
  BY <1>3, <1>4, <1>5, <1>6, <1>8, <1>12, <1>14, <1>15 DEF fd_switching_write

LEMMA PairsServe ==
  ASSUME IInv, PairInv, Callback = {}, NEW i \in 1 .. Len(ctx.conns), Serve(i)
  PROVE  Served
<1>1. Good(ctx, files) /\ ctx \in Context /\ files \in [Fd -> File(Body)]
      /\ PairsOK(ctx, files) /\ Calm(ctx)
  BY DEF IInv, Good, FilesOK, PairInv, PairsOK
<1>2. PICK f : f = ctx.conns[i].fd
  OBVIOUS
<1>3. CASE ExtraSocket(i)
  <2>1. ctx' = ctx /\ files' = files /\ Return(IPC_EVENT_SET("EXTRA_SOCKET", f))
    BY <1>1, <1>2, <1>3, CalmMore DEF ExtraSocket
  <2> QED
    BY <1>1, <2>1 DEF Served, Return, IPC_EVENT_SET
<1>4. CASE handle_writing_message(i)
  <2>1. PICK d : d = ctx'
    OBVIOUS
  <2>2. d.conns = ctx.conns /\ d.switchdb = ctx.switchdb /\ files' = files
        /\ Return(IPC_EVENT_SET("TX", f))
    BY <1>1, <1>2, <1>4, <2>1 DEF handle_writing_message, Context
  <2>3. PairsOK(d, files)
    BY <1>1, <2>2, MilderSame, PairsSame
  <2> QED
    BY <2>1, <2>2, <2>3, PairsServed
<1>5. CASE HangUp(i)
  <2>1. PICK d : d = ctx'
    OBVIOUS
  <2>2. PICK G : G = files'
    OBVIOUS
  <2>3. f \in Fd
    BY <1>2, <1>5, FirstFacts DEF HangUp
  <2>4. d.conns = ctx.conns /\ d.switchdb = ctx.switchdb
        /\ Return(IPC_EVENT_SET("DISCONNECTION", f)) /\ G \in {files, CloseFile(files, f)}
    BY <1>1, <1>2, <1>5, <2>1, <2>2 DEF HangUp, ipc_close, Context
  <2>5. Milder(files, G)
    BY <1>1, <2>3, <2>4, MilderSame, MilderClose
  <2>6. PairsOK(d, G)
    BY <1>1, <2>4, <2>5, PairsSame
  <2> QED
    BY <2>1, <2>2, <2>4, <2>6, PairsServed
<1>6. CASE PollError(i)
  BY <1>1, <1>6 DEF PollError, Served, Return, IPC_EVENT_SET
<1>7. CASE fd_switching_read(i)
  BY <1>7, PairsSwitchingRead DEF Served
<1> QED
  BY <1>3, <1>4, <1>5, <1>6, <1>7, PairsAccept, PairsNewMessage, PairsSwitchingWrite DEF Serve

(* The application looks at the event.                                     *)
LEMMA MilderHandleEvent ==
  ASSUME IInv, HandleEvent
  PROVE  Milder(files, files')
<1>1. files \in [Fd -> File(Body)]
  BY DEF IInv, FilesOK
<1>2. PICK f : f = event.origin
  OBVIOUS
<1>3. PICK G : G = files'
  OBVIOUS
<1>4. G \in {files, CloseFile(files, f), WithRx(files, f, <<>>)}
  BY <1>2, <1>3 DEF HandleEvent, Drain, WithRx
<1>5. CASE f \in Fd
  BY <1>1, <1>3, <1>4, <1>5, MilderSame, MilderClose, MilderRead
<1>6. CASE f \notin Fd
  <2>1. CloseFile(files, f) = files /\ WithRx(files, f, <<>>) = files
    BY <1>1, <1>6 DEF CloseFile, WithRx
  <2> QED
    BY <1>3, <1>4, <2>1, MilderSame
<1> QED
  BY <1>5, <1>6

LEMMA PairsHandleEvent ==
  ASSUME IInv, PairInv, HandleEvent
  PROVE  PairsOK(ctx', files') /\ pc' = "app"
<1>1. Good(ctx, files) /\ ctx \in Context /\ files \in [Fd -> File(Body)]
      /\ PairsOK(ctx, files)
  BY DEF IInv, Good, FilesOK, PairInv
<1>2. PICK f : f = event.origin
  OBVIOUS
<1>3. pc' = "app" /\ ctx' \in {ctx, ipc_del_fd(ctx, f)}
  BY <1>2 DEF HandleEvent
<1>4. PICK d : d = ctx'
  OBVIOUS
<1>5. PICK G : G = files'
  OBVIOUS
<1>7. Milder(files, G)
  BY <1>5, MilderHandleEvent
<1>8. Within(ctx, ctx)
  BY WithinSame
<1>9. /\ Within(d, ctx) /\ d.switchdb \in {ctx.switchdb, <<>>}
      /\ d.switchdb = ctx.switchdb \/ d.conns = <<>>
  <2>1. CASE d = ctx
    BY <1>8, <2>1
  <2>2. CASE d = ipc_del_fd(ctx, f)
    <3>1. d.switchdb \in {ctx.switchdb, <<>>}
      BY <1>1, <2>2, KeepsDelFd
    <3> QED
      BY <1>1, <2>2, <3>1, WithinDelFd
  <2> QED
    BY <1>3, <1>4, <2>1, <2>2
<1>10. PairsOK(d, G)
  BY <1>1, <1>7, <1>9, PairsLess
<1> QED
  BY <1>3, <1>4, <1>5, <1>10

(* The peers of a file that was given something to read, or left: what     *)
(* poll(2) said stays true.                                                *)
LEMMA PairsPeer ==
  ASSUME IInv, PairInv, UNCHANGED <<ctx, event, pc, revents>>,
         OneQueued(files'), DestUp(ctx, files'),
         \A g \in Fd : /\ files[g].rx # <<>> => files'[g].rx # <<>>
                       /\ files[g].peer # "up" => files'[g].peer # "up"
  PROVE  PairInv'
<1>1. Good(ctx, files) /\ ctx \in Context
  BY DEF IInv, Good
<1>2. PairsOK(ctx', files')
  BY DEF PairInv, PairsOK
<1>3. InInv'
  <2> SUFFICES ASSUME pc' = "polled", NEW i \in 1 .. Len(ctx'.conns), "IN" \in revents'[i]
               PROVE  files'[ctx'.conns[i].fd].rx # <<>> \/ files'[ctx'.conns[i].fd].peer # "up"
    BY DEF InInv
  <2>1. pc = "polled" /\ i \in 1 .. Len(ctx.conns) /\ "IN" \in revents[i]
    OBVIOUS
  <2>2. PICK f : f = ctx.conns[i].fd
    OBVIOUS
  <2>3. files[f].rx # <<>> \/ files[f].peer # "up"
    BY <2>1, <2>2 DEF PairInv, InInv
  <2>4. f \in Fd
    <3>1. FlagsOK(ctx, revents, files, i)
      BY <2>1 DEF IInv, PollInv
    <3>2. f # NoFd
      BY <2>1, <2>2, <3>1 DEF FlagsOK
    <3> QED
      BY <1>1, <2>1, <2>2, <3>2, ContextFields
  <2> QED
    BY <2>2, <2>3, <2>4
<1> QED
  BY <1>2, <1>3 DEF PairInv

(* What arrives on a file, when nothing waits there.                       *)
LEMMA QueuedArrive ==
  ASSUME NEW F \in [Fd -> File(Body)], NEW f \in Fd, NEW b \in Body, NEW G,
         G = WithRx(F, f, Append(F[f].rx, b)), OneQueued(F),
         F[f].sort = "listen" \/ F[f].rx = <<>>
  PROVE  /\ OneQueued(G)
         /\ \A g \in Fd : G[g].peer = F[g].peer /\ (F[g].rx # <<>> => G[g].rx # <<>>)
<1>1. PICK x \in File(Body) : x = F[f]
  OBVIOUS
<1>2. PICK q \in Seq(Body) : q = x.rx
  BY DEF File
<1>3. PICK a : a = Append(q, b)
  OBVIOUS
<1>4. a # <<>> /\ (q = <<>> => Len(a) = 1)
  BY <1>3
<1>5. G[f] = [x EXCEPT !.rx = a] /\ \A g \in Fd : g # f => G[g] = F[g]
  BY <1>1, <1>2, <1>3 DEF WithRx
<1>6. G[f].rx = a /\ G[f].sort = x.sort /\ G[f].peer = x.peer
  BY <1>5 DEF File
<1>7. G[f].sort # "listen" => Len(G[f].rx) = 1
  BY <1>1, <1>2, <1>4, <1>6
<1>8. OneQueued(G)
  <2> SUFFICES ASSUME NEW g \in Fd, G[g].sort # "listen" PROVE Len(G[g].rx) <= 1
    BY DEF OneQueued
  <2>1. CASE g = f
    <3>1. Len(G[g].rx) = 1
      BY <1>7, <2>1, Zenon
    <3>2. PICK n : n = Len(G[g].rx)
      OBVIOUS
    <3>3. n = 1
      BY <3>1, <3>2, Zenon
    <3>4. n <= 1
      BY <3>3
    <3> QED
      BY <3>2, <3>4, Zenon
  <2>2. CASE g # f
    <3>1. G[g] = F[g]
      BY <1>5, <2>2, Zenon
    <3> QED
      BY <3>1, Zenon DEF OneQueued
  <2> QED
    BY <2>1, <2>2
<1> QED
  BY <1>1, <1>2, <1>4, <1>5, <1>6, <1>8

LEMMA PairsPeers ==
  ASSUME IInv, PairInv, ~Pipelining, ~DestLeaves, Peers
  PROVE  PairInv'
<1>1. Good(ctx, files) /\ ctx \in Context /\ files \in [Fd -> File(Body)]
      /\ OneQueued(files) /\ DestUp(ctx, files)
  BY DEF IInv, Good, FilesOK, PairInv, PairsOK
<1>2. PICK G : G = files'
  OBVIOUS
<1>3. ASSUME NEW f \in Fd, NEW b \in Body,
             files' = [files EXCEPT ![f].rx = Append(@, b)],
             files[f].sort = "listen" \/ files[f].rx = <<>>,
             UNCHANGED <<ctx, event, pc, revents>>
      PROVE  PairInv'
  <2>1. OneQueued(G)
        /\ \A g \in Fd : G[g].peer = files[g].peer /\ (files[g].rx # <<>> => G[g].rx # <<>>)
    <3>1. G = WithRx(files, f, Append(files[f].rx, b))
      BY <1>2, <1>3 DEF WithRx
    <3> QED
      BY <1>1, <1>3, <3>1, QueuedArrive
  <2>2. DestUp(ctx, G)
    BY <1>1, <2>1, DestUpPeer
  <2> QED
    BY <1>2, <1>3, <2>1, <2>2, PairsPeer
<1>4. ASSUME NEW f \in Fd, NEW how \in {"gone", "reset"}, PeerLeave(f, how)
      PROVE  PairInv'
  <2>1. files' = [files EXCEPT ![f].peer = how] /\ UNCHANGED <<ctx, event, pc, revents>>
        /\ \A k \in 1 .. Len(ctx.switchdb) : ctx.switchdb[k].dest # f
    BY <1>4 DEF PeerLeave
  <2>2. PICK x \in File(Body) : x = files[f]
    BY <1>1
  <2>3. G[f] = [x EXCEPT !.peer = how] /\ \A g \in Fd : g # f => G[g] = files[g]
    BY <1>1, <1>2, <2>1, <2>2
  <2>4. G[f].rx = x.rx /\ G[f].sort = x.sort /\ G[f].peer = how /\ how # "up"
    BY <2>3 DEF File
  <2>5. OneQueued(G)
    BY <1>1, <2>2, <2>3, <2>4 DEF OneQueued
  <2>6. \A g \in Fd : G[g].rx = files[g].rx /\ (files[g].peer # "up" => G[g].peer # "up")
    BY <2>2, <2>3, <2>4
  <2>7. DestUp(ctx, G)
    <3>1. \A k \in 1 .. Len(ctx.switchdb) : ctx.switchdb[k].dest \in Fd
      BY <1>1, DestInFd
    <3> QED
      BY <1>1, <2>1, <2>3, <3>1 DEF DestUp
  <2> QED
    BY <1>2, <2>1, <2>5, <2>6, <2>7, PairsPeer
<1>5. ASSUME NEW f \in Fd, PeerConnect(f)
      PROVE  PairInv'
  <2>1. PICK b : b = [id |-> Fresh, kind |-> "connect"]
    OBVIOUS
  <2>2. b \in Body
    BY <2>1 DEF Body, Fresh, IInv, RestOK
  <2>3. files' = [files EXCEPT ![f].rx = Append(@, b)] /\ files[f].sort = "listen"
        /\ UNCHANGED <<ctx, event, pc, revents>>
    BY <1>5, <2>1 DEF PeerConnect
  <2> QED
    BY <1>3, <2>2, <2>3
<1>6. ASSUME NEW f \in Fd, NEW kind \in Payload, PeerSend(f, kind)
      PROVE  PairInv'
  <2>1. PICK b : b = [id |-> nmsgs + 1, kind |-> kind]
    OBVIOUS
  <2>2. b \in Body
    BY <2>1, PayloadAssumption DEF Body, Kinds, IInv, RestOK
  <2>3. files' = [files EXCEPT ![f].rx = Append(@, b)] /\ files[f].rx = <<>>
        /\ UNCHANGED <<ctx, event, pc, revents>>
    BY <1>6, <2>1 DEF PeerSend
  <2> QED
    BY <1>3, <2>2, <2>3
<1> QED
  BY <1>4, <1>5, <1>6 DEF Peers

(* poll(2) reports what there is to read.                                  *)
LEMMA PairsPollReady == ASSUME PairInv, PollReady PROVE PairInv'
<1>1. ctx' = ctx /\ files' = files /\ revents' = Reported /\ pc' = "polled"
  BY DEF PollReady
<1>2. ASSUME NEW i \in 1 .. Len(ctx.conns), "IN" \in Reported[i]
      PROVE  files[ctx.conns[i].fd].rx # <<>> \/ files[ctx.conns[i].fd].peer # "up"
  <2>1. PICK f : f = ctx.conns[i].fd
    OBVIOUS
  <2>2. Reported[i] = IF f = NoFd THEN {} ELSE Poll(files[f], HasMessage(ctx.tx, f))
    BY <2>1 DEF Reported
  <2>3. "IN" \in Poll(files[f], HasMessage(ctx.tx, f))
    BY <1>2, <2>2
  <2> QED
    BY <2>1, <2>3 DEF Poll
<1>3. InInv'
  BY <1>1, <1>2 DEF InInv
<1>4. PairsOK(ctx', files')
  BY <1>1 DEF PairInv
<1> QED
  BY <1>3, <1>4 DEF PairInv

LEMMA PairsInit == Init => PairInv
<1> SUFFICES ASSUME Init PROVE PairInv
  OBVIOUS
<1>1. ctx.conns = <<>> /\ ctx.switchdb = <<>> /\ pc = "app"
      /\ \A f \in Fd : files[f].rx = <<>>
  BY DEF Init, EmptyContext, ClosedFile
<1>2. Len(<<>>) <= 1 /\ 1 .. Len(<<>>) = {}
  OBVIOUS
<1>3. OneQueued(files)
  BY <1>1, <1>2, Zenon DEF OneQueued
<1>4. Calm(ctx) /\ Recorded(ctx) /\ DestUp(ctx, files)
  BY <1>1, <1>2 DEF Calm, Recorded, IsSwitched, HasType, DestUp
<1>5. InInv
  BY <1>1 DEF InInv
<1> QED
  BY <1>3, <1>4, <1>5 DEF PairInv, PairsOK

(* Every step keeps the invariant of the pairs.                            *)
LEMMA PairsNext ==
  ASSUME Callback = {}, ~Pipelining, ~DestLeaves, IInv, PairInv, [Next]_vars
  PROVE  PairInv'
<1>1. ASSUME PairsOK(ctx', files'), pc' = "app" PROVE PairInv'
  BY <1>1 DEF PairInv, InInv
<1>2. CASE Application
  BY <1>1, <1>2, PairsApplication DEF PairInv
<1>3. CASE EventLoop
  <2>1. CASE PollTimeout
    <3>1. ctx' = ctx /\ files' = files /\ pc' = "returned"
      BY <2>1 DEF PollTimeout
    <3> QED
      BY <3>1 DEF PairInv, InInv
  <2>2. ASSUME NEW i \in 1 .. Len(ctx.conns), Serve(i)
        PROVE  PairInv'
    <3>1. Served
      BY <2>2, PairsServe
    <3> QED
      BY <3>1 DEF Served, PairInv, InInv
  <2>3. CASE HandleEvent
    BY <1>1, <2>3, PairsHandleEvent
  <2> QED
    BY <1>3, <2>1, <2>2, <2>3, PairsPollReady DEF EventLoop, ipc_wait_event
<1>4. CASE Peers
  BY <1>4, PairsPeers
<1>5. CASE UNCHANGED vars
  <2>1. PairsOK(ctx', files')
    BY <1>5 DEF vars, PairInv
  <2> QED
    BY <1>5, <2>1 DEF vars, PairInv, InInv
<1>6. CASE Killed
  BY <1>5, <1>6 DEF Killed
<1> QED
  BY <1>2, <1>3, <1>4, <1>5, <1>6 DEF Next

(* A connection that takes messages through callbacks is in a switching,   *)
(* for any number of pairs, as long as the default callbacks are used, no  *)
(* two messages are read at once and the services stay: fd_switching_read  *)
(* then gives up a pair only when its client ended, and removes both ends  *)
(* with the record.                                                        *)
THEOREM SwitchedAlwaysRecorded ==
  ASSUME Callback = {}, ~Pipelining, ~DestLeaves
  PROVE  Spec => []SwitchedHasRecord
<1>1. IInv /\ PairInv /\ [Next]_vars => PairInv'
  BY PairsNext
<1>2. PairInv => SwitchedHasRecord
  BY DEF PairInv, PairsOK, Recorded, IsSwitched, HasType, SwitchedHasRecord
<1> QED
  BY <1>1, <1>2, PairsInit, IInvAlways, PTL DEF Spec

(* The event of a connection that was served is set.                       *)
LEMMA ServedStep ==
  ASSUME Callback = {}, "server" \notin Calls, IInv, PairInv, [Next]_vars
  PROVE  ServedIsSet
<1> SUFFICES ASSUME pc = "polled", pc' = "returned" PROVE event'.type # "NOT_SET"
  BY DEF ServedIsSet
<1>1. ASSUME NEW i \in 1 .. Len(ctx.conns), Serve(i)
      PROVE  event'.type # "NOT_SET"
  BY <1>1, PairsServe DEF Served
<1>2. ~Application
  BY DEF Application, May, ServerInit, Connect, AddFd, ConnectSwitched, SetCallbacks,
     SetCallbackIn, Write, CloseConnection, handle_disconnection, CloseForgotten, Shutdown
<1>3. ~PollReady /\ ~PollTimeout /\ ~HandleEvent /\ ~Killed
  BY DEF PollReady, PollTimeout, HandleEvent, Killed
<1>4. ~Peers
  BY DEF Peers, PeerConnect, PeerSend, PeerLeave
<1>5. pc' # pc
  OBVIOUS
<1> QED
  BY <1>1, <1>2, <1>3, <1>4, <1>5 DEF Next, EventLoop, ipc_wait_event, vars

(* When ipc_wait_event serves a connection, the event it returns says what *)
(* was done, for any number of connections and pairs, as long as no        *)
(* listening socket can run out of descriptors and the pairs are as above. *)
THEOREM EventAlwaysFilled ==
  ASSUME Callback = {}, ~Pipelining, ~DestLeaves, "server" \notin Calls
  PROVE  Spec => EventFilled
<1>1. IInv /\ PairInv /\ [Next]_vars => PairInv'
  BY PairsNext
<1>2. IInv /\ PairInv /\ [Next]_vars => [ServedIsSet]_vars
  BY ServedStep
<1> QED
  BY <1>1, <1>2, PairsInit, IInvAlways, PTL DEF Spec, EventFilled

-----------------------------------------------------------------------------
(***************************************************************************)
(* What is read from a switched connection.  Without pipelining one        *)
(* message waits at most, with or without callbacks: the application and   *)
(* the library only take messages from the files.                          *)
(***************************************************************************)

LEMMA MilderInResults ==
  ASSUME NEW x \in File(Body), Len(x.rx) <= 1, NEW cb, NEW in \in InResults(cb, x)
  PROVE  in.rx = <<>>
<1>1. PICK q \in Seq(Body) : q = x.rx
  BY DEF File
<1>2. Tail(q) = <<>> \/ q = <<>>
  <2>1. Len(q) \in Nat /\ Len(q) <= 1
    BY <1>1
  <2>2. CASE q # <<>>
    <3>1. Len(q) # 0
      BY <2>2
    <3>2. \A n \in Nat : n <= 1 /\ n # 0 => n = 1
      OBVIOUS
    <3>3. Len(q) = 1
      BY <2>1, <3>1, <3>2, Zenon
    <3> HIDE DEF File
    <3>4. Tail(q) \in Seq(Body) /\ Len(Tail(q)) = 0
      BY <2>2, <3>3
    <3>5. \A t \in Seq(Body) : Len(t) = 0 => t = <<>>
      OBVIOUS
    <3> QED
      BY <3>4, <3>5, Zenon
  <2> QED
    BY <2>2
<1>3. CASE cb = Null \/ q = <<>>
  <2>1. PICK r : in = [r |-> r, rx |-> <<>>, more |-> FALSE]
    BY <1>1, <1>3 DEF InResults
  <2> QED
    BY <2>1
<1>4. CASE cb # Null /\ q # <<>>
  <2>1. PICK t : t = Tail(q)
    OBVIOUS
  <2>2. PICK more : more = (Len(q) > 1)
    OBVIOUS
  <2>3. in \in [r : {"NO_ERROR", "IGNORE"}, rx : {t}, more : {more}]
               \cup [r : {"PARSING_ERROR"}, rx : {<<>>}, more : {FALSE}]
    BY <1>1, <1>4, <2>1, <2>2, Zenon DEF InResults
  <2>4. in.rx \in {t, <<>>}
    BY <2>3
  <2> QED
    BY <1>2, <1>4, <2>1, <2>4
<1> QED
  BY <1>3, <1>4

LEMMA MilderApplication ==
  ASSUME IInv, Application
  PROVE  Milder(files, files')
<1>1. files \in [Fd -> File(Body)] /\ ctx \in Context
  BY DEF IInv, FilesOK, Good
<1>2. PICK G : G = files'
  OBVIOUS
<1>3. ASSUME NEW f \in Fd, ServerInit(f) \/ Connect(f) \/ AddFd(f)
      PROVE  Milder(files, G)
  <2>1. PICK sort : G = OpenFile(files, f, Fresh, sort)
    BY <1>2, <1>3 DEF ServerInit, Connect, AddFd
  <2> QED
    BY <1>1, <2>1, MilderOpen
<1>4. ASSUME NEW c \in Fd, NEW s \in Fd, ConnectSwitched(c, s)
      PROVE  Milder(files, G)
  <2>1. PICK H : H = OpenFile(files, c, Fresh, "sock")
    OBVIOUS
  <2>2. PICK id : id = Fresh + 1
    OBVIOUS
  <2>3. G = OpenFile(H, s, id, "sock")
    BY <1>2, <1>4, <2>1, <2>2 DEF ConnectSwitched
  <2>4. Fresh \in Nat
    BY DEF IInv, RestOK, Fresh
  <2>5. H \in [Fd -> File(Body)]
    BY <1>1, <2>1, <2>4, FilesOpen DEF Sorts, FilesOK, IInv
  <2>6. Milder(files, H)
    BY <1>1, <2>1, MilderOpen
  <2>7. Milder(H, G)
    BY <2>3, <2>5, MilderOpen
  <2> QED
    BY <2>6, <2>7, MilderChain
<1>5. ASSUME NEW f \in Fd, NEW cb \in Callback, SetCallbacks(f, cb) \/ SetCallbackIn(f, cb)
      PROVE  Milder(files, G)
  BY <1>2, <1>5, MilderSame DEF SetCallbacks, SetCallbackIn
<1>6. ASSUME NEW f \in Fd, NEW kind \in Payload, Write(f, kind)
      PROVE  Milder(files, G)
  BY <1>2, <1>6, MilderSame DEF Write
<1>7. ASSUME NEW i \in 1 .. Len(ctx.conns), CloseConnection(i)
      PROVE  Milder(files, G)
  <2>1. PICK f : f = ctx.conns[i].fd
    OBVIOUS
  <2>2. f \in Fd /\ G = CloseFile(files, f)
    BY <1>1, <1>2, <1>7, <2>1, ContextFields DEF CloseConnection
  <2> QED
    BY <1>1, <2>2, MilderClose
<1>8. ASSUME NEW f \in Fd, handle_disconnection(f)
      PROVE  Milder(files, G)
  <2>1. PICK to : to = OtherEnd(ipc_switching_get_(ctx.switchdb, f), f)
    OBVIOUS
  <2>2. HasRecord(ctx.switchdb, f) /\ G = CloseFile(CloseFile(files, to), f)
    BY <1>2, <1>8, <2>1 DEF handle_disconnection
  <2>3. to \in Fd
    BY <1>1, <2>1, <2>2, RecordFacts, ContextFields
  <2> QED
    BY <1>1, <2>2, <2>3, MilderCloseTwo
<1>9. ASSUME NEW f \in Fd, CloseForgotten(f)
      PROVE  Milder(files, G)
  BY <1>1, <1>2, <1>9, MilderClose DEF CloseForgotten
<1>10. CASE Shutdown
  BY <1>1, <1>2, <1>10 DEF Shutdown, Milder, ClosedFile
<1> QED
  BY <1>2, <1>3, <1>4, <1>5, <1>6, <1>7, <1>8, <1>9, <1>10 DEF Application

LEMMA MilderServe ==
  ASSUME IInv, OneQueued(files), NEW i \in 1 .. Len(ctx.conns), Serve(i)
  PROVE  Milder(files, files')
<1>1. files \in [Fd -> File(Body)] /\ ctx \in Context
  BY DEF IInv, FilesOK, Good
<1>2. PICK G : G = files'
  OBVIOUS
<1>3. PICK f : f = ctx.conns[i].fd
  OBVIOUS
<1>4. First(i)
  BY DEF Serve, ipc_accept_add, ExtraSocket, handle_new_message, fd_switching_read,
     handle_writing_message, fd_switching_write, HangUp, PollError, FirstIn, FirstOut
<1>5. f \in Fd /\ Matches(ctx.conns[i].type, files[f].sort)
  BY <1>3, <1>4, FirstFacts
<1>6. Milder(files, files) /\ Milder(files, CloseFile(files, f))
      /\ Milder(files, WithRx(files, f, <<>>))
  BY <1>1, <1>5, MilderSame, MilderClose, MilderRead
<1>7. CASE ExtraSocket(i) \/ handle_writing_message(i) \/ PollError(i)
  BY <1>2, <1>6, <1>7 DEF ExtraSocket, handle_writing_message, PollError
<1>8. CASE HangUp(i)
  BY <1>2, <1>3, <1>6, <1>8 DEF HangUp
<1>9. CASE handle_new_message(i)
  BY <1>2, <1>3, <1>6, <1>9 DEF handle_new_message, Drain, WithRx
<1>10. CASE fd_switching_write(i)
  <2>1. PICK to : to = OtherEnd(ipc_switching_get_(ctx.switchdb, f), f)
    OBVIOUS
  <2>2. \/ G = files
        \/ HasRecord(ctx.switchdb, f) /\ G = CloseFile(CloseFile(files, to), f)
    BY <1>2, <1>3, <1>10, <2>1 DEF fd_switching_write
  <2>3. HasRecord(ctx.switchdb, f) => to \in Fd
    BY <1>1, <1>5, <2>1, RecordFacts, ContextFields
  <2> QED
    BY <1>1, <1>2, <1>5, <1>6, <2>2, <2>3, MilderCloseTwo
<1>11. CASE fd_switching_read(i)
  <2>1. files[f].sort = "sock"
    BY <1>3, <1>5, <1>11 DEF fd_switching_read, FirstIn, Matches
  <2>2. PICK x \in File(Body) : x = files[f]
    BY <1>1, <1>5
  <2>3. Len(x.rx) <= 1
    BY <1>5, <2>1, <2>2 DEF OneQueued
  <2>4. CASE G = files
    BY <1>2, <1>6, <2>4
  <2>5. ASSUME NEW cb, NEW in \in InResults(cb, x), G = WithRx(files, f, in.rx)
        PROVE  Milder(files, G)
    <3>1. in.rx = <<>>
      BY <2>3, <2>5, MilderInResults
    <3> QED
      BY <1>6, <2>5, <3>1
  <2> QED
    BY <1>2, <1>3, <1>11, <2>2, <2>4, <2>5 DEF fd_switching_read, WithRx
<1>12. CASE ipc_accept_add(i)
  <2>1. files[f].sort = "listen"
    BY <1>3, <1>5, <1>12 DEF ipc_accept_add, FirstIn, Matches
  <2>2. CASE G = files
    BY <1>2, <1>6, <2>2
  <2>3. ASSUME NEW g \in Free(files),
               G = [OpenFile(files, g, files[f].rx[1].id, "sock") EXCEPT ![f].rx = Tail(@)]
        PROVE  Milder(files, G)
    BY <1>1, <1>5, <2>1, <2>3, MilderAccept
  <2> QED
    BY <1>2, <1>3, <1>12, <2>2, <2>3 DEF ipc_accept_add
<1> QED
  BY <1>2, <1>7, <1>8, <1>9, <1>10, <1>11, <1>12 DEF Serve

(* Nothing but a peer adds something to read.                              *)
LEMMA QueuedNext ==
  ASSUME ~Pipelining, IInv, OneQueued(files), [Next]_vars
  PROVE  OneQueued(files')
<1>1. files \in [Fd -> File(Body)]
  BY DEF IInv, FilesOK
<1>2. PICK G : G = files'
  OBVIOUS
<1>3. ASSUME Milder(files, files') PROVE OneQueued(files')
  BY <1>2, <1>3, MilderQueued
<1>4. CASE Application
  BY <1>3, <1>4, MilderApplication
<1>5. CASE EventLoop
  <2>1. CASE PollReady \/ PollTimeout
    BY <2>1 DEF PollReady, PollTimeout
  <2>2. ASSUME NEW i \in 1 .. Len(ctx.conns), Serve(i)
        PROVE  OneQueued(files')
    BY <1>3, <2>2, MilderServe
  <2>3. CASE HandleEvent
    BY <1>3, <2>3, MilderHandleEvent
  <2> QED
    BY <1>5, <2>1, <2>2, <2>3 DEF EventLoop, ipc_wait_event
<1>6. CASE Peers
  <2>1. ASSUME NEW f \in Fd, NEW b \in Body, G = WithRx(files, f, Append(files[f].rx, b)),
               files[f].sort = "listen" \/ files[f].rx = <<>>
        PROVE  OneQueued(G)
    BY <1>1, <2>1, QueuedArrive
  <2>2. ASSUME NEW f \in Fd, PeerConnect(f)
        PROVE  OneQueued(G)
    <3>1. PICK b : b = [id |-> Fresh, kind |-> "connect"]
      OBVIOUS
    <3>2. b \in Body
      BY <3>1 DEF Body, Fresh, IInv, RestOK
    <3> QED
      BY <1>2, <2>1, <2>2, <3>1, <3>2 DEF PeerConnect, WithRx
  <2>3. ASSUME NEW f \in Fd, NEW kind \in Payload, PeerSend(f, kind)
        PROVE  OneQueued(G)
    <3>1. PICK b : b = [id |-> nmsgs + 1, kind |-> kind]
      OBVIOUS
    <3>2. b \in Body
      BY <3>1, PayloadAssumption DEF Body, Kinds, IInv, RestOK
    <3> QED
      BY <1>2, <2>1, <2>3, <3>1, <3>2 DEF PeerSend, WithRx
  <2>4. ASSUME NEW f \in Fd, NEW how \in {"gone", "reset"}, PeerLeave(f, how)
        PROVE  OneQueued(G)
    <3>1. G = [files EXCEPT ![f].peer = how]
      BY <1>2, <2>4 DEF PeerLeave
    <3>2. \A g \in Fd : G[g].rx = files[g].rx /\ G[g].sort = files[g].sort
      BY <1>1, <3>1 DEF File
    <3> QED
      BY <3>2 DEF OneQueued
  <2> QED
    BY <1>2, <1>6, <2>2, <2>3, <2>4 DEF Peers
<1>7. CASE Killed \/ UNCHANGED vars
  BY <1>7 DEF Killed, vars
<1> QED
  BY <1>4, <1>5, <1>6, <1>7 DEF Next

(* ipc_write of a message for a connection of the context puts it in the   *)
(* list.                                                                   *)
LEMMA WriteLists ==
  ASSUME NEW c \in Context, NEW m \in Message, Registered(c, m.fd), NEW d,
         d = ipc_write(c, m)
  PROVE  \E k \in 1 .. Len(d.tx) : d.tx[k].id = m.id /\ d.tx[k].fd = m.fd
<1>1. PICK copy : copy = [m EXCEPT !.kind = strncpy(m.kind)]
  OBVIOUS
<1>2. copy.id = m.id /\ copy.fd = m.fd
  BY <1>1 DEF Message
<1>3. PICK t \in Seq(Message) : t = c.tx
  BY ContextFields
<1>4. d.tx = Append(t, copy)
  BY <1>1, <1>3 DEF ipc_write, ipc_messages_add, Context
<1>5. PICK u : u = d.tx
  OBVIOUS
<1>6. copy \in Message
  BY <1>1 DEF Message, strncpy, Kinds
<1>7. Len(t) + 1 \in 1 .. Len(u) /\ u[Len(t) + 1] = copy
  BY <1>3, <1>4, <1>5, <1>6
<1> QED
  BY <1>2, <1>5, <1>7

(* One message is read with default_cb_in, and is then in the list.        *)
LEMMA TransferStep ==
  ASSUME IInv, Coherent(ctx), OneQueued(files), NEW i \in 1 .. Len(ctx.conns),
         fd_switching_read(i), NEW f, f = ctx.conns[i].fd,
         NEW sw, sw = ipc_switching_get_(ctx.switchdb, f), HasRecord(ctx.switchdb, f),
         InCallback(sw, f) = Null, NEW b \in 1 .. Len(files[f].rx)
  PROVE  \E k \in 1 .. Len(ctx'.tx) : /\ ctx'.tx[k].id = files[f].rx[b].id
                                     /\ ctx'.tx[k].fd \in Ends(sw) \ {f}
<1>1. Good(ctx, files) /\ ctx \in Context /\ FilesOK(files) /\ files \in [Fd -> File(Body)]
  BY DEF IInv, Good, FilesOK
<1>2. First(i) /\ ctx.conns[i].type = "SWITCHED"
  BY DEF fd_switching_read, FirstIn
<1>3. f \in Fd /\ files[f].sort = "sock"
  BY <1>2, FirstFacts DEF Matches
<1>4. PICK x \in File(Body) : x = files[f]
  BY <1>1, <1>3
<1>5. PICK q \in Seq(Body) : q = x.rx
  BY DEF File
<1>6. Len(x.rx) <= 1
  BY <1>3, <1>4 DEF OneQueued
<1>7. b = 1 /\ q # <<>> /\ q[1] \in Body /\ q[1].kind \in Kinds
  <2>1. Len(q) <= 1 /\ b \in 1 .. Len(q) /\ Len(q) \in Nat
    BY <1>4, <1>5, <1>6
  <2>2. \A n \in Nat : n <= 1 /\ b \in 1 .. n => b = 1
    OBVIOUS
  <2>3. b = 1
    BY <2>1, <2>2, Zenon
  <2>4. q # <<>> /\ q[b] \in Body
    BY <2>1
  <2>5. q[b].kind \in Kinds
    BY <1>1, <1>3, <1>4, <1>5, <2>1 DEF FilesOK
  <2> QED
    BY <2>3, <2>4, <2>5
<1>8. default_cb_in(x) = "NO_ERROR"
  BY <1>5, <1>6, <1>7, DefaultIn
<1>9. sw \in Record /\ f \in Ends(sw)
  BY <1>1, ContextFields, RecordFacts, RecordIndexFacts DEF ipc_switching_get_
<1>10. PICK to \in Fd : to = OtherEnd(sw, f)
  BY <1>1, <1>3, ContextFields, RecordFacts
<1>11. sw.orig # sw.dest /\ \A g \in Ends(sw) : IsSwitched(ctx, g)
  <2>1. PICK k \in 1 .. Len(ctx.switchdb) : sw = ctx.switchdb[k]
    BY <1>1, ContextFields, RecordIndexFacts DEF ipc_switching_get_
  <2> QED
    BY <2>1 DEF Coherent
<1>12. to \in Ends(sw) \ {f} /\ IsSwitched(ctx, to)
  BY <1>9, <1>10, <1>11 DEF Ends, OtherEnd
<1>13. Registered(ctx, to)
  BY <1>12 DEF IsSwitched, HasType, Registered
<1>14. PICK m : m = [fd |-> to, file |-> files[to].id, id |-> q[1].id, kind |-> q[1].kind]
  OBVIOUS
<1>15. m \in Message /\ m.id = q[1].id /\ m.fd = to
  BY <1>1, <1>7, <1>10, <1>14 DEF Message, Body, File
<1>16. PICK c : c = MoreToRead(ctx, i, FALSE)
  OBVIOUS
<1>17. c \in Context /\ Registered(c, to)
  BY <1>1, <1>13, <1>16, GoodMore DEF Good
<1>18. PICK d : d = ctx'
  OBVIOUS
<1>19. d = ipc_write(c, m)
  <2>1. InResults(Null, x) = {[r |-> "NO_ERROR", rx |-> <<>>, more |-> FALSE]}
    BY <1>8 DEF InResults
  <2>2. PICK in \in InResults(Null, x) :
          LET e == MoreToRead(ctx, i, in.more)
          IN  in.r = "NO_ERROR" =>
                ctx' = ipc_write(e, [fd |-> to, file |-> files[to].id,
                                     id |-> x.rx[1].id, kind |-> x.rx[1].kind])
    BY <1>4, <1>10 DEF fd_switching_read
  <2>3. in.r = "NO_ERROR" /\ in.more = FALSE
    BY <2>1, <2>2
  <2> QED
    BY <1>5, <1>14, <1>16, <1>18, <2>2, <2>3
<1>20. \E k \in 1 .. Len(d.tx) : d.tx[k].id = m.id /\ d.tx[k].fd = m.fd
  BY <1>15, <1>17, <1>19, WriteLists
<1> QED
  BY <1>4, <1>5, <1>7, <1>12, <1>15, <1>18, <1>20

(* What the default callback reads from one end of a switching is in the   *)
(* list to send, for the other end: when one message is read at a time,    *)
(* nothing is lost between fd_switching_read and ipc_write, whose result   *)
(* is not looked at, whatever other callbacks and connections do.          *)
THEOREM SwitchAlwaysTransfers ==
  ASSUME ~Pipelining
  PROVE  Spec => SwitchTransfers
<1> DEFINE Q == OneQueued(files)
           C == Coherent(ctx)
<1>1. Init => Q /\ C
  <2>1. Init => Q
    BY PairsInit DEF PairInv, PairsOK
  <2> QED
    BY <2>1 DEF Init, EmptyContext, Coherent
<1>2. IInv /\ Q /\ [Next]_vars => Q'
  <2>1. OneQueued(files') => OneQueued(files)'
    BY DEF OneQueued
  <2> QED
    BY <2>1, QueuedNext
<1>3. IInv /\ C /\ [Next]_vars => C'
  BY CoherentNext
<1>4. IInv /\ Q /\ C => Transfers
  <2> SUFFICES ASSUME IInv, Q, C, NEW i \in 1 .. Len(ctx.conns), fd_switching_read(i),
                      NEW f, f = ctx.conns[i].fd,
                      NEW sw, sw = ipc_switching_get_(ctx.switchdb, f),
                      HasRecord(ctx.switchdb, f), InCallback(sw, f) = Null,
                      NEW b \in 1 .. Len(files[f].rx)
               PROVE  \E m \in Listed' : m.id = files[f].rx[b].id /\ m.fd \in Ends(sw) \ {f}
    BY DEF Transfers
  <2>1. PICK k \in 1 .. Len(ctx'.tx) : /\ ctx'.tx[k].id = files[f].rx[b].id
                                       /\ ctx'.tx[k].fd \in Ends(sw) \ {f}
    BY TransferStep
  <2>2. ctx'.tx[k] \in Listed'
    BY <2>1 DEF Listed
  <2> QED
    BY <2>1, <2>2
<1> HIDE DEF Q, C
<1> QED
  BY <1>1, <1>2, <1>3, <1>4, IInvAlways, PTL DEF Spec, SwitchTransfers

-----------------------------------------------------------------------------
(* A libipc context implements Outbox: every step of IpcContext is a step  *)
(* of Outbox or leaves what Outbox sees unchanged.                         *)
(*                                                                         *)
(* Beside IInv, three facts are needed:                                    *)
(*   - a message exists in one place: the list to send, the input of one   *)
(*     descriptor or the history of what was written (MsgIds);             *)
(*   - a connection exists in one place: one descriptor, or the queue of   *)
(*     one listening socket (FileIds);                                     *)
(*   - a hang-up that poll(2) reported has not been undone when it is      *)
(*     served (HupInv): the messages it drops are those of a lost peer.    *)

(* The files whose input is requests for connections, or messages.         *)
Queue(F, what) ==
  {f \in Fd : IF what = "requests" THEN F[f].sort = "listen" ELSE F[f].sort # "listen"}

(* An identity is in one place of these queues.                            *)
RxDistinct(F, what) ==
  \A f, g \in Queue(F, what) :
    \A a \in 1 .. Len(F[f].rx), b \in 1 .. Len(F[g].rx) :
      F[f].rx[a].id = F[g].rx[b].id => f = g /\ a = b

MsgIds(tx, F, n, S) ==
  /\ \A j, k \in 1 .. Len(tx) : tx[j].id = tx[k].id => j = k
  /\ \A k \in 1 .. Len(tx) : tx[k].id <= n
  /\ \A d \in S : d.id <= n
  /\ \A k \in 1 .. Len(tx) : \A d \in S : d.id # tx[k].id
  /\ RxDistinct(F, "messages")
  /\ \A f \in Queue(F, "messages") : \A b \in 1 .. Len(F[f].rx) :
       /\ F[f].rx[b].id <= n
       /\ \A k \in 1 .. Len(tx) : tx[k].id # F[f].rx[b].id
       /\ \A d \in S : d.id # F[f].rx[b].id

FileIds(F, n) ==
  /\ \A f \in Fd : F[f].id <= n
  /\ \A f, g \in Fd : IsOpen(F, f) /\ IsOpen(F, g) /\ F[f].id = F[g].id => f = g
  /\ RxDistinct(F, "requests")
  /\ \A f \in Queue(F, "requests") : \A b \in 1 .. Len(F[f].rx) :
       /\ F[f].rx[b].id <= n
       /\ \A g \in Fd : IsOpen(F, g) => F[g].id # F[f].rx[b].id

HupInv ==
  pc = "polled" =>
    \A i \in 1 .. Len(ctx.conns) :
      "HUP" \in revents[i] => files[ctx.conns[i].fd].peer # "up"

IdsInv == MsgIds(ctx.tx, files, nmsgs, sent) /\ FileIds(files, nfiles)

RInv == IInv /\ HupInv /\ IdsInv

-----------------------------------------------------------------------------
(* Identities stay distinct when queues and lists only shrink.             *)

(* What can be read of f in G is what could be read in F, from some point  *)
(* on.                                                                     *)
RxFrom(G, F, f, what) ==
  \E o \in Nat :
    \A b \in 1 .. Len(G[f].rx) :
      /\ f \in Queue(F, what) /\ b + o \in 1 .. Len(F[f].rx)
      /\ G[f].rx[b] = F[f].rx[b + o]

RxLess(G, F, what) == \A f \in Queue(G, what) : RxFrom(G, F, f, what)

(* The list t has messages of the list s, each at most once.               *)
SubList(t, s) ==
  \E at \in [1 .. Len(t) -> 1 .. Len(s)] :
    /\ \A j, k \in 1 .. Len(t) : at[j] = at[k] => j = k
    /\ \A j \in 1 .. Len(t) : t[j] = s[at[j]]

(* Every file of G that is open is the one of F, and no new identity is    *)
(* used.                                                                   *)
IdLess(G, F) ==
  \A f \in Fd : /\ G[f].id = F[f].id \/ G[f].id = 0
                /\ IsOpen(G, f) => IsOpen(F, f) /\ G[f].id = F[f].id

FilesTyped(F) == F \in [Fd -> File(Body)]

LEMMA FileFields ==
  ASSUME NEW F, FilesTyped(F), NEW f \in Fd
  PROVE  /\ F[f].id \in Nat /\ F[f].rx \in Seq(Body) /\ Len(F[f].rx) \in Nat
         /\ \A b \in 1 .. Len(F[f].rx) : F[f].rx[b] \in Body /\ F[f].rx[b].id \in Nat
<1>1. F[f] \in File(Body)
  BY DEF FilesTyped
<1>2. F[f].id \in Nat /\ F[f].rx \in Seq(Body)
  BY <1>1 DEF File
<1>3. \A b \in 1 .. Len(F[f].rx) : F[f].rx[b] \in Body
  BY <1>2
<1> QED
  BY <1>2, <1>3 DEF Body

LEMMA RxDistinctLess ==
  ASSUME NEW F, NEW G, NEW what \in {"requests", "messages"}, FilesTyped(G),
         RxDistinct(F, what), RxLess(G, F, what)
  PROVE  RxDistinct(G, what)
<1> SUFFICES ASSUME NEW f \in Queue(G, what), NEW g \in Queue(G, what),
                    NEW a \in 1 .. Len(G[f].rx), NEW b \in 1 .. Len(G[g].rx),
                    G[f].rx[a].id = G[g].rx[b].id
             PROVE  f = g /\ a = b
  BY DEF RxDistinct
<1>1. f \in Fd /\ g \in Fd
  BY DEF Queue
<1>2. Len(G[f].rx) \in Nat /\ Len(G[g].rx) \in Nat
  BY <1>1, FileFields
<1>3. PICK o \in Nat : \A x \in 1 .. Len(G[f].rx) :
        /\ f \in Queue(F, what) /\ x + o \in 1 .. Len(F[f].rx)
        /\ G[f].rx[x] = F[f].rx[x + o]
  BY DEF RxLess, RxFrom
<1>4. PICK p \in Nat : \A x \in 1 .. Len(G[g].rx) :
        /\ g \in Queue(F, what) /\ x + p \in 1 .. Len(F[g].rx)
        /\ G[g].rx[x] = F[g].rx[x + p]
  BY DEF RxLess, RxFrom
<1>5. f = g /\ a + o = b + p
  <2>1. F[f].rx[a + o].id = F[g].rx[b + p].id
    BY <1>3, <1>4
  <2>2. f \in Queue(F, what) /\ g \in Queue(F, what)
        /\ a + o \in 1 .. Len(F[f].rx) /\ b + p \in 1 .. Len(F[g].rx)
    BY <1>3, <1>4
  <2> QED
    BY <2>1, <2>2 DEF RxDistinct
<1>6. a \in Nat /\ b \in Nat
  BY <1>2
<1>7. CASE a < b
  <2>1. a + p \in 1 .. Len(F[g].rx) /\ G[g].rx[a] = F[g].rx[a + p] /\ a \in 1 .. Len(G[g].rx)
    BY <1>2, <1>4, <1>5, <1>6, <1>7
  <2>2. a + o \in 1 .. Len(F[f].rx) /\ G[f].rx[a] = F[f].rx[a + o] /\ f \in Queue(F, what)
    BY <1>3
  <2>3. F[f].rx[a + p].id = F[f].rx[a + o].id
    BY <1>5, <2>1, <2>2
  <2>4. a + p = a + o
    BY <1>5, <2>1, <2>2, <2>3 DEF RxDistinct
  <2> QED
    BY <1>5, <1>6, <2>4
<1>8. CASE b < a
  <2>1. b + o \in 1 .. Len(F[f].rx) /\ G[f].rx[b] = F[f].rx[b + o] /\ b \in 1 .. Len(G[f].rx)
    BY <1>2, <1>3, <1>5, <1>6, <1>8
  <2>2. b + p \in 1 .. Len(F[g].rx) /\ G[g].rx[b] = F[g].rx[b + p] /\ g \in Queue(F, what)
    BY <1>4
  <2>3. F[f].rx[b + p].id = F[f].rx[b + o].id
    BY <1>5, <2>1, <2>2
  <2>4. b + p = b + o
    BY <1>5, <2>1, <2>2, <2>3 DEF RxDistinct
  <2> QED
    BY <1>5, <1>6, <2>4
<1> QED
  BY <1>5, <1>6, <1>7, <1>8

(* The messages: the list and the inputs shrink.                           *)
LEMMA MsgIdsLess ==
  ASSUME NEW F, NEW G, NEW s, NEW t, NEW n, NEW S, FilesTyped(G),
         MsgIds(s, F, n, S), SubList(t, s), RxLess(G, F, "messages")
  PROVE  MsgIds(t, G, n, S)
<1>1. PICK at \in [1 .. Len(t) -> 1 .. Len(s)] :
        /\ \A j, k \in 1 .. Len(t) : at[j] = at[k] => j = k
        /\ \A j \in 1 .. Len(t) : t[j] = s[at[j]]
  BY DEF SubList
<1>2. \A k \in 1 .. Len(t) : at[k] \in 1 .. Len(s)
  OBVIOUS
<1>a. /\ \A j, k \in 1 .. Len(s) : s[j].id = s[k].id => j = k
      /\ \A k \in 1 .. Len(s) : s[k].id <= n
      /\ \A k \in 1 .. Len(s) : \A d \in S : d.id # s[k].id
  BY DEF MsgIds
<1>3. /\ \A j, k \in 1 .. Len(t) : t[j].id = t[k].id => j = k
      /\ \A k \in 1 .. Len(t) : t[k].id <= n
      /\ \A k \in 1 .. Len(t) : \A d \in S : d.id # t[k].id
  <2>1. \A k \in 1 .. Len(t) : t[k] = s[at[k]]
    BY <1>1
  <2>2. ASSUME NEW j \in 1 .. Len(t), NEW k \in 1 .. Len(t), t[j].id = t[k].id
        PROVE  j = k
    <3>1. s[at[j]].id = s[at[k]].id
      BY <2>1, <2>2
    <3>2. at[j] = at[k]
      BY <1>2, <1>a, <3>1
    <3> QED
      BY <1>1, <3>2
  <2>3. ASSUME NEW k \in 1 .. Len(t)
        PROVE  t[k].id <= n /\ \A d \in S : d.id # t[k].id
    <3>1. at[k] \in 1 .. Len(s) /\ t[k] = s[at[k]]
      BY <1>2, <2>1
    <3> QED
      BY <1>a, <3>1
  <2> QED
    BY <2>2, <2>3
<1>4. RxDistinct(G, "messages")
  BY RxDistinctLess DEF MsgIds
<1>5. ASSUME NEW f \in Queue(G, "messages"), NEW b \in 1 .. Len(G[f].rx)
      PROVE  /\ G[f].rx[b].id <= n
             /\ \A k \in 1 .. Len(t) : t[k].id # G[f].rx[b].id
             /\ \A d \in S : d.id # G[f].rx[b].id
  <2>1. PICK o \in Nat : f \in Queue(F, "messages") /\ b + o \in 1 .. Len(F[f].rx)
                         /\ G[f].rx[b] = F[f].rx[b + o]
    BY DEF RxLess, RxFrom
  <2>2. /\ F[f].rx[b + o].id <= n
        /\ \A k \in 1 .. Len(s) : s[k].id # F[f].rx[b + o].id
        /\ \A d \in S : d.id # F[f].rx[b + o].id
    BY <2>1 DEF MsgIds
  <2> QED
    BY <1>1, <1>2, <2>1, <2>2
<1> QED
  BY <1>3, <1>4, <1>5 DEF MsgIds

(* The files: some are closed, requests for a connection are taken.        *)
LEMMA FileIdsLess ==
  ASSUME NEW F, NEW G, NEW n \in Nat, FilesTyped(G),
         FileIds(F, n), IdLess(G, F), RxLess(G, F, "requests")
  PROVE  FileIds(G, n)
<1>1. \A f \in Fd : G[f].id <= n
  BY DEF FileIds, IdLess
<1>2. \A f, g \in Fd : IsOpen(G, f) /\ IsOpen(G, g) /\ G[f].id = G[g].id => f = g
  BY DEF FileIds, IdLess
<1>3. RxDistinct(G, "requests")
  BY RxDistinctLess DEF FileIds
<1>4. ASSUME NEW f \in Queue(G, "requests"), NEW b \in 1 .. Len(G[f].rx)
      PROVE  /\ G[f].rx[b].id <= n
             /\ \A g \in Fd : IsOpen(G, g) => G[g].id # G[f].rx[b].id
  <2>1. PICK o \in Nat : f \in Queue(F, "requests") /\ b + o \in 1 .. Len(F[f].rx)
                         /\ G[f].rx[b] = F[f].rx[b + o]
    BY DEF RxLess, RxFrom
  <2>2. /\ F[f].rx[b + o].id <= n
        /\ \A g \in Fd : IsOpen(F, g) => F[g].id # F[f].rx[b + o].id
    BY <2>1 DEF FileIds
  <2> QED
    BY <2>1, <2>2 DEF IdLess
<1> QED
  BY <1>1, <1>2, <1>3, <1>4 DEF FileIds

-----------------------------------------------------------------------------
(* Removals from the list of messages.                                     *)

Entries(s) == {s[k] : k \in 1 .. Len(s)}

LEMMA SubListSame ==
  ASSUME NEW s \in Seq(Message)
  PROVE  SubList(s, s)
<1> DEFINE at == [k \in 1 .. Len(s) |-> k]
<1>1. at \in [1 .. Len(s) -> 1 .. Len(s)]
  OBVIOUS
<1>2. /\ \A j, k \in 1 .. Len(s) : at[j] = at[k] => j = k
      /\ \A j \in 1 .. Len(s) : s[j] = s[at[j]]
  OBVIOUS
<1> QED
  BY <1>1, <1>2 DEF SubList

LEMMA SubListTrans ==
  ASSUME NEW s, NEW t, NEW u, SubList(t, s), SubList(u, t)
  PROVE  SubList(u, s)
<1>1. PICK a \in [1 .. Len(t) -> 1 .. Len(s)] :
        /\ \A j, k \in 1 .. Len(t) : a[j] = a[k] => j = k
        /\ \A j \in 1 .. Len(t) : t[j] = s[a[j]]
  BY DEF SubList
<1>2. PICK b \in [1 .. Len(u) -> 1 .. Len(t)] :
        /\ \A j, k \in 1 .. Len(u) : b[j] = b[k] => j = k
        /\ \A j \in 1 .. Len(u) : u[j] = t[b[j]]
  BY DEF SubList
<1> DEFINE at == [k \in 1 .. Len(u) |-> a[b[k]]]
<1>3. \A k \in 1 .. Len(u) : b[k] \in 1 .. Len(t) /\ a[b[k]] \in 1 .. Len(s)
  BY <1>1, <1>2
<1>4. at \in [1 .. Len(u) -> 1 .. Len(s)]
  BY <1>3
<1>5. /\ \A j, k \in 1 .. Len(u) : at[j] = at[k] => j = k
      /\ \A j \in 1 .. Len(u) : u[j] = s[at[j]]
  BY <1>1, <1>2, <1>3
<1> QED
  BY <1>4, <1>5 DEF SubList

LEMMA EntriesRemove ==
  ASSUME NEW s \in Seq(Message), NEW K
  PROVE  /\ RemoveFor(s, K) \in Seq(Message)
         /\ SubList(RemoveFor(s, K), s)
         /\ Entries(RemoveFor(s, K)) = {m \in Entries(s) : m.fd \notin K}
<1> DEFINE t == RemoveFor(s, K)
<1>a. PICK at : Rearranges(at, t, s, Kept(s, K))
  BY RemoveForExact
<1>1. /\ at \in [1 .. Len(t) -> Kept(s, K)]
      /\ \A j, k \in 1 .. Len(t) : at[j] = at[k] => j = k
      /\ \A k \in Kept(s, K) : \E j \in 1 .. Len(t) : at[j] = k
      /\ \A j \in 1 .. Len(t) : t[j] = s[at[j]]
  BY <1>a DEF Rearranges
<1>2. t \in Seq(Message)
  BY RemoveForFacts
<1> HIDE DEF t
<1>3. DOMAIN at = 1 .. Len(t)
  BY <1>1
<1>4. \A j \in 1 .. Len(t) : at[j] \in 1 .. Len(s) /\ s[at[j]].fd \notin K
  BY <1>1, <1>3 DEF Kept
<1>5. SubList(t, s)
  <2>1. at \in [1 .. Len(t) -> 1 .. Len(s)]
    BY <1>1, <1>4
  <2> QED
    BY <1>1, <1>3, <2>1 DEF SubList
<1>6. ASSUME NEW m \in Entries(t)
      PROVE  m \in Entries(s) /\ m.fd \notin K
  BY <1>1, <1>3, <1>4 DEF Entries
<1>7. ASSUME NEW m \in Entries(s), m.fd \notin K
      PROVE  m \in Entries(t)
  <2>1. PICK k \in 1 .. Len(s) : m = s[k]
    BY DEF Entries
  <2>2. k \in Kept(s, K)
    BY <1>7, <2>1 DEF Kept
  <2>3. PICK j \in 1 .. Len(t) : at[j] = k
    BY <1>1, <1>3, <2>2
  <2> QED
    BY <1>1, <1>3, <2>1, <2>3 DEF Entries
<1>8. Entries(t) = {m \in Entries(s) : m.fd \notin K}
  BY <1>6, <1>7
<1> QED
  BY <1>2, <1>5, <1>8 DEF t

LEMMA EntriesSwap ==
  ASSUME NEW s \in Seq(Message), NEW k \in 1 .. Len(s),
         \A i, j \in 1 .. Len(s) : s[i].id = s[j].id => i = j
  PROVE  /\ ipc_messages_del(s, k) \in Seq(Message)
         /\ SubList(ipc_messages_del(s, k), s)
         /\ Entries(ipc_messages_del(s, k)) = Entries(s) \ {s[k]}
         /\ \A j \in 1 .. Len(ipc_messages_del(s, k)) : ipc_messages_del(s, k)[j].id # s[k].id
<1> DEFINE n == Len(s)
           t == SwapRemove(s, k)
           at == [j \in 1 .. n - 1 |-> IF j = k THEN n ELSE j]
<1>1. n \in Nat /\ k \in Nat /\ 1 <= k /\ k <= n
  OBVIOUS
<1>2. t \in Seq(Message) /\ Len(t) = n - 1
      /\ \A j \in 1 .. n - 1 : t[j] = IF j = k THEN s[n] ELSE s[j]
  BY SwapRemoveFacts
<1>3. ipc_messages_del(s, k) = t
  BY DEF ipc_messages_del
<1> HIDE DEF t
<1>4. \A j \in 1 .. n - 1 : at[j] \in 1 .. n /\ at[j] # k /\ t[j] = s[at[j]]
  BY <1>1, <1>2
<1>5. \A i, j \in 1 .. n - 1 : at[i] = at[j] => i = j
  BY <1>1
<1>6. \A l \in 1 .. n : l # k => \E j \in 1 .. n - 1 : at[j] = l
  <2> SUFFICES ASSUME NEW l \in 1 .. n, l # k
               PROVE  \E j \in 1 .. n - 1 : at[j] = l
    OBVIOUS
  <2>1. CASE l = n
    BY <1>1, <2>1
  <2>2. CASE l # n
    BY <1>1, <2>2
  <2> QED
    BY <2>1, <2>2
<1>7. at \in [1 .. n - 1 -> 1 .. n]
  BY <1>4
<1> HIDE DEF at, n
<1>8. SubList(t, s)
  BY <1>2, <1>4, <1>5, <1>7 DEF SubList, n
<1>9. \A l \in 1 .. n : s[l] = s[k] => l = k
  BY DEF n
<1>10. ASSUME NEW m \in Entries(t)
       PROVE  m \in Entries(s) \ {s[k]}
  <2>1. PICK j \in 1 .. n - 1 : m = t[j]
    BY <1>2 DEF Entries
  <2> QED
    BY <1>4, <1>9, <2>1, SMTT(30) DEF Entries, n
<1>11. ASSUME NEW m \in Entries(s) \ {s[k]}
       PROVE  m \in Entries(t)
  <2>1. PICK l \in 1 .. n : m = s[l] /\ l # k
    BY DEF Entries, n
  <2>2. PICK j \in 1 .. n - 1 : at[j] = l
    BY <1>6, <2>1
  <2> QED
    BY <1>2, <1>4, <2>1, <2>2 DEF Entries
<1>12. \A j \in 1 .. Len(t) : t[j].id # s[k].id
  BY <1>2, <1>4 DEF n
<1> QED
  BY <1>2, <1>3, <1>8, <1>10, <1>11, <1>12

-----------------------------------------------------------------------------
(* Identities stay distinct when a new one is used.                        *)

(* No message has the identity id, nor will one that was written.          *)
Absent(id, s, F, S) ==
  /\ \A k \in 1 .. Len(s) : s[k].id # id
  /\ \A d \in S : d.id # id
  /\ \A f \in Queue(F, "messages") : \A b \in 1 .. Len(F[f].rx) : F[f].rx[b].id # id

LEMMA MsgIdsGrow ==
  ASSUME NEW s \in Seq(Message), NEW F, NEW n \in Nat, NEW S, MsgIds(s, F, n, S),
         FilesTyped(F), \A d \in S : d.id \in Nat
  PROVE  MsgIds(s, F, n + 1, S) /\ Absent(n + 1, s, F, S)
<1>1. \A k \in 1 .. Len(s) : s[k].id \in Nat /\ s[k].id <= n
  <2>1. \A k \in 1 .. Len(s) : s[k] \in Message
    OBVIOUS
  <2> QED
    BY <2>1 DEF MsgIds, Message
<1>2. \A d \in S : d.id \in Nat /\ d.id <= n
  BY DEF MsgIds
<1>3. \A f \in Queue(F, "messages") : \A b \in 1 .. Len(F[f].rx) :
        F[f].rx[b].id \in Nat /\ F[f].rx[b].id <= n
  BY FileFields DEF MsgIds, Queue
<1>a. \A x \in Nat : x <= n => x # n + 1 /\ x <= n + 1
  OBVIOUS
<1>4. Absent(n + 1, s, F, S)
  BY <1>1, <1>2, <1>3, <1>a, Zenon DEF Absent
<1>5. /\ \A k \in 1 .. Len(s) : s[k].id <= n + 1
      /\ \A d \in S : d.id <= n + 1
      /\ \A f \in Queue(F, "messages") : \A b \in 1 .. Len(F[f].rx) : F[f].rx[b].id <= n + 1
  BY <1>1, <1>2, <1>3, <1>a, Zenon
<1> QED
  BY <1>4, <1>5 DEF MsgIds

(* A message with a new identity is added to the list.                     *)
LEMMA MsgIdsAdd ==
  ASSUME NEW s \in Seq(Message), NEW F, NEW n \in Nat, NEW S, NEW m \in Message,
         MsgIds(s, F, n, S), Absent(m.id, s, F, S), m.id <= n
  PROVE  MsgIds(Append(s, m), F, n, S)
<1> DEFINE t == Append(s, m)
           l == Len(s)
<1>1. Len(t) = l + 1 /\ l \in Nat /\ t[l + 1] = m /\ \A k \in 1 .. l : t[k] = s[k]
  BY AppendFacts
<1> HIDE DEF t, l
<1>2. \A k \in 1 .. Len(t) : (k \in 1 .. l /\ t[k] = s[k]) \/ (k = l + 1 /\ t[k] = m)
  BY <1>1
<1>3. \A j, k \in 1 .. Len(t) : t[j].id = t[k].id => j = k
  <2> SUFFICES ASSUME NEW j \in 1 .. Len(t), NEW k \in 1 .. Len(t), t[j].id = t[k].id
               PROVE  j = k
    OBVIOUS
  <2>1. \A i, h \in 1 .. l : s[i].id = s[h].id => i = h
    BY DEF MsgIds, l
  <2>2. \A i \in 1 .. l : s[i].id # m.id
    BY DEF Absent, l
  <2> QED
    BY <1>2, <2>1, <2>2
<1>4. ASSUME NEW k \in 1 .. Len(t)
      PROVE  /\ t[k].id <= n /\ \A d \in S : d.id # t[k].id
             /\ \A f \in Queue(F, "messages") : \A b \in 1 .. Len(F[f].rx) : F[f].rx[b].id # t[k].id
  <2>1. CASE k \in 1 .. l /\ t[k] = s[k]
    BY <2>1 DEF MsgIds, l
  <2>2. CASE t[k] = m
    BY <2>2 DEF Absent
  <2> QED
    BY <1>2, <2>1, <2>2
<1>5. /\ \A d \in S : d.id <= n
      /\ RxDistinct(F, "messages")
      /\ \A f \in Queue(F, "messages") : \A b \in 1 .. Len(F[f].rx) :
           F[f].rx[b].id <= n /\ \A d \in S : d.id # F[f].rx[b].id
  BY DEF MsgIds
<1>6. MsgIds(t, F, n, S)
  BY <1>3, <1>4, <1>5 DEF MsgIds
<1> QED
  BY <1>6 DEF t

LEMMA RxDistinctUse ==
  ASSUME NEW F, NEW what, RxDistinct(F, what),
         NEW f \in Queue(F, what), NEW a \in 1 .. Len(F[f].rx),
         NEW g \in Queue(F, what), NEW b \in 1 .. Len(F[g].rx)
  PROVE  F[f].rx[a].id = F[g].rx[b].id => f = g /\ a = b
BY DEF RxDistinct

(* The first message of an input is read: its identity is free to be used. *)
LEMMA MsgIdsTake ==
  ASSUME NEW s, NEW F, NEW G, NEW n, NEW S, MsgIds(s, F, n, S), FilesTyped(F),
         NEW f \in Queue(F, "messages"), F[f].rx # <<>>,
         G[f].rx = <<>> \/ G[f].rx = Tail(F[f].rx),
         \A g \in Fd : G[g].sort = F[g].sort /\ (g # f => G[g].rx = F[g].rx)
  PROVE  Absent(F[f].rx[1].id, s, G, S)
<1> DEFINE id == F[f].rx[1].id
<1>1. f \in Fd /\ F[f].rx \in Seq(Body)
  BY FileFields DEF Queue
<1>2. 1 \in 1 .. Len(F[f].rx) /\ Len(F[f].rx) \in Nat
      /\ \A b \in 1 .. Len(Tail(F[f].rx)) :
           b + 1 \in 1 .. Len(F[f].rx) /\ Tail(F[f].rx)[b] = F[f].rx[b + 1]
  BY <1>1, TailFacts
<1>3. /\ \A k \in 1 .. Len(s) : s[k].id # id
      /\ \A d \in S : d.id # id
  BY <1>2 DEF MsgIds
<1>4. ASSUME NEW g \in Queue(G, "messages"), NEW b \in 1 .. Len(G[g].rx)
      PROVE  G[g].rx[b].id # id
  <2>1. g \in Queue(F, "messages")
    BY DEF Queue
  <2>2. CASE g # f
    <3>1. G[g].rx = F[g].rx
      BY <2>1, <2>2 DEF Queue
    <3>2. RxDistinct(F, "messages")
      BY DEF MsgIds
    <3>3. b \in 1 .. Len(F[g].rx) /\ G[g].rx[b] = F[g].rx[b]
      BY <3>1
    <3>4. F[g].rx[b].id = F[f].rx[1].id => g = f
      BY <1>2, <2>1, <3>2, <3>3, RxDistinctUse
    <3> QED
      BY <2>2, <3>3, <3>4
  <2>3. CASE g = f
    <3>0. G[f].rx # <<>>
      BY <2>3
    <3>1. G[f].rx = Tail(F[f].rx) /\ b \in 1 .. Len(Tail(F[f].rx))
      BY <2>3, <3>0
    <3>2. b + 1 \in 1 .. Len(F[f].rx) /\ G[g].rx[b] = F[f].rx[b + 1]
      BY <1>2, <2>3, <3>1
    <3>a. b + 1 # 1
      <4>1. Len(Tail(F[f].rx)) \in Nat
        BY <1>1
      <4> QED
        BY <3>1, <4>1
    <3>b. RxDistinct(F, "messages")
      BY DEF MsgIds
    <3>3. F[f].rx[b + 1].id = F[f].rx[1].id => b + 1 = 1
      BY <1>2, <3>2, <3>b, RxDistinctUse
    <3> QED
      BY <3>2, <3>3, <3>a
  <2> QED
    BY <2>2, <2>3
<1> QED
  BY <1>3, <1>4 DEF Absent

(* A message of the list is written.                                       *)
LEMMA MsgIdsSent ==
  ASSUME NEW s \in Seq(Message), NEW F, NEW n, NEW S, MsgIds(s, F, n, S), FilesTyped(F),
         NEW k \in 1 .. Len(s), NEW d, d.id = s[k].id
  PROVE  MsgIds(ipc_messages_del(s, k), F, n, S \cup {d})
<1> DEFINE t == ipc_messages_del(s, k)
<1>1. \A i, j \in 1 .. Len(s) : s[i].id = s[j].id => i = j
  BY DEF MsgIds
<1>2. SubList(t, s) /\ \A j \in 1 .. Len(t) : t[j].id # d.id
  BY <1>1, EntriesSwap
<1>3. RxLess(F, F, "messages")
  <2>1. \A f \in Queue(F, "messages") : \A b \in 1 .. Len(F[f].rx) : b + 0 = b
    BY FileFields DEF Queue
  <2> QED
    BY <2>1 DEF RxLess, RxFrom
<1> HIDE DEF t
<1>4. MsgIds(t, F, n, S)
  BY <1>2, <1>3, MsgIdsLess
<1>5. d.id <= n /\ \A f \in Queue(F, "messages") : \A b \in 1 .. Len(F[f].rx) : d.id # F[f].rx[b].id
  BY DEF MsgIds
<1>6. MsgIds(t, F, n, S \cup {d})
  BY <1>2, <1>4, <1>5 DEF MsgIds
<1> QED
  BY <1>6 DEF t

(* Something arrives at the end of an input.                               *)
LEMMA RxDistinctArrive ==
  ASSUME NEW F, NEW G, NEW what \in {"requests", "messages"}, RxDistinct(F, what), FilesTyped(F),
         NEW f \in Queue(F, what), NEW x \in Body,
         \A g \in Queue(F, what) : \A b \in 1 .. Len(F[g].rx) : F[g].rx[b].id # x.id,
         G[f].rx = Append(F[f].rx, x),
         \A g \in Fd : G[g].sort = F[g].sort /\ (g # f => G[g].rx = F[g].rx)
  PROVE  /\ RxDistinct(G, what) /\ Queue(G, what) = Queue(F, what)
         /\ \A g \in Queue(F, what) : \A b \in 1 .. Len(G[g].rx) :
              \/ b \in 1 .. Len(F[g].rx) /\ G[g].rx[b] = F[g].rx[b]
              \/ G[g].rx[b] = x
<1> DEFINE l == Len(F[f].rx)
<1>1. f \in Fd /\ F[f].rx \in Seq(Body)
  BY FileFields DEF Queue
<1>2. Len(G[f].rx) = l + 1 /\ l \in Nat /\ G[f].rx[l + 1] = x
      /\ \A b \in 1 .. l : G[f].rx[b] = F[f].rx[b]
  BY <1>1, AppendFacts
<1>3. Queue(G, what) = Queue(F, what)
  BY DEF Queue
<1>4. ASSUME NEW g \in Queue(F, what), NEW b \in 1 .. Len(G[g].rx)
      PROVE  \/ b \in 1 .. Len(F[g].rx) /\ G[g].rx[b] = F[g].rx[b]
             \/ g = f /\ b = l + 1 /\ G[g].rx[b] = x
  <2>1. CASE g = f
    BY <1>2, <2>1
  <2>2. CASE g # f
    <3>1. G[g].rx = F[g].rx
      BY <2>2 DEF Queue
    <3> QED
      BY <3>1
  <2> QED
    BY <2>1, <2>2
<1> HIDE DEF l
<1>5. ASSUME NEW g \in Queue(F, what), NEW h \in Queue(F, what),
             NEW a \in 1 .. Len(G[g].rx), NEW b \in 1 .. Len(G[h].rx),
             G[g].rx[a].id = G[h].rx[b].id
      PROVE  g = h /\ a = b
  <2>1. CASE /\ a \in 1 .. Len(F[g].rx) /\ G[g].rx[a] = F[g].rx[a]
             /\ b \in 1 .. Len(F[h].rx) /\ G[h].rx[b] = F[h].rx[b]
    BY <1>5, <2>1 DEF RxDistinct
  <2>2. CASE g = f /\ a = l + 1 /\ h = f /\ b = l + 1
    BY <2>2
  <2>3. CASE a \in 1 .. Len(F[g].rx) /\ G[g].rx[a] = F[g].rx[a] /\ G[h].rx[b] = x
    BY <1>5, <2>3
  <2>4. CASE b \in 1 .. Len(F[h].rx) /\ G[h].rx[b] = F[h].rx[b] /\ G[g].rx[a] = x
    <3>1. F[h].rx[b].id # x.id
      BY <2>4
    <3> QED
      BY <1>5, <2>4, <3>1
  <2> QED
    BY <1>4, <2>1, <2>2, <2>3, <2>4
<1> QED
  BY <1>3, <1>4, <1>5 DEF RxDistinct

LEMMA MsgIdsArrive ==
  ASSUME NEW s, NEW F, NEW G, NEW n \in Nat, NEW S, MsgIds(s, F, n, S), FilesTyped(F),
         NEW f \in Queue(F, "messages"), NEW x \in Body, Absent(x.id, s, F, S), x.id <= n,
         G[f].rx = Append(F[f].rx, x),
         \A g \in Fd : G[g].sort = F[g].sort /\ (g # f => G[g].rx = F[g].rx)
  PROVE  MsgIds(s, G, n, S)
<1>1. \A g \in Queue(F, "messages") : \A b \in 1 .. Len(F[g].rx) : F[g].rx[b].id # x.id
  BY DEF Absent
<1>2. /\ RxDistinct(G, "messages") /\ Queue(G, "messages") = Queue(F, "messages")
      /\ \A g \in Queue(F, "messages") : \A b \in 1 .. Len(G[g].rx) :
           \/ b \in 1 .. Len(F[g].rx) /\ G[g].rx[b] = F[g].rx[b]
           \/ G[g].rx[b] = x
  <2>1. RxDistinct(F, "messages")
    BY DEF MsgIds
  <2> QED
    BY <1>1, <2>1, RxDistinctArrive
<1>3. ASSUME NEW g \in Queue(F, "messages"), NEW b \in 1 .. Len(G[g].rx)
      PROVE  /\ G[g].rx[b].id <= n
             /\ \A k \in 1 .. Len(s) : s[k].id # G[g].rx[b].id
             /\ \A d \in S : d.id # G[g].rx[b].id
  <2>1. CASE b \in 1 .. Len(F[g].rx) /\ G[g].rx[b] = F[g].rx[b]
    <3>1. /\ F[g].rx[b].id <= n
          /\ \A k \in 1 .. Len(s) : s[k].id # F[g].rx[b].id
          /\ \A d \in S : d.id # F[g].rx[b].id
      BY <2>1 DEF MsgIds
    <3> QED
      BY <2>1, <3>1
  <2>2. CASE G[g].rx[b] = x
    BY <2>2 DEF Absent
  <2> QED
    BY <1>2, <2>1, <2>2
<1>4. /\ \A j, k \in 1 .. Len(s) : s[j].id = s[k].id => j = k
      /\ \A k \in 1 .. Len(s) : s[k].id <= n
      /\ \A d \in S : d.id <= n
      /\ \A k \in 1 .. Len(s) : \A d \in S : d.id # s[k].id
  BY DEF MsgIds
<1> QED
  BY <1>2, <1>3, <1>4 DEF MsgIds

(* A connection has the identity of neither an open file nor a request.    *)
AbsentFile(id, F) ==
  /\ \A g \in Fd : IsOpen(F, g) => F[g].id # id
  /\ \A f \in Queue(F, "requests") : \A b \in 1 .. Len(F[f].rx) : F[f].rx[b].id # id

LEMMA FileIdsGrow ==
  ASSUME NEW F, NEW n \in Nat, FileIds(F, n), FilesTyped(F)
  PROVE  FileIds(F, n + 1) /\ AbsentFile(n + 1, F)
<1>1. \A f \in Fd : F[f].id \in Nat /\ F[f].id <= n
  BY FileFields DEF FileIds
<1>2. \A f \in Queue(F, "requests") : \A b \in 1 .. Len(F[f].rx) :
        F[f].rx[b].id \in Nat /\ F[f].rx[b].id <= n
  BY FileFields DEF FileIds, Queue
<1>3. \A x \in Nat : x <= n => x # n + 1 /\ x <= n + 1
  OBVIOUS
<1>4. AbsentFile(n + 1, F)
  BY <1>1, <1>2, <1>3, Zenon DEF AbsentFile
<1>5. /\ \A f \in Fd : F[f].id <= n + 1
      /\ \A f \in Queue(F, "requests") : \A b \in 1 .. Len(F[f].rx) : F[f].rx[b].id <= n + 1
  BY <1>1, <1>2, <1>3, Zenon
<1> QED
  BY <1>4, <1>5 DEF FileIds

(* A file is opened on f.                                                  *)
LEMMA FileIdsOpen ==
  ASSUME NEW F, NEW G, NEW n \in Nat, FileIds(F, n), FilesTyped(G),
         NEW f \in Fd, G[f].id <= n,
         \A g \in Fd : IsOpen(F, g) => F[g].id # G[f].id,
         \A g \in Queue(G, "requests") : \A b \in 1 .. Len(G[g].rx) : G[g].rx[b].id # G[f].id,
         \A g \in Fd \ {f} : G[g].id = F[g].id /\ (IsOpen(G, g) <=> IsOpen(F, g)),
         RxLess(G, F, "requests")
  PROVE  FileIds(G, n)
<1>1. \A g \in Fd : G[g].id <= n
  BY DEF FileIds
<1>2. \A g, h \in Fd : IsOpen(G, g) /\ IsOpen(G, h) /\ G[g].id = G[h].id => g = h
  BY DEF FileIds
<1>3. RxDistinct(G, "requests")
  BY RxDistinctLess DEF FileIds
<1>4. ASSUME NEW g \in Queue(G, "requests"), NEW b \in 1 .. Len(G[g].rx)
      PROVE  /\ G[g].rx[b].id <= n
             /\ \A h \in Fd : IsOpen(G, h) => G[h].id # G[g].rx[b].id
  <2>1. PICK o \in Nat : g \in Queue(F, "requests") /\ b + o \in 1 .. Len(F[g].rx)
                         /\ G[g].rx[b] = F[g].rx[b + o]
    BY DEF RxLess, RxFrom
  <2>2. /\ F[g].rx[b + o].id <= n
        /\ \A h \in Fd : IsOpen(F, h) => F[h].id # F[g].rx[b + o].id
    BY <2>1 DEF FileIds
  <2> QED
    BY <2>1, <2>2
<1> QED
  BY <1>1, <1>2, <1>3, <1>4 DEF FileIds

(* The first request of a listening socket is taken.                       *)
LEMMA FileIdsTake ==
  ASSUME NEW F, NEW G, NEW n, FileIds(F, n), FilesTyped(F),
         NEW s \in Queue(F, "requests"), F[s].rx # <<>>, G[s].rx = Tail(F[s].rx),
         \A g \in Fd \ {s} : G[g].rx = <<>> \/ (G[g].rx = F[g].rx /\ G[g].sort = F[g].sort)
  PROVE  /\ F[s].rx[1].id <= n
         /\ \A g \in Fd : IsOpen(F, g) => F[g].id # F[s].rx[1].id
         /\ \A g \in Queue(G, "requests") : \A b \in 1 .. Len(G[g].rx) :
              G[g].rx[b].id # F[s].rx[1].id
<1>1. s \in Fd /\ F[s].rx \in Seq(Body)
  BY FileFields DEF Queue
<1>2. 1 \in 1 .. Len(F[s].rx) /\ Len(F[s].rx) \in Nat /\ Len(Tail(F[s].rx)) \in Nat
      /\ \A b \in 1 .. Len(Tail(F[s].rx)) :
           b + 1 \in 1 .. Len(F[s].rx) /\ Tail(F[s].rx)[b] = F[s].rx[b + 1]
  BY <1>1, TailFacts
<1>3. F[s].rx[1].id <= n /\ \A g \in Fd : IsOpen(F, g) => F[g].id # F[s].rx[1].id
  BY <1>2 DEF FileIds
<1>4. ASSUME NEW g \in Queue(G, "requests"), NEW b \in 1 .. Len(G[g].rx)
      PROVE  G[g].rx[b].id # F[s].rx[1].id
  <2>1. g \in Fd /\ G[g].sort = "listen" /\ RxDistinct(F, "requests")
    BY DEF Queue, FileIds
  <2>2. CASE g # s
    <3>0. G[g].rx # <<>>
      OBVIOUS
    <3>1. G[g].rx = F[g].rx /\ g \in Queue(F, "requests")
      BY <2>1, <2>2, <3>0 DEF Queue
    <3>2. b \in 1 .. Len(F[g].rx) /\ G[g].rx[b] = F[g].rx[b]
      BY <3>1
    <3>3. F[g].rx[b].id = F[s].rx[1].id => g = s
      BY <1>2, <2>1, <3>1, <3>2, RxDistinctUse
    <3> QED
      BY <2>2, <3>2, <3>3
  <2>3. CASE g = s
    <3>0. b \in 1 .. Len(Tail(F[s].rx))
      BY <2>3
    <3>1. b \in 1 .. Len(Tail(F[s].rx)) /\ b + 1 # 1
      BY <1>2, <3>0
    <3>2. b + 1 \in 1 .. Len(F[s].rx) /\ G[g].rx[b] = F[s].rx[b + 1]
      BY <1>2, <2>3, <3>1
    <3>3. F[s].rx[b + 1].id = F[s].rx[1].id => b + 1 = 1
      BY <1>2, <2>1, <3>2, RxDistinctUse
    <3> QED
      BY <3>1, <3>2, <3>3
  <2> QED
    BY <2>2, <2>3
<1> QED
  BY <1>3, <1>4

LEMMA FileIdsArrive ==
  ASSUME NEW F, NEW G, NEW n \in Nat, FileIds(F, n), FilesTyped(F),
         NEW f \in Queue(F, "requests"), NEW x \in Body, AbsentFile(x.id, F), x.id <= n,
         G[f].rx = Append(F[f].rx, x),
         \A g \in Fd : G[g].id = F[g].id /\ G[g].sort = F[g].sort
                       /\ (g # f => G[g].rx = F[g].rx)
  PROVE  FileIds(G, n)
<1>1. \A g \in Queue(F, "requests") : \A b \in 1 .. Len(F[g].rx) : F[g].rx[b].id # x.id
  BY DEF AbsentFile
<1>2. /\ RxDistinct(G, "requests") /\ Queue(G, "requests") = Queue(F, "requests")
      /\ \A g \in Queue(F, "requests") : \A b \in 1 .. Len(G[g].rx) :
           \/ b \in 1 .. Len(F[g].rx) /\ G[g].rx[b] = F[g].rx[b]
           \/ G[g].rx[b] = x
  <2>1. RxDistinct(F, "requests")
    BY DEF FileIds
  <2> QED
    BY <1>1, <2>1, RxDistinctArrive
<1>3. ASSUME NEW g \in Queue(F, "requests"), NEW b \in 1 .. Len(G[g].rx)
      PROVE  /\ G[g].rx[b].id <= n
             /\ \A h \in Fd : IsOpen(F, h) => F[h].id # G[g].rx[b].id
  <2>1. CASE b \in 1 .. Len(F[g].rx) /\ G[g].rx[b] = F[g].rx[b]
    <3>1. /\ F[g].rx[b].id <= n
          /\ \A h \in Fd : IsOpen(F, h) => F[h].id # F[g].rx[b].id
      BY <2>1 DEF FileIds
    <3> QED
      BY <2>1, <3>1
  <2>2. CASE G[g].rx[b] = x
    BY <2>2 DEF AbsentFile
  <2> QED
    BY <1>2, <2>1, <2>2
<1>4. \A g \in Fd : G[g].id = F[g].id /\ (IsOpen(G, g) <=> IsOpen(F, g))
  BY DEF IsOpen
<1>5. /\ \A g \in Fd : G[g].id <= n
      /\ \A g, h \in Fd : IsOpen(G, g) /\ IsOpen(G, h) /\ G[g].id = G[h].id => g = h
  BY <1>4 DEF FileIds
<1> QED
  BY <1>2, <1>3, <1>4, <1>5 DEF FileIds

-----------------------------------------------------------------------------
(* What can be read of g after a step that brings nothing new: all of it,  *)
(* all but the first, or nothing.                                          *)
RxStepAt(G, F, g) ==
  \/ G[g].rx = <<>>
  \/ G[g].sort = F[g].sort /\ G[g].rx = F[g].rx
  \/ G[g].sort = F[g].sort /\ F[g].rx # <<>> /\ G[g].rx = Tail(F[g].rx)

RxStep(G, F) == \A g \in Fd : RxStepAt(G, F, g)

LEMMA RxLessOne ==
  ASSUME NEW F, NEW G, FilesTyped(F), NEW g \in Fd, NEW what, g \in Queue(G, what),
         RxStepAt(G, F, g)
  PROVE  RxFrom(G, F, g, what)
<1>1. F[g].rx \in Seq(Body) /\ Len(F[g].rx) \in Nat
  BY FileFields
<1>2. CASE G[g].rx = <<>>
  <2>1. \A b \in 1 .. Len(G[g].rx) : FALSE
    BY <1>2
  <2>2. 0 \in Nat
    OBVIOUS
  <2> QED
    BY <2>1, <2>2 DEF RxFrom
<1>3. CASE G[g].sort = F[g].sort /\ G[g].rx = F[g].rx
  <2>1. g \in Queue(F, what)
    BY <1>3 DEF Queue
  <2>2. \A b \in 1 .. Len(G[g].rx) : b + 0 \in 1 .. Len(F[g].rx) /\ G[g].rx[b] = F[g].rx[b + 0]
    BY <1>1, <1>3
  <2>3. 0 \in Nat
    OBVIOUS
  <2> QED
    BY <2>1, <2>2, <2>3 DEF RxFrom
<1>4. CASE G[g].sort = F[g].sort /\ F[g].rx # <<>> /\ G[g].rx = Tail(F[g].rx)
  <2>1. g \in Queue(F, what)
    BY <1>4 DEF Queue
  <2>2. \A b \in 1 .. Len(G[g].rx) : b + 1 \in 1 .. Len(F[g].rx) /\ G[g].rx[b] = F[g].rx[b + 1]
    BY <1>1, <1>4, TailFacts
  <2>3. 1 \in Nat
    OBVIOUS
  <2> QED
    BY <2>1, <2>2, <2>3 DEF RxFrom
<1> QED
  BY <1>2, <1>3, <1>4 DEF RxStepAt

LEMMA RxLessStep ==
  ASSUME NEW F, NEW G, FilesTyped(F), RxStep(G, F), NEW what
  PROVE  RxLess(G, F, what)
<1> SUFFICES ASSUME NEW g \in Queue(G, what)
             PROVE  RxFrom(G, F, g, what)
  BY DEF RxLess
<1>1. g \in Fd
  BY DEF Queue
<1>2. RxStepAt(G, F, g)
  BY <1>1 DEF RxStep
<1> QED
  BY <1>1, <1>2, RxLessOne

LEMMA RxLessSame ==
  ASSUME NEW F, NEW G, FilesTyped(F), NEW what,
         \A g \in Queue(G, what) : G[g].sort = F[g].sort /\ G[g].rx = F[g].rx
  PROVE  RxLess(G, F, what)
<1> SUFFICES ASSUME NEW g \in Queue(G, what)
             PROVE  RxFrom(G, F, g, what)
  BY DEF RxLess
<1>1. g \in Fd
  BY DEF Queue
<1>2. RxStepAt(G, F, g)
  BY <1>1 DEF RxStepAt
<1> QED
  BY <1>1, <1>2, RxLessOne

(* The files after each operation on them.                                 *)
LEMMA OpenFields ==
  ASSUME NEW F, FilesTyped(F), NEW f \in Fd, NEW id \in Nat, NEW sort \in Sorts
  PROVE  LET G == OpenFile(F, f, id, sort)
         IN  /\ FilesTyped(G)
             /\ G[f].id = id /\ G[f].sort = sort /\ G[f].rx = <<>> /\ G[f].peer = "up"
             /\ \A g \in Fd \ {f} : G[g] = F[g]
<1> DEFINE new == [id |-> id, sort |-> sort, rx |-> <<>>, peer |-> "up"]
<1>1. new \in File(Body)
  BY DEF File, Sorts
<1>2. new.id = id /\ new.sort = sort /\ new.rx = <<>> /\ new.peer = "up"
  OBVIOUS
<1>3. OpenFile(F, f, id, sort) = [F EXCEPT ![f] = new]
  BY DEF OpenFile
<1> HIDE DEF new
<1> QED
  BY <1>1, <1>2, <1>3 DEF FilesTyped

LEMMA CloseFields ==
  ASSUME NEW F, FilesTyped(F), NEW f \in Fd
  PROVE  LET G == CloseFile(F, f)
         IN  /\ FilesTyped(G)
             /\ G[f].id = 0 /\ ~IsOpen(G, f) /\ G[f].rx = <<>>
             /\ \A g \in Fd \ {f} : G[g] = F[g]
<1>1. ClosedFile \in File(Body) /\ ClosedFile.id = 0 /\ ClosedFile.sort = "closed"
      /\ ClosedFile.rx = <<>>
  BY DEF ClosedFile, File
<1>2. CloseFile(F, f) = [F EXCEPT ![f] = ClosedFile]
  BY DEF CloseFile
<1> HIDE DEF ClosedFile
<1> QED
  BY <1>1, <1>2 DEF FilesTyped, IsOpen

LEMMA RxFields ==
  ASSUME NEW F, FilesTyped(F), NEW f \in Fd, NEW rx \in Seq(Body)
  PROVE  LET G == WithRx(F, f, rx)
         IN  /\ FilesTyped(G)
             /\ G[f].rx = rx
             /\ \A g \in Fd : G[g].id = F[g].id /\ G[g].sort = F[g].sort /\ G[g].peer = F[g].peer
             /\ \A g \in Fd \ {f} : G[g] = F[g]
<1> DEFINE new == [F[f] EXCEPT !.rx = rx]
<1>1. F[f] \in File(Body)
  BY DEF FilesTyped
<1>2. new \in File(Body) /\ new.id = F[f].id /\ new.sort = F[f].sort
      /\ new.peer = F[f].peer /\ new.rx = rx
  BY <1>1 DEF File
<1>3. WithRx(F, f, rx) = [F EXCEPT ![f] = new]
  BY DEF WithRx
<1> HIDE DEF new
<1> QED
  BY <1>2, <1>3 DEF FilesTyped

LEMMA PeerFields ==
  ASSUME NEW F, FilesTyped(F), NEW f \in Fd, NEW how \in {"gone", "reset"}
  PROVE  LET G == WithPeer(F, f, how)
         IN  /\ FilesTyped(G)
             /\ G[f].peer = how
             /\ \A g \in Fd : G[g].id = F[g].id /\ G[g].sort = F[g].sort /\ G[g].rx = F[g].rx
             /\ \A g \in Fd \ {f} : G[g] = F[g]
<1> DEFINE new == [F[f] EXCEPT !.peer = how]
<1>1. F[f] \in File(Body)
  BY DEF FilesTyped
<1>2. new \in File(Body) /\ new.id = F[f].id /\ new.sort = F[f].sort
      /\ new.peer = how /\ new.rx = F[f].rx
  BY <1>1 DEF File
<1>3. WithPeer(F, f, how) = [F EXCEPT ![f] = new]
  BY DEF WithPeer
<1> HIDE DEF new
<1> QED
  BY <1>2, <1>3 DEF FilesTyped

(* Identities stay distinct in a step that uses no new one.                *)
LEMMA IdsShrink ==
  ASSUME IInv, IdsInv, FilesTyped(files'), RxStep(files', files), IdLess(files', files),
         SubList(ctx'.tx, ctx.tx), UNCHANGED <<nfiles, nmsgs, sent>>
  PROVE  IdsInv'
<1>1. FilesTyped(files) /\ nfiles \in Nat
  BY DEF IInv, FilesOK, FilesTyped, RestOK
<1>2. RxLess(files', files, "messages") /\ RxLess(files', files, "requests")
  BY <1>1, RxLessStep
<1>3. MsgIds(ctx'.tx, files', nmsgs, sent)
  BY <1>2, MsgIdsLess DEF IdsInv
<1>4. FileIds(files', nfiles)
  BY <1>1, <1>2, FileIdsLess DEF IdsInv
<1> QED
  BY <1>3, <1>4 DEF IdsInv

-----------------------------------------------------------------------------
(* What Outbox sees of a context c, of the files F and of what was written *)
(* S, in terms of the registered descriptors.                              *)

Regs(c) == {f \in Fd : Registered(c, f)}
OpenIds(c, F) == {F[f].id : f \in Regs(c)}
BrokenIds(c, F) == {F[f].id : f \in {g \in Regs(c) : F[g].peer # "up"}}
Seen(m) == [id |-> m.id, conn |-> m.file]
Pending(s) == {Seen(m) : m \in Entries(s)}
Written(S) == {Seen(d) : d \in S}

LEMMA MappedVars ==
  ASSUME IInv
  PROVE  /\ {files[f].id : f \in Held} = OpenIds(ctx, files)
         /\ {files[f].id : f \in {g \in Held : files[g].peer # "up"}} = BrokenIds(ctx, files)
         /\ {[id |-> m.id, conn |-> m.file] : m \in Listed} = Pending(ctx.tx)
         /\ {[id |-> d.id, conn |-> d.file] : d \in sent} = Written(sent)
<1>1. ctx \in Context
  BY DEF IInv, Good
<1>2. Held = Regs(ctx)
  BY <1>1, ContextFields, FdAssumption DEF Held, Regs, Registered
<1>3. Listed = Entries(ctx.tx)
  BY DEF Listed, Entries
<1> QED
  BY <1>2, <1>3 DEF OpenIds, BrokenIds, Pending, Written, Seen

LEMMA MappedVarsNext ==
  ASSUME IInv'
  PROVE  /\ {files'[f].id : f \in Held'} = OpenIds(ctx', files')
         /\ {files'[f].id : f \in {g \in Held' : files'[g].peer # "up"}}
              = BrokenIds(ctx', files')
         /\ {[id |-> m.id, conn |-> m.file] : m \in Listed'} = Pending(ctx'.tx)
         /\ {[id |-> d.id, conn |-> d.file] : d \in sent'} = Written(sent')
<1>1. ctx' \in Context
  BY DEF IInv, Good
<1>2. Held' = Regs(ctx')
  BY <1>1, ContextFields, FdAssumption DEF Held, Regs, Registered
<1>3. Listed' = Entries(ctx'.tx)
  BY DEF Listed, Entries
<1> QED
  BY <1>2, <1>3 DEF OpenIds, BrokenIds, Pending, Written, Seen

(* The step is one of Outbox, or Outbox sees nothing.                      *)
Maps == Promise!Next \/ UNCHANGED Promise!vars

LEMMA RegsFacts ==
  ASSUME NEW c, NEW F, NEW n, Good(c, F), FileIds(F, n)
  PROVE  /\ \A f \in Regs(c) : f \in Fd /\ IsOpen(F, f)
         /\ \A f, g \in Regs(c) : F[f].id = F[g].id => f = g
         /\ \A m \in Entries(c.tx) : m \in Message /\ m.fd \in Regs(c) /\ m.file = F[m.fd].id
<1>1. c \in Context /\ ConnsOK(c, F) /\ TxOK(c, F)
  BY DEF Good
<1>2. ASSUME NEW f \in Regs(c)
      PROVE  f \in Fd /\ IsOpen(F, f)
  <2>1. PICK i \in 1 .. Len(c.conns) : c.conns[i].fd = f
    BY DEF Regs, Registered
  <2>2. f \in Fd /\ f # NoFd
    BY FdAssumption DEF Regs
  <2>3. Matches(c.conns[i].type, F[f].sort)
    BY <1>1, <2>1, <2>2 DEF ConnsOK
  <2> QED
    BY <2>2, <2>3 DEF Matches, IsOpen
<1>3. \A f, g \in Regs(c) : F[f].id = F[g].id => f = g
  BY <1>2 DEF FileIds
<1>4. \A k \in 1 .. Len(c.tx) : c.tx[k] \in Message /\ c.tx[k].fd \in Fd
  BY <1>1, ContextFields
<1>5. \A k \in 1 .. Len(c.tx) : c.tx[k].fd \in Regs(c) /\ c.tx[k].file = F[c.tx[k].fd].id
  BY <1>1, <1>4 DEF TxOK, Regs
<1> QED
  BY <1>2, <1>3, <1>4, <1>5 DEF Entries

LEMMA StutterMaps ==
  ASSUME IInv, IInv', Regs(ctx') = Regs(ctx),
         \A f \in Regs(ctx) : files'[f].id = files[f].id /\ files'[f].peer = files[f].peer,
         Entries(ctx'.tx) = Entries(ctx.tx), sent' = sent
  PROVE  Maps
<1>1. OpenIds(ctx', files') = OpenIds(ctx, files)
  BY DEF OpenIds
<1>2. BrokenIds(ctx', files') = BrokenIds(ctx, files)
  BY DEF BrokenIds
<1>3. Pending(ctx'.tx) = Pending(ctx.tx) /\ Written(sent') = Written(sent)
  BY DEF Pending
<1>4. UNCHANGED Promise!vars
  BY <1>1, <1>2, <1>3, MappedVars, MappedVarsNext DEF Promise!vars
<1> QED
  BY <1>4 DEF Maps

LEMMA OpenMaps ==
  ASSUME IInv, IInv', NEW K \in SUBSET Fd, K # {}, Regs(ctx') = Regs(ctx) \cup K,
         \A f \in Regs(ctx) : files'[f].id = files[f].id /\ files'[f].peer = files[f].peer,
         \A f \in K : files'[f].peer = "up",
         \A f \in K : \A g \in Regs(ctx) : files[g].id # files'[f].id,
         Entries(ctx'.tx) = Entries(ctx.tx), sent' = sent
  PROVE  Maps
<1> DEFINE L == {files'[f].id : f \in K}
<1>1. OpenIds(ctx', files') = OpenIds(ctx, files) \cup L
  BY DEF OpenIds
<1>2. BrokenIds(ctx', files') = BrokenIds(ctx, files)
  BY DEF BrokenIds
<1>3. Pending(ctx'.tx) = Pending(ctx.tx) /\ Written(sent') = Written(sent)
  BY DEF Pending
<1>4. L # {} /\ L \cap OpenIds(ctx, files) = {} /\ L \in SUBSET OpenIds(ctx', files')
  BY <1>1 DEF OpenIds
<1> HIDE DEF L
<1>5. BrokenIds(ctx, files) \in {BrokenIds(ctx, files) \cup B : B \in SUBSET L}
  <2>1. {} \in SUBSET L /\ BrokenIds(ctx, files) = BrokenIds(ctx, files) \cup {}
    OBVIOUS
  <2> QED
    BY <2>1
<1>b. PICK J : J = L
  OBVIOUS
<1>6. Promise!Open(J)
  <2> DEFINE O == {files[f].id : f \in Held}
             B == {files[f].id : f \in {g \in Held : files[g].peer # "up"}}
             P == {[id |-> m.id, conn |-> m.file] : m \in Listed}
             W == {[id |-> d.id, conn |-> d.file] : d \in sent}
  <2>1. O' = O \cup L /\ B' = B /\ P' = P /\ W' = W /\ L \cap O = {}
    BY <1>1, <1>2, <1>3, <1>4, MappedVars, MappedVarsNext
  <2>2. B' \in {B \cup C : C \in SUBSET L}
    BY <1>2, <1>5, MappedVars, MappedVarsNext
  <2> HIDE DEF O, B, P, W
  <2>3. /\ L # {} /\ L \cap O = {} /\ O' = O \cup L
        /\ B' \in {B \cup C : C \in SUBSET L} /\ P' = P /\ W' = W
    BY <1>4, <2>1, <2>2
  <2> QED
    BY <1>b, <2>3 DEF Promise!Open, O, B, P, W
<1>a. J \in SUBSET {files'[f].id : f \in Held'}
  BY <1>4, <1>b, MappedVarsNext
<1>7. Promise!Next
  BY <1>a, <1>6 DEF Promise!Next
<1> QED
  BY <1>7 DEF Maps

LEMMA CloseMaps ==
  ASSUME IInv, IInv', IdsInv, NEW K \in SUBSET Fd, Regs(ctx') = Regs(ctx) \ K,
         \A f \in Regs(ctx) \ K : files'[f].id = files[f].id /\ files'[f].peer = files[f].peer,
         Entries(ctx'.tx) = {m \in Entries(ctx.tx) : m.fd \notin K}, sent' = sent
  PROVE  Maps
<1> DEFINE L == {files[f].id : f \in K \cap Regs(ctx)}
<1>0. /\ \A f, g \in Regs(ctx) : files[f].id = files[g].id => f = g
      /\ \A m \in Entries(ctx.tx) : m.fd \in Regs(ctx) /\ m.file = files[m.fd].id
  BY RegsFacts DEF IInv, IdsInv
<1>a. \A f \in Regs(ctx) : files[f].id \in L <=> f \in K
  BY <1>0
<1>1. OpenIds(ctx', files') = OpenIds(ctx, files) \ L
  <2>1. \A x \in OpenIds(ctx', files') : x \in OpenIds(ctx, files) \ L
    BY <1>a DEF OpenIds
  <2>2. \A x \in OpenIds(ctx, files) \ L : x \in OpenIds(ctx', files')
    BY <1>a DEF OpenIds
  <2> QED
    BY <2>1, <2>2
<1>2. BrokenIds(ctx', files') = BrokenIds(ctx, files) \ L
  <2>1. \A x \in BrokenIds(ctx', files') : x \in BrokenIds(ctx, files) \ L
    BY <1>a DEF BrokenIds
  <2>2. \A x \in BrokenIds(ctx, files) \ L : x \in BrokenIds(ctx', files')
    BY <1>a DEF BrokenIds
  <2> QED
    BY <2>1, <2>2
<1>b. L \in SUBSET OpenIds(ctx, files)
  BY DEF OpenIds
<1> HIDE DEF L
<1>3. Pending(ctx'.tx) = {p \in Pending(ctx.tx) : p.conn \notin L}
  <2>1. \A m \in Entries(ctx.tx) : Seen(m).conn \in L <=> m.fd \in K
    BY <1>0, <1>a DEF Seen
  <2>2. \A x \in Pending(ctx'.tx) : x \in Pending(ctx.tx) /\ x.conn \notin L
    BY <2>1 DEF Pending
  <2>3. \A x \in Pending(ctx.tx) : x.conn \notin L => x \in Pending(ctx'.tx)
    BY <2>1 DEF Pending
  <2> QED
    BY <2>2, <2>3
<1>4. Written(sent') = Written(sent)
  OBVIOUS
<1>5. PICK J : J = L
  OBVIOUS
<1>6. Promise!Close(J)
  BY <1>1, <1>2, <1>3, <1>4, <1>5, MappedVars, MappedVarsNext DEF Promise!Close
<1>c. J \in SUBSET {files[f].id : f \in Held}
  BY <1>5, <1>b, MappedVars
<1>7. Promise!Next
  BY <1>c, <1>6 DEF Promise!Next
<1> QED
  BY <1>7 DEF Maps

LEMMA PeerLeavesMaps ==
  ASSUME IInv, IInv', NEW f \in Regs(ctx), ctx' = ctx, sent' = sent,
         \A g \in Fd : files'[g].id = files[g].id,
         \A g \in Fd : g # f => files'[g].peer = files[g].peer, files'[f].peer # "up"
  PROVE  Maps
<1>0. f \in Fd /\ Regs(ctx) \in SUBSET Fd
  BY DEF Regs
<1>1. OpenIds(ctx', files') = OpenIds(ctx, files) /\ files[f].id \in OpenIds(ctx, files)
  BY <1>0 DEF OpenIds
<1>2. BrokenIds(ctx', files') = BrokenIds(ctx, files) \cup {files[f].id}
  <2>1. \A x \in BrokenIds(ctx', files') : x \in BrokenIds(ctx, files) \cup {files[f].id}
    BY <1>0 DEF BrokenIds
  <2>2. \A x \in BrokenIds(ctx, files) \cup {files[f].id} : x \in BrokenIds(ctx', files')
    BY <1>0 DEF BrokenIds
  <2> QED
    BY <2>1, <2>2
<1>5. PICK k : k = files[f].id
  OBVIOUS
<1>6. Promise!PeerLeaves(k)
  BY <1>1, <1>2, <1>5, MappedVars, MappedVarsNext DEF Promise!PeerLeaves
<1>c. k \in {files[g].id : g \in Held}
  BY <1>1, <1>5, MappedVars
<1>7. Promise!Next
  BY <1>c, <1>6 DEF Promise!Next
<1> QED
  BY <1>7 DEF Maps

LEMMA ScheduleMaps ==
  ASSUME IInv, IInv', Regs(ctx') = Regs(ctx),
         \A f \in Regs(ctx) : files'[f].id = files[f].id /\ files'[f].peer = files[f].peer,
         NEW m, Entries(ctx'.tx) = Entries(ctx.tx) \cup {m}, sent' = sent,
         m.fd \in Regs(ctx), m.file = files[m.fd].id,
         \A e \in Entries(ctx.tx) : e.id # m.id, \A d \in sent : d.id # m.id
  PROVE  Maps
<1>1. OpenIds(ctx', files') = OpenIds(ctx, files)
  BY DEF OpenIds
<1>2. BrokenIds(ctx', files') = BrokenIds(ctx, files)
  BY DEF BrokenIds
<1>3. Pending(ctx'.tx) = Pending(ctx.tx) \cup {Seen(m)} /\ Written(sent') = Written(sent)
  BY DEF Pending
<1>4. Seen(m).conn \in OpenIds(ctx, files)
  BY DEF Seen, OpenIds
<1>5. Seen(m).id \notin {p.id : p \in Pending(ctx.tx)} \cup {p.id : p \in Written(sent)}
  BY DEF Pending, Written, Seen
<1>6. Promise!Schedule(Seen(m))
  BY <1>1, <1>2, <1>3, <1>4, <1>5, MappedVars, MappedVarsNext
  DEF Promise!Schedule, Promise!Ids
<1>7. Promise!Next
  BY <1>3, <1>6, MappedVarsNext DEF Promise!Next
<1> QED
  BY <1>7 DEF Maps

LEMMA WriteMaps ==
  ASSUME IInv, IInv', Regs(ctx') = Regs(ctx), files' = files,
         NEW m \in Entries(ctx.tx), Entries(ctx'.tx) = Entries(ctx.tx) \ {m},
         \A e \in Entries(ctx.tx) : e.id = m.id => e = m,
         NEW d, sent' = sent \cup {d}, d.id = m.id, d.file = m.file
  PROVE  Maps
<1>1. OpenIds(ctx', files') = OpenIds(ctx, files)
      /\ BrokenIds(ctx', files') = BrokenIds(ctx, files)
  BY DEF OpenIds, BrokenIds
<1>2. Pending(ctx'.tx) = Pending(ctx.tx) \ {Seen(m)} /\ Seen(m) \in Pending(ctx.tx)
  <2>1. \A e \in Entries(ctx.tx) : Seen(e) = Seen(m) => e = m
    BY DEF Seen
  <2>2. \A x \in Pending(ctx'.tx) : x \in Pending(ctx.tx) \ {Seen(m)}
    BY <2>1 DEF Pending
  <2>3. \A x \in Pending(ctx.tx) \ {Seen(m)} : x \in Pending(ctx'.tx)
    BY DEF Pending
  <2> QED
    BY <2>2, <2>3 DEF Pending
<1>3. Written(sent') = Written(sent) \cup {Seen(m)}
  <2>1. Seen(d) = Seen(m)
    BY DEF Seen
  <2> QED
    BY <2>1 DEF Written
<1>6. Promise!Write(Seen(m))
  BY <1>1, <1>2, <1>3, MappedVars, MappedVarsNext DEF Promise!Write
<1>7. Promise!Next
  BY <1>2, <1>6, MappedVars DEF Promise!Next
<1> QED
  BY <1>7 DEF Maps

LEMMA DropMaps ==
  ASSUME IInv, IInv', IdsInv, Regs(ctx') = Regs(ctx), files' = files, sent' = sent,
         NEW M \in SUBSET Entries(ctx.tx), Entries(ctx'.tx) = Entries(ctx.tx) \ M,
         \A m \in M : files[m.fd].peer # "up",
         \A e, m \in Entries(ctx.tx) : e.id = m.id => e = m
  PROVE  Maps
<1> DEFINE L == {Seen(m) : m \in M}
<1>1. OpenIds(ctx', files') = OpenIds(ctx, files) /\ Written(sent') = Written(sent)
      /\ BrokenIds(ctx', files') = BrokenIds(ctx, files)
  BY DEF OpenIds, BrokenIds
<1>2. Pending(ctx'.tx) = Pending(ctx.tx) \ L /\ L \in SUBSET Pending(ctx.tx)
  <2>1. \A e, m \in Entries(ctx.tx) : Seen(e) = Seen(m) => e = m
    BY DEF Seen
  <2>2. \A x \in Pending(ctx'.tx) : x \in Pending(ctx.tx) \ L
    BY <2>1 DEF Pending
  <2>3. \A x \in Pending(ctx.tx) \ L : x \in Pending(ctx'.tx)
    BY DEF Pending
  <2> QED
    BY <2>2, <2>3 DEF Pending
<1>3. \A p \in L : p.conn \in BrokenIds(ctx, files)
  <2>1. \A m \in Entries(ctx.tx) : m.fd \in Regs(ctx) /\ m.file = files[m.fd].id
    BY RegsFacts DEF IInv, IdsInv
  <2> QED
    BY <2>1 DEF Seen, BrokenIds
<1> HIDE DEF L
<1>6. Promise!Drop(L)
  BY <1>1, <1>2, <1>3, MappedVars, MappedVarsNext DEF Promise!Drop
<1>7. Promise!Next
  BY <1>2, <1>6, MappedVars DEF Promise!Next
<1> QED
  BY <1>7 DEF Maps

-----------------------------------------------------------------------------
(* What the operations of the context do to what Outbox sees.              *)

(* The connections of K leave context c with their messages: it is now d.  *)
Leaves(c, d, K) ==
  /\ Regs(d) = Regs(c) \ K
  /\ Entries(d.tx) = {m \in Entries(c.tx) : m.fd \notin K}
  /\ SubList(d.tx, c.tx)

LEMMA LeavesTrans ==
  ASSUME NEW c, NEW d, NEW e, NEW J, NEW K, Leaves(c, d, J), Leaves(d, e, K)
  PROVE  Leaves(c, e, J \cup K)
<1>1. SubList(e.tx, c.tx)
  BY SubListTrans DEF Leaves
<1> QED
  BY <1>1 DEF Leaves

LEMMA TxTyped ==
  ASSUME NEW c, NEW F, Good(c, F)
  PROVE  c \in Context /\ c.tx \in Seq(Message)
         /\ \A m \in Entries(c.tx) : m \in Message /\ m.fd \in Regs(c) /\ m.file = F[m.fd].id
<1>1. c \in Context /\ TxOK(c, F)
  BY DEF Good
<1>2. c.tx \in Seq(Message) /\ \A k \in 1 .. Len(c.tx) : c.tx[k] \in Message /\ c.tx[k].fd \in Fd
  BY <1>1, ContextFields
<1> QED
  BY <1>1, <1>2 DEF Entries, TxOK, Regs

LEMMA DelLeaves ==
  ASSUME NEW c, NEW F, Good(c, F), NEW i \in 1 .. Len(c.conns), c.conns[i].fd # NoFd
  PROVE  Leaves(c, ipc_del(c, i), {c.conns[i].fd})
<1> DEFINE d == ipc_del(c, i)
           f == c.conns[i].fd
<1>1. /\ ~Registered(d, f)
      /\ \A g : Registered(d, g) => Registered(c, g)
      /\ \A g : Registered(c, g) /\ g # f => Registered(d, g)
      /\ d.tx = RemoveFor(c.tx, {f})
  BY GoodDel
<1>2. c.tx \in Seq(Message)
  BY TxTyped
<1> HIDE DEF d, f
<1>3. Regs(d) = Regs(c) \ {f}
  BY <1>1 DEF Regs
<1>4. SubList(d.tx, c.tx) /\ Entries(d.tx) = {m \in Entries(c.tx) : m.fd \notin {f}}
  BY <1>1, <1>2, EntriesRemove
<1> QED
  BY <1>3, <1>4 DEF Leaves, d, f

LEMMA DelFdLeaves ==
  ASSUME NEW c, NEW F, Good(c, F), NEW f \in Fd
  PROVE  Leaves(c, ipc_del_fd(c, f), {f})
<1>1. CASE ~Registered(c, f)
  <2>1. ipc_del_fd(c, f) = c
    BY <1>1 DEF ipc_del_fd
  <2>2. f \notin Regs(c)
    BY <1>1 DEF Regs
  <2>3. SubList(c.tx, c.tx) /\ \A m \in Entries(c.tx) : m.fd \in Regs(c)
    BY TxTyped, SubListSame
  <2> QED
    BY <2>1, <2>2, <2>3 DEF Leaves
<1>2. CASE Registered(c, f)
  <2> DEFINE i == IndexOf(c, f)
  <2>1. i \in 1 .. Len(c.conns) /\ c.conns[i].fd = f
    BY <1>2, IndexOfFacts DEF Good
  <2>2. ipc_del_fd(c, f) = ipc_del(c, i)
    BY <1>2 DEF ipc_del_fd
  <2> HIDE DEF i
  <2> QED
    BY <2>1, <2>2, DelLeaves, FdAssumption
<1> QED
  BY <1>1, <1>2

LEMMA PairLeaves ==
  ASSUME NEW c, NEW F, Good(c, F), NEW f \in Fd, NEW g \in Fd
  PROVE  Leaves(c, ipc_del_fd(ipc_del_fd(c, g), f), {g, f})
<1>1. Good(ipc_del_fd(c, g), F) /\ Leaves(c, ipc_del_fd(c, g), {g})
  BY GoodDelFd, DelFdLeaves
<1>2. PICK d : d = ipc_del_fd(c, g)
  OBVIOUS
<1>3. Leaves(d, ipc_del_fd(d, f), {f})
  BY <1>1, <1>2, DelFdLeaves
<1>4. Leaves(c, ipc_del_fd(d, f), {g} \cup {f})
  BY <1>1, <1>2, <1>3, LeavesTrans
<1>5. {g} \cup {f} = {g, f}
  OBVIOUS
<1> QED
  BY <1>2, <1>4, <1>5

LEMMA CloseKeeps ==
  ASSUME NEW c, NEW F, Good(c, F), NEW f
  PROVE  /\ Regs(ipc_close(c, f)) = Regs(c)
         /\ Entries(ipc_close(c, f).tx) = {m \in Entries(c.tx) : m.fd \notin {f}}
         /\ SubList(ipc_close(c, f).tx, c.tx)
<1> DEFINE d == ipc_close(c, f)
<1>1. d.tx = RemoveFor(c.tx, {f}) /\ \A g : Registered(d, g) <=> Registered(c, g)
  BY GoodClose
<1>2. c.tx \in Seq(Message)
  BY TxTyped
<1> HIDE DEF d
<1>3. SubList(d.tx, c.tx) /\ Entries(d.tx) = {m \in Entries(c.tx) : m.fd \notin {f}}
  BY <1>1, <1>2, EntriesRemove
<1>4. Regs(d) = Regs(c)
  BY <1>1 DEF Regs
<1> QED
  BY <1>3, <1>4 DEF d

LEMMA EndLeaves ==
  ASSUME NEW c, NEW F, Good(c, F), NEW i \in 1 .. Len(c.conns), c.conns[i].fd # NoFd
  PROVE  Leaves(c, ipc_del(ipc_close(c, c.conns[i].fd), i), {c.conns[i].fd})
<1>0. PICK f : f = c.conns[i].fd
  OBVIOUS
<1>1. PICK d : d = ipc_close(c, f)
  OBVIOUS
<1>2. Good(d, F) /\ d.conns = c.conns
  BY <1>1, GoodClose
<1>3. /\ Regs(d) = Regs(c)
      /\ Entries(d.tx) = {m \in Entries(c.tx) : m.fd \notin {f}}
      /\ SubList(d.tx, c.tx)
  BY <1>1, CloseKeeps
<1>4. Leaves(d, ipc_del(d, i), {f})
  BY <1>0, <1>2, DelLeaves
<1>5. SubList(ipc_del(d, i).tx, c.tx)
  BY <1>3, <1>4, SubListTrans DEF Leaves
<1>6. Leaves(c, ipc_del(d, i), {f})
  BY <1>3, <1>4, <1>5 DEF Leaves
<1> QED
  BY <1>0, <1>1, <1>6

(* Operations that leave the connections and the messages as they are.     *)
SameSeen(c, d) == Regs(d) = Regs(c) /\ d.tx = c.tx

LEMMA SwitchdbSame ==
  ASSUME NEW c, NEW F, Good(c, F), NEW db \in Seq(Record)
  PROVE  SameSeen(c, [c EXCEPT !.switchdb = db])
<1>1. \A f : Registered([c EXCEPT !.switchdb = db], f) <=> Registered(c, f)
  BY GoodSwitchdb
<1>2. [c EXCEPT !.switchdb = db].tx = c.tx
  BY DEF Good, Context
<1> QED
  BY <1>1, <1>2 DEF SameSeen, Regs

LEMMA SwitchingDelSame ==
  ASSUME NEW c, NEW F, Good(c, F), NEW f
  PROVE  SameSeen(c, ipc_ctx_switching_del(c, f))
<1>1. ipc_switching_del(c.switchdb, f) \in Seq(Record)
  BY ContextFields, SwitchingDelType DEF Good
<1> QED
  BY <1>1, SwitchdbSame DEF ipc_ctx_switching_del

LEMMA MoreSame ==
  ASSUME NEW c, NEW F, Good(c, F), NEW i \in 1 .. Len(c.conns), NEW more \in BOOLEAN,
         more => c.conns[i].type = "SWITCHED"
  PROVE  SameSeen(c, MoreToRead(c, i, more))
<1>1. /\ MoreToRead(c, i, more).tx = c.tx
      /\ \A g : Registered(MoreToRead(c, i, more), g) <=> Registered(c, g)
  BY GoodMore
<1> QED
  BY <1>1 DEF SameSeen, Regs

LEMMA AddSeen ==
  ASSUME NEW c \in Context, NEW f \in Fd \cup {NoFd}, NEW type \in ConnType
  PROVE  /\ Regs(ipc_add_fd_(c, f, type)) = Regs(c) \cup ({f} \cap Fd)
         /\ ipc_add_fd_(c, f, type).tx = c.tx /\ ipc_add_fd_(c, f, type) \in Context
<1> DEFINE new == [fd |-> f, type |-> type, more_to_read |-> FALSE]
           q == Append(c.conns, new)
           d == ipc_add_fd_(c, f, type)
<1>1. c.conns \in Seq(Connection) /\ Len(c.conns) \in Nat
  BY ContextFields
<1>2. new \in Connection /\ new.fd = f
  BY DEF Connection
<1>3. q \in Seq(Connection) /\ Len(q) = Len(c.conns) + 1 /\ q[Len(c.conns) + 1] = new
      /\ \A k \in 1 .. Len(c.conns) : q[k] = c.conns[k]
  <2> HIDE DEF new
  <2> QED
    BY <1>1, <1>2, AppendFacts
<1>4. d = [c EXCEPT !.conns = q]
  BY DEF ipc_add_fd_
<1> HIDE DEF new, q, d
<1>5. d.conns = q /\ d.tx = c.tx /\ d \in Context
  BY <1>1, <1>3, <1>4, ContextConns
<1>6. \A k \in 1 .. Len(q) : k \in 1 .. Len(c.conns) \/ k = Len(c.conns) + 1
  BY <1>1, <1>3
<1>7. \A k \in 1 .. Len(c.conns) : k \in 1 .. Len(q)
  BY <1>1, <1>3
<1>8. Len(c.conns) + 1 \in 1 .. Len(q)
  BY <1>1, <1>3
<1>9. \A g : Registered(d, g) <=> Registered(c, g) \/ g = f
  BY <1>2, <1>3, <1>5, <1>6, <1>7, <1>8 DEF Registered
<1>10. Regs(d) = Regs(c) \cup ({f} \cap Fd)
  BY <1>9 DEF Regs
<1> QED
  BY <1>5, <1>10 DEF d

LEMMA WriteSeen ==
  ASSUME NEW c, NEW F, Good(c, F), NEW m \in Message, Registered(c, m.fd)
  PROVE  \E n \in Message :
           /\ n.fd = m.fd /\ n.file = m.file /\ n.id = m.id
           /\ Regs(ipc_write(c, m)) = Regs(c)
           /\ ipc_write(c, m).tx = Append(c.tx, n)
           /\ Entries(ipc_write(c, m).tx) = Entries(c.tx) \cup {n}
<1>1. PICK n : n = [m EXCEPT !.kind = strncpy(m.kind)]
  OBVIOUS
<1>2. n \in Message /\ n.fd = m.fd /\ n.file = m.file /\ n.id = m.id
  BY <1>1 DEF Message, strncpy, Kinds
<1>3. c \in Context /\ c.tx \in Seq(Message)
  BY TxTyped
<1>4. PICK t : t = Append(c.tx, n)
  OBVIOUS
<1>5. t \in Seq(Message) /\ Len(t) = Len(c.tx) + 1 /\ Len(c.tx) \in Nat
      /\ t[Len(c.tx) + 1] = n /\ \A k \in 1 .. Len(c.tx) : t[k] = c.tx[k]
  BY <1>2, <1>3, <1>4, AppendFacts
<1>6. PICK d : d = ipc_write(c, m)
  OBVIOUS
<1>7. d = [c EXCEPT !.tx = t]
  BY <1>1, <1>4, <1>6 DEF ipc_write, ipc_messages_add
<1>8. d.tx = t /\ d.conns = c.conns
  BY <1>3, <1>7 DEF Context
<1>9. Regs(d) = Regs(c)
  BY <1>8 DEF Regs, Registered
<1>10. Entries(t) = Entries(c.tx) \cup {n}
  <2>1. \A k \in 1 .. Len(t) : k \in 1 .. Len(c.tx) \/ k = Len(c.tx) + 1
    BY <1>5
  <2>2. \A x \in Entries(t) : x \in Entries(c.tx) \cup {n}
    BY <1>5, <2>1 DEF Entries
  <2>3. Len(c.tx) + 1 \in 1 .. Len(t) /\ \A k \in 1 .. Len(c.tx) : k \in 1 .. Len(t)
    BY <1>5
  <2>4. \A x \in Entries(c.tx) \cup {n} : x \in Entries(t)
    BY <1>5, <2>3 DEF Entries
  <2> QED
    BY <2>2, <2>4
<1> QED
  BY <1>2, <1>4, <1>6, <1>8, <1>9, <1>10

-----------------------------------------------------------------------------
(* Steps that use no new identity.                                         *)

(* The files of G are those of F, with less to read, or closed.            *)
LessAt(G, F, g) ==
  \/ G[g] = F[g]
  \/ G[g].id = 0 /\ ~IsOpen(G, g) /\ G[g].rx = <<>>
  \/ /\ G[g].id = F[g].id /\ G[g].sort = F[g].sort
     /\ G[g].rx = <<>> \/ (F[g].rx # <<>> /\ G[g].rx = Tail(F[g].rx))

LEMMA LessFiles ==
  ASSUME NEW F, NEW G, \A g \in Fd : LessAt(G, F, g)
  PROVE  RxStep(G, F) /\ IdLess(G, F)
<1>1. ASSUME NEW g \in Fd
      PROVE  /\ RxStepAt(G, F, g)
             /\ G[g].id = F[g].id \/ G[g].id = 0
             /\ IsOpen(G, g) => IsOpen(F, g) /\ G[g].id = F[g].id
  <2>1. LessAt(G, F, g)
    OBVIOUS
  <2>2. CASE G[g] = F[g]
    BY <2>2 DEF RxStepAt, IsOpen
  <2>3. CASE G[g].id = 0 /\ ~IsOpen(G, g) /\ G[g].rx = <<>>
    BY <2>3 DEF RxStepAt
  <2>4. CASE /\ G[g].id = F[g].id /\ G[g].sort = F[g].sort
             /\ G[g].rx = <<>> \/ (F[g].rx # <<>> /\ G[g].rx = Tail(F[g].rx))
    BY <2>4 DEF RxStepAt, IsOpen
  <2> QED
    BY <2>1, <2>2, <2>3, <2>4 DEF LessAt
<1> QED
  BY <1>1 DEF RxStep, IdLess

LEMMA TypedFiles ==
  ASSUME IInv
  PROVE  Good(ctx, files) /\ FilesTyped(files) /\ nfiles \in Nat /\ nmsgs \in Nat
         /\ \A d \in sent : d.id \in Nat
BY DEF IInv, FilesOK, FilesTyped, RestOK

LEMMA TypedFilesNext ==
  ASSUME IInv'
  PROVE  Good(ctx', files') /\ FilesTyped(files')
BY DEF IInv, FilesOK, FilesTyped

(* Connections leave the context, their files may be closed.               *)
LEMMA LeaveStep ==
  ASSUME IInv, IInv', IdsInv, NEW K \in SUBSET Fd, Leaves(ctx, ctx', K),
         \A g \in Fd : LessAt(files', files, g),
         \A g \in Regs(ctx) \ K : files'[g].id = files[g].id /\ files'[g].peer = files[g].peer,
         UNCHANGED <<nfiles, nmsgs, sent>>
  PROVE  IdsInv' /\ Maps
<1>1. RxStep(files', files) /\ IdLess(files', files) /\ FilesTyped(files')
  BY LessFiles, TypedFilesNext
<1>2. IdsInv'
  BY <1>1, IdsShrink DEF Leaves
<1>3. Maps
  BY CloseMaps DEF Leaves
<1> QED
  BY <1>2, <1>3

(* Outbox sees nothing.                                                    *)
LEMMA QuietStep ==
  ASSUME IInv, IInv', IdsInv, SameSeen(ctx, ctx'),
         \A g \in Fd : LessAt(files', files, g),
         \A g \in Regs(ctx) : files'[g].id = files[g].id /\ files'[g].peer = files[g].peer,
         UNCHANGED <<nfiles, nmsgs, sent>>
  PROVE  IdsInv' /\ Maps
<1>1. RxStep(files', files) /\ IdLess(files', files) /\ FilesTyped(files')
  BY LessFiles, TypedFilesNext
<1>2. ctx.tx \in Seq(Message)
  BY TypedFiles, TxTyped
<1>3. SubList(ctx'.tx, ctx.tx)
  BY <1>2, SubListSame DEF SameSeen
<1>4. IdsInv'
  BY <1>1, <1>3, IdsShrink
<1>5. Maps
  BY StutterMaps DEF SameSeen
<1> QED
  BY <1>4, <1>5

LEMMA SameFiles ==
  ASSUME files' = files
  PROVE  /\ \A g \in Fd : LessAt(files', files, g)
         /\ \A g : files'[g].id = files[g].id /\ files'[g].peer = files[g].peer
BY DEF LessAt

LEMMA CloseLess ==
  ASSUME NEW F, FilesTyped(F), NEW f \in Fd
  PROVE  /\ \A g \in Fd : LessAt(CloseFile(F, f), F, g)
         /\ \A g \in Fd \ {f} : CloseFile(F, f)[g] = F[g]
BY CloseFields DEF LessAt

LEMMA CloseBothLess ==
  ASSUME NEW F, FilesTyped(F), NEW f \in Fd, NEW h \in Fd
  PROVE  /\ \A g \in Fd : LessAt(CloseFile(CloseFile(F, h), f), F, g)
         /\ \A g \in Fd \ {f, h} : CloseFile(CloseFile(F, h), f)[g] = F[g]
<1>1. PICK G : G = CloseFile(F, h)
  OBVIOUS
<1>2. FilesTyped(G) /\ G[h].id = 0 /\ ~IsOpen(G, h) /\ G[h].rx = <<>>
      /\ \A g \in Fd \ {h} : G[g] = F[g]
  BY <1>1, CloseFields
<1>3. PICK H : H = CloseFile(G, f)
  OBVIOUS
<1>4. H[f].id = 0 /\ ~IsOpen(H, f) /\ H[f].rx = <<>> /\ \A g \in Fd \ {f} : H[g] = G[g]
  BY <1>2, <1>3, CloseFields
<1>5. ASSUME NEW g \in Fd
      PROVE  LessAt(H, F, g) /\ (g \notin {f, h} => H[g] = F[g])
  <2>1. CASE g = f
    BY <1>4, <2>1 DEF LessAt
  <2>2. CASE g # f /\ g = h
    BY <1>2, <1>4, <2>2 DEF LessAt, IsOpen
  <2>3. CASE g # f /\ g # h
    BY <1>2, <1>4, <2>3 DEF LessAt
  <2> QED
    BY <2>1, <2>2, <2>3
<1> QED
  BY <1>1, <1>3, <1>5

LEMMA RxSmaller ==
  ASSUME NEW F, FilesTyped(F), NEW f \in Fd, NEW rx \in Seq(Body),
         rx = <<>> \/ (F[f].rx # <<>> /\ rx = Tail(F[f].rx))
  PROVE  /\ \A g \in Fd : LessAt(WithRx(F, f, rx), F, g)
         /\ \A g \in Fd : /\ WithRx(F, f, rx)[g].id = F[g].id
                          /\ WithRx(F, f, rx)[g].peer = F[g].peer
<1>1. PICK G : G = WithRx(F, f, rx)
  OBVIOUS
<1>2. /\ G[f].rx = rx
      /\ \A g \in Fd : G[g].id = F[g].id /\ G[g].sort = F[g].sort /\ G[g].peer = F[g].peer
      /\ \A g \in Fd \ {f} : G[g] = F[g]
  BY <1>1, RxFields
<1>3. ASSUME NEW g \in Fd
      PROVE  LessAt(G, F, g)
  <2>1. CASE g = f
    BY <1>2, <2>1 DEF LessAt
  <2>2. CASE g # f
    BY <1>2, <2>2 DEF LessAt
  <2> QED
    BY <2>1, <2>2
<1> QED
  BY <1>1, <1>2, <1>3

LEMMA DrainSmaller ==
  ASSUME NEW F, FilesTyped(F), NEW f \in Fd
  PROVE  /\ \A g \in Fd : LessAt(Drain(F, f), F, g)
         /\ \A g \in Fd : Drain(F, f)[g].id = F[g].id /\ Drain(F, f)[g].peer = F[g].peer
<1>1. PICK rx : rx = <<>>
  OBVIOUS
<1>2. rx \in Seq(Body)
  BY <1>1, NoData
<1>3. Drain(F, f) = WithRx(F, f, rx)
  BY <1>1 DEF Drain, WithRx
<1>4. /\ \A g \in Fd : LessAt(WithRx(F, f, rx), F, g)
      /\ \A g \in Fd : /\ WithRx(F, f, rx)[g].id = F[g].id
                       /\ WithRx(F, f, rx)[g].peer = F[g].peer
  BY <1>1, <1>2, RxSmaller
<1> QED
  BY <1>3, <1>4

LEMMA CloseConnectionMaps ==
  ASSUME IInv, IInv', IdsInv, NEW i \in 1 .. Len(ctx.conns), CloseConnection(i)
  PROVE  IdsInv' /\ Maps
<1>1. PICK f : f = ctx.conns[i].fd
  OBVIOUS
<1>2. f # NoFd /\ ctx' = ipc_del(ipc_close(ctx, f), i) /\ files' = CloseFile(files, f)
      /\ UNCHANGED <<nfiles, nmsgs, sent>>
  BY <1>1 DEF CloseConnection
<1>3. Good(ctx, files) /\ FilesTyped(files)
  BY TypedFiles
<1>4. f \in Fd
  BY <1>1, <1>2, <1>3, ContextFields DEF Good
<1>5. Leaves(ctx, ctx', {f}) /\ {f} \in SUBSET Fd
  BY <1>1, <1>2, <1>3, <1>4, EndLeaves
<1>6. /\ \A g \in Fd : LessAt(files', files, g)
      /\ \A g \in Fd \ {f} : files'[g] = files[g]
  BY <1>2, <1>3, <1>4, CloseLess
<1>7. \A g \in Regs(ctx) \ {f} : files'[g].id = files[g].id /\ files'[g].peer = files[g].peer
  BY <1>6 DEF Regs
<1> QED
  BY <1>2, <1>5, <1>6, <1>7, LeaveStep

(* Two connections leave, and their descriptors are closed.                *)
LEMMA EndPairMaps ==
  ASSUME IInv, IInv', IdsInv, NEW c, Good(c, files), NEW f \in Fd, NEW h \in Fd,
         ctx' = ipc_del_fd(ipc_del_fd(c, h), f), Regs(c) = Regs(ctx), SubList(c.tx, ctx.tx),
         \A m \in Entries(c.tx) : m \in Entries(ctx.tx),
         \A m \in Entries(ctx.tx) : m \in Entries(c.tx) \/ m.fd = f,
         files' = CloseFile(CloseFile(files, h), f), UNCHANGED <<nfiles, nmsgs, sent>>
  PROVE  IdsInv' /\ Maps
<1>1. FilesTyped(files)
  BY TypedFiles
<1>2. Leaves(c, ctx', {h, f}) /\ {h, f} \in SUBSET Fd
  BY PairLeaves
<1>3. SubList(ctx'.tx, ctx.tx)
  BY <1>2, SubListTrans DEF Leaves
<1>4. Entries(ctx'.tx) = {m \in Entries(ctx.tx) : m.fd \notin {h, f}}
  BY <1>2 DEF Leaves
<1>5. Leaves(ctx, ctx', {h, f})
  BY <1>2, <1>3, <1>4 DEF Leaves
<1>6. /\ \A g \in Fd : LessAt(files', files, g)
      /\ \A g \in Fd \ {f, h} : files'[g] = files[g]
  BY <1>1, CloseBothLess
<1>7. \A g \in Regs(ctx) \ {h, f} : files'[g].id = files[g].id /\ files'[g].peer = files[g].peer
  BY <1>6 DEF Regs
<1> QED
  BY <1>2, <1>5, <1>6, <1>7, LeaveStep

LEMMA DisconnectionMaps ==
  ASSUME IInv, IInv', IdsInv, NEW f \in Fd, handle_disconnection(f)
  PROVE  IdsInv' /\ Maps
<1>1. PICK h : h = OtherEnd(ipc_switching_get_(ctx.switchdb, f), f)
  OBVIOUS
<1>2. PICK c : c = ipc_ctx_switching_del(ctx, f)
  OBVIOUS
<1>3. HasRecord(ctx.switchdb, f) /\ ctx' = ipc_del_fd(ipc_del_fd(c, h), f)
      /\ files' = CloseFile(CloseFile(files, h), f) /\ UNCHANGED <<nfiles, nmsgs, sent>>
  BY <1>1, <1>2 DEF handle_disconnection
<1>4. Good(ctx, files)
  BY TypedFiles
<1>5. h \in Fd
  BY <1>1, <1>3, <1>4, ContextFields, RecordFacts DEF Good
<1>6. Good(c, files) /\ SameSeen(ctx, c)
  BY <1>2, <1>4, GoodSwitchingDel, SwitchingDelSame
<1>7. Regs(c) = Regs(ctx) /\ c.tx = ctx.tx /\ SubList(c.tx, ctx.tx)
  BY <1>4, <1>6, TxTyped, SubListSame DEF SameSeen
<1> QED
  BY <1>3, <1>5, <1>6, <1>7, EndPairMaps

LEMMA CloseForgottenMaps ==
  ASSUME IInv, IInv', IdsInv, NEW f \in Fd, CloseForgotten(f)
  PROVE  IdsInv' /\ Maps
<1>1. ~Registered(ctx, f) /\ files' = CloseFile(files, f)
      /\ UNCHANGED <<ctx, nfiles, nmsgs, sent>>
  BY DEF CloseForgotten
<1>2. FilesTyped(files)
  BY TypedFiles
<1>3. /\ \A g \in Fd : LessAt(files', files, g)
      /\ \A g \in Fd \ {f} : files'[g] = files[g]
  BY <1>1, <1>2, CloseLess
<1>4. \A g \in Regs(ctx) : files'[g].id = files[g].id /\ files'[g].peer = files[g].peer
  BY <1>1, <1>3 DEF Regs
<1>5. SameSeen(ctx, ctx')
  BY <1>1 DEF SameSeen
<1> QED
  BY <1>1, <1>3, <1>4, <1>5, QuietStep

LEMMA CallbacksMaps ==
  ASSUME IInv, IInv', IdsInv, NEW f \in Fd, NEW cb \in Callback,
         SetCallbacks(f, cb) \/ SetCallbackIn(f, cb)
  PROVE  IdsInv' /\ Maps
<1>1. PICK out \in Callback \cup {Null} :
        ctx' = [ctx EXCEPT !.switchdb = ipc_switching_callbacks(@, f, cb, out)]
  BY DEF SetCallbacks, SetCallbackIn
<1>2. UNCHANGED <<files, nfiles, nmsgs, sent>>
  BY DEF SetCallbacks, SetCallbackIn
<1>3. Good(ctx, files) /\ ctx \in Context
  BY TypedFiles DEF Good
<1>4. PICK db : db = ipc_switching_callbacks(ctx.switchdb, f, cb, out)
  OBVIOUS
<1>5. db \in Seq(Record)
  BY <1>3, <1>4, ContextFields, SwitchingCallbacksType
<1>6. ctx' = [ctx EXCEPT !.switchdb = db]
  BY <1>1, <1>4
<1>7. SameSeen(ctx, ctx')
  BY <1>3, <1>5, <1>6, SwitchdbSame
<1> QED
  BY <1>2, <1>7, SameFiles, QuietStep

LEMMA ShutdownMaps ==
  ASSUME IInv, IInv', IdsInv, Shutdown
  PROVE  IdsInv' /\ Maps
<1>1. PICK S : S = {ctx.conns[i].fd : i \in 1 .. Len(ctx.conns)}
  OBVIOUS
<1>2. Good(ctx, files) /\ ctx \in Context /\ ctx.tx \in Seq(Message)
      /\ \A m \in Entries(ctx.tx) : m.fd \in Regs(ctx)
  BY TypedFiles, TxTyped
<1>3. Regs(ctx) \in SUBSET S /\ Regs(ctx) \in SUBSET Fd
  BY <1>1 DEF Regs, Registered
<1>4. PICK t : t = RemoveFor(ctx.tx, S)
  OBVIOUS
<1>5. SubList(t, ctx.tx) /\ Entries(t) = {m \in Entries(ctx.tx) : m.fd \notin S}
  BY <1>2, <1>4, EntriesRemove
<1>6. ctx'.conns = <<>> /\ ctx'.tx = t
  BY <1>1, <1>2, <1>4 DEF Shutdown, ipc_ctx_free, ipc_close_all, Context
<1>7. Regs(ctx') = {}
  BY <1>6 DEF Regs, Registered
<1>8. Leaves(ctx, ctx', Fd)
  BY <1>2, <1>3, <1>5, <1>6, <1>7 DEF Leaves
<1>9. /\ files' = [f \in Fd |-> IF Registered(ctx, f) /\ ~HasType(ctx, f, "EXTERNAL")
                               THEN ClosedFile ELSE files[f]]
      /\ UNCHANGED <<nfiles, nmsgs, sent>>
  BY DEF Shutdown
<1>10. \A g \in Fd : LessAt(files', files, g)
  BY <1>9 DEF LessAt, ClosedFile, IsOpen
<1>11. \A g \in Regs(ctx) \ Fd : FALSE
  BY <1>3
<1> QED
  BY <1>8, <1>9, <1>10, <1>11, LeaveStep

LEMMA PollMaps ==
  ASSUME IInv, IInv', IdsInv,
         UNCHANGED <<ctx, files, nfiles, nmsgs, sent>>
  PROVE  IdsInv' /\ Maps
<1>1. SameSeen(ctx, ctx')
  BY DEF SameSeen
<1> QED
  BY <1>1, SameFiles, QuietStep

LEMMA ExtraSocketMaps ==
  ASSUME IInv, IInv', IdsInv, NEW i \in 1 .. Len(ctx.conns), ExtraSocket(i)
  PROVE  IdsInv' /\ Maps
<1>1. ctx' = MoreToRead(ctx, i, FALSE) /\ UNCHANGED <<files, nfiles, nmsgs, sent>>
  BY DEF ExtraSocket
<1>2. SameSeen(ctx, ctx')
  BY <1>1, TypedFiles, MoreSame
<1> QED
  BY <1>1, <1>2, SameFiles, QuietStep

LEMMA NewMessageMaps ==
  ASSUME IInv, IInv', IdsInv, NEW i \in 1 .. Len(ctx.conns), handle_new_message(i)
  PROVE  IdsInv' /\ Maps
<1>1. PICK f : f = ctx.conns[i].fd
  OBVIOUS
<1>2. First(i) /\ UNCHANGED <<nfiles, nmsgs, sent>>
  BY DEF handle_new_message, FirstIn
<1>3. Good(ctx, files) /\ FilesTyped(files) /\ f \in Fd /\ f # NoFd
  BY <1>1, <1>2, FirstFacts, TypedFiles, FdAssumption
<1>4. CASE ctx' = MoreToRead(ctx, i, FALSE) /\ files' = Drain(files, f)
  <2>1. SameSeen(ctx, ctx')
    BY <1>3, <1>4, MoreSame
  <2>2. /\ \A g \in Fd : LessAt(files', files, g)
        /\ \A g \in Fd : files'[g].id = files[g].id /\ files'[g].peer = files[g].peer
    BY <1>3, <1>4, DrainSmaller
  <2>3. \A g \in Regs(ctx) : files'[g].id = files[g].id /\ files'[g].peer = files[g].peer
    BY <2>2 DEF Regs
  <2> QED
    BY <1>2, <2>1, <2>2, <2>3, QuietStep
<1>5. CASE ctx' = ipc_del(ipc_close(ctx, f), i) /\ files' = CloseFile(files, f)
  <2>1. Leaves(ctx, ctx', {f}) /\ {f} \in SUBSET Fd
    BY <1>1, <1>3, <1>5, EndLeaves
  <2>2. /\ \A g \in Fd : LessAt(files', files, g)
        /\ \A g \in Fd \ {f} : files'[g] = files[g]
    BY <1>3, <1>5, CloseLess
  <2>3. \A g \in Regs(ctx) \ {f} : files'[g].id = files[g].id /\ files'[g].peer = files[g].peer
    BY <2>2 DEF Regs
  <2> QED
    BY <1>2, <2>1, <2>2, <2>3, LeaveStep
<1> QED
  BY <1>1, <1>4, <1>5 DEF handle_new_message

LEMMA HandleEventMaps ==
  ASSUME IInv, IInv', IdsInv, HandleEvent
  PROVE  IdsInv' /\ Maps
<1>1. PICK f : f = event.origin
  OBVIOUS
<1> DEFINE ended == event.type \in {"DISCONNECTION", "ERROR"} /\ HasType(ctx, f, "EXTERNAL")
<1>2. ctx' = (IF ended THEN ipc_del_fd(ctx, f) ELSE ctx)
      /\ files' = (CASE ended -> CloseFile(files, f)
                     [] event.type = "EXTRA_SOCKET" -> Drain(files, f)
                     [] OTHER -> files)
      /\ UNCHANGED <<nfiles, nmsgs, sent>>
  BY <1>1 DEF HandleEvent
<1>3. Good(ctx, files) /\ FilesTyped(files) /\ f \in Fd \cup {NoFd}
  BY <1>1, TypedFiles DEF IInv, RestOK
<1>4. CASE ended
  <2>1. PICK i \in 1 .. Len(ctx.conns) : ctx.conns[i].fd = f /\ ctx.conns[i].type = "EXTERNAL"
    BY <1>4 DEF HasType
  <2>2. f \in Fd
    BY <1>3, <2>1 DEF Good, ConnsOK
  <2>3. ctx' = ipc_del_fd(ctx, f) /\ files' = CloseFile(files, f)
    BY <1>2, <1>4
  <2>4. Leaves(ctx, ctx', {f}) /\ {f} \in SUBSET Fd
    BY <1>3, <2>2, <2>3, DelFdLeaves
  <2>5. /\ \A g \in Fd : LessAt(files', files, g)
        /\ \A g \in Fd \ {f} : files'[g] = files[g]
    BY <1>3, <2>2, <2>3, CloseLess
  <2>6. \A g \in Regs(ctx) \ {f} : files'[g].id = files[g].id /\ files'[g].peer = files[g].peer
    BY <2>5 DEF Regs
  <2> QED
    BY <1>2, <2>4, <2>5, <2>6, LeaveStep
<1>5. CASE ~ended /\ files' = files
  BY <1>2, <1>5, PollMaps
<1>6. CASE ~ended /\ event.type = "EXTRA_SOCKET"
  <2>1. ctx' = ctx /\ files' = Drain(files, f)
    BY <1>2, <1>6
  <2>2. CASE f \in Fd
    <3>1. /\ \A g \in Fd : LessAt(files', files, g)
          /\ \A g \in Fd : files'[g].id = files[g].id /\ files'[g].peer = files[g].peer
      BY <1>3, <2>1, <2>2, DrainSmaller
    <3>2. \A g \in Regs(ctx) : files'[g].id = files[g].id /\ files'[g].peer = files[g].peer
      BY <3>1 DEF Regs
    <3>3. SameSeen(ctx, ctx')
      BY <2>1 DEF SameSeen
    <3> QED
      BY <1>2, <3>1, <3>2, <3>3, QuietStep
  <2>3. CASE f = NoFd
    <3>1. Drain(files, f) = files
      BY <1>3, <2>3, FdAssumption DEF Drain, FilesTyped
    <3> QED
      BY <1>2, <2>1, <3>1, PollMaps
  <2> QED
    BY <1>3, <2>2, <2>3
<1> QED
  BY <1>2, <1>4, <1>5, <1>6

-----------------------------------------------------------------------------
(* Steps that take a message out of the list.                              *)

LEMMA DistinctMessages ==
  ASSUME IInv, IdsInv
  PROVE  /\ \A j, k \in 1 .. Len(ctx.tx) : ctx.tx[j].id = ctx.tx[k].id => j = k
         /\ \A e, m \in Entries(ctx.tx) : e.id = m.id => e = m
<1>1. \A j, k \in 1 .. Len(ctx.tx) : ctx.tx[j].id = ctx.tx[k].id => j = k
  BY DEF IdsInv, MsgIds
<1> QED
  BY <1>1 DEF Entries

LEMMA TakenMessage ==
  ASSUME IInv, IdsInv, NEW k \in 1 .. Len(ctx.tx), NEW c,
         c = [ctx EXCEPT !.tx = ipc_messages_del(ctx.tx, k)]
  PROVE  /\ Good(c, files) /\ Regs(c) = Regs(ctx) /\ SubList(c.tx, ctx.tx)
         /\ c.tx = ipc_messages_del(ctx.tx, k)
         /\ Entries(c.tx) = Entries(ctx.tx) \ {ctx.tx[k]} /\ ctx.tx[k] \in Entries(ctx.tx)
<1>1. Good(ctx, files) /\ ctx \in Context /\ ctx.tx \in Seq(Message)
  BY TypedFiles, TxTyped
<1>2. Good(c, files) /\ \A f : Registered(c, f) <=> Registered(ctx, f)
  BY <1>1, GoodMessageDel
<1>3. c.tx = ipc_messages_del(ctx.tx, k)
  BY <1>1 DEF Context
<1>4. SubList(c.tx, ctx.tx) /\ Entries(c.tx) = Entries(ctx.tx) \ {ctx.tx[k]}
  BY <1>1, <1>3, DistinctMessages, EntriesSwap
<1>5. Regs(c) = Regs(ctx)
  BY <1>2 DEF Regs
<1> QED
  BY <1>2, <1>3, <1>4, <1>5 DEF Entries

LEMMA SentMaps ==
  ASSUME IInv, IInv', IdsInv, NEW k \in 1 .. Len(ctx.tx), NEW f \in Fd, ctx.tx[k].fd = f,
         ctx' = [ctx EXCEPT !.tx = ipc_messages_del(ctx.tx, k)],
         sent' = sent \cup {Delivery(ctx.tx[k], f)}, UNCHANGED <<files, nfiles, nmsgs>>
  PROVE  IdsInv' /\ Maps
<1>1. PICK m : m = ctx.tx[k]
  OBVIOUS
<1>2. PICK d : d = Delivery(m, f)
  OBVIOUS
<1>3. Regs(ctx') = Regs(ctx) /\ ctx'.tx = ipc_messages_del(ctx.tx, k)
      /\ Entries(ctx'.tx) = Entries(ctx.tx) \ {m} /\ m \in Entries(ctx.tx)
  BY <1>1, TakenMessage
<1>4. Good(ctx, files) /\ FilesTyped(files) /\ ctx.tx \in Seq(Message)
      /\ m.file = files[f].id
  BY <1>1, <1>3, TypedFiles, TxTyped
<1>5. d.id = m.id /\ d.file = m.file
  BY <1>2, <1>4 DEF Delivery
<1>6. MsgIds(ctx'.tx, files, nmsgs, sent \cup {d})
  BY <1>1, <1>3, <1>4, <1>5, MsgIdsSent DEF IdsInv
<1>7. IdsInv'
  BY <1>1, <1>2, <1>6 DEF IdsInv
<1>8. Maps
  BY <1>1, <1>2, <1>3, <1>5, DistinctMessages, WriteMaps
<1> QED
  BY <1>7, <1>8

(* The message that waits for a writable connection.                       *)
LEMMA WaitingMessage ==
  ASSUME IInv, NEW i \in 1 .. Len(ctx.conns), FirstOut(i)
  PROVE  LET f == ctx.conns[i].fd
             k == FirstFor(ctx.tx, f)
         IN  f \in Fd /\ k \in 1 .. Len(ctx.tx) /\ ctx.tx[k].fd = f
<1>1. PICK f : f = ctx.conns[i].fd
  OBVIOUS
<1>2. Good(ctx, files) /\ f \in Fd /\ HasMessage(ctx.tx, f)
  BY <1>1, FirstFacts DEF FirstOut, FlagsOK
<1>3. FirstFor(ctx.tx, f) \in 1 .. Len(ctx.tx) /\ ctx.tx[FirstFor(ctx.tx, f)].fd = f
  BY <1>2, TxTyped, FirstForFacts
<1> QED
  BY <1>1, <1>2, <1>3

LEMMA WritingMessageMaps ==
  ASSUME IInv, IInv', IdsInv, NEW i \in 1 .. Len(ctx.conns), handle_writing_message(i)
  PROVE  IdsInv' /\ Maps
<1>1. PICK f : f = ctx.conns[i].fd
  OBVIOUS
<1>2. PICK k : k = FirstFor(ctx.tx, f)
  OBVIOUS
<1>3. FirstOut(i) /\ ctx' = [ctx EXCEPT !.tx = ipc_messages_del(ctx.tx, k)]
      /\ sent' = (IF Sends(f) THEN sent \cup {Delivery(ctx.tx[k], f)} ELSE sent)
      /\ UNCHANGED <<files, nfiles, nmsgs>>
  BY <1>1, <1>2 DEF handle_writing_message
<1>4. f \in Fd /\ k \in 1 .. Len(ctx.tx) /\ ctx.tx[k].fd = f
  BY <1>1, <1>2, <1>3, WaitingMessage
<1>5. CASE Sends(f)
  BY <1>3, <1>4, <1>5, SentMaps
<1>6. CASE ~Sends(f)
  <2>1. Regs(ctx') = Regs(ctx) /\ SubList(ctx'.tx, ctx.tx)
        /\ Entries(ctx'.tx) = Entries(ctx.tx) \ {ctx.tx[k]} /\ ctx.tx[k] \in Entries(ctx.tx)
    BY <1>3, <1>4, TakenMessage
  <2>2. FilesTyped(files') /\ RxStep(files', files) /\ IdLess(files', files)
    BY <1>3, TypedFiles, SameFiles, LessFiles
  <2>3. sent' = sent
    BY <1>3, <1>6
  <2>4. IdsInv'
    BY <1>3, <2>1, <2>2, <2>3, IdsShrink
  <2>5. PICK M : M = {ctx.tx[k]}
    OBVIOUS
  <2>6. M \in SUBSET Entries(ctx.tx) /\ Entries(ctx'.tx) = Entries(ctx.tx) \ M
        /\ \A m \in M : files[m.fd].peer # "up"
    BY <1>4, <1>6, <2>1, <2>5 DEF Sends
  <2>7. Maps
    BY <1>3, <2>1, <2>3, <2>6, DistinctMessages, DropMaps
  <2> QED
    BY <2>4, <2>7
<1> QED
  BY <1>5, <1>6

LEMMA SwitchingWriteMaps ==
  ASSUME IInv, IInv', IdsInv, NEW i \in 1 .. Len(ctx.conns), fd_switching_write(i)
  PROVE  IdsInv' /\ Maps
<1>1. PICK f : f = ctx.conns[i].fd
  OBVIOUS
<1>2. PICK k : k = FirstFor(ctx.tx, f)
  OBVIOUS
<1>3. PICK c : c = [ctx EXCEPT !.tx = ipc_messages_del(ctx.tx, k)]
  OBVIOUS
<1>4. PICK h : h = OtherEnd(ipc_switching_get_(ctx.switchdb, f), f)
  OBVIOUS
<1>5. FirstOut(i) /\ UNCHANGED <<nfiles, nmsgs>>
  BY DEF fd_switching_write
<1>6. f \in Fd /\ k \in 1 .. Len(ctx.tx) /\ ctx.tx[k].fd = f
  BY <1>1, <1>2, <1>5, WaitingMessage
<1>7. CASE UNCHANGED <<ctx, files, sent>>
  BY <1>5, <1>7, PollMaps
<1>8. CASE ctx' = c /\ sent' = sent \cup {Delivery(ctx.tx[k], f)} /\ UNCHANGED files
  BY <1>3, <1>5, <1>6, <1>8, SentMaps
<1>9. CASE HasRecord(ctx.switchdb, f) /\ UNCHANGED sent
           /\ ctx' = ipc_del_fd(ipc_del_fd(ipc_ctx_switching_del(c, f), h), f)
           /\ files' = CloseFile(CloseFile(files, h), f)
  <2>1. Good(c, files) /\ Regs(c) = Regs(ctx) /\ SubList(c.tx, ctx.tx)
        /\ Entries(c.tx) = Entries(ctx.tx) \ {ctx.tx[k]}
    BY <1>3, <1>6, TakenMessage
  <2>2. PICK d : d = ipc_ctx_switching_del(c, f)
    OBVIOUS
  <2>3. Good(d, files) /\ SameSeen(c, d)
    BY <2>1, <2>2, GoodSwitchingDel, SwitchingDelSame
  <2>4. Regs(d) = Regs(ctx) /\ SubList(d.tx, ctx.tx)
        /\ Entries(d.tx) = Entries(ctx.tx) \ {ctx.tx[k]}
    BY <2>1, <2>3 DEF SameSeen
  <2>5. h \in Fd
    BY <1>4, <1>6, <1>9, TypedFiles, ContextFields, RecordFacts DEF Good
  <2>6. /\ \A m \in Entries(d.tx) : m \in Entries(ctx.tx)
        /\ \A m \in Entries(ctx.tx) : m \in Entries(d.tx) \/ m.fd = f
    BY <1>6, <2>4
  <2> QED
    BY <1>5, <1>6, <1>9, <2>2, <2>3, <2>4, <2>5, <2>6, EndPairMaps
<1> QED
  BY <1>1, <1>2, <1>3, <1>4, <1>7, <1>8, <1>9 DEF fd_switching_write

LEMMA HangUpMaps ==
  ASSUME IInv, IInv', HupInv, IdsInv, NEW i \in 1 .. Len(ctx.conns), HangUp(i)
  PROVE  IdsInv' /\ Maps
<1>1. PICK f : f = ctx.conns[i].fd
  OBVIOUS
<1>2. First(i) /\ "IN" \notin revents[i] /\ "HUP" \in revents[i]
      /\ ctx' = ipc_close(ctx, f)
      /\ files' = (IF Closes(ctx, i) THEN CloseFile(files, f) ELSE files)
      /\ UNCHANGED <<nfiles, nmsgs, sent>>
  BY <1>1 DEF HangUp
<1>3. Good(ctx, files) /\ ctx.conns[i].type = "EXTERNAL"
  BY <1>2, FirstFacts DEF FlagsOK
<1>4. files' = files
  BY <1>2, <1>3 DEF Closes
<1>5. files[f].peer # "up"
  BY <1>1, <1>2 DEF HupInv, First
<1>6. Regs(ctx') = Regs(ctx) /\ SubList(ctx'.tx, ctx.tx)
      /\ Entries(ctx'.tx) = {m \in Entries(ctx.tx) : m.fd \notin {f}}
  BY <1>2, <1>3, CloseKeeps
<1>7. FilesTyped(files') /\ RxStep(files', files) /\ IdLess(files', files)
  BY <1>4, TypedFiles, SameFiles, LessFiles
<1>8. IdsInv'
  BY <1>2, <1>6, <1>7, IdsShrink
<1>9. PICK M : M = {m \in Entries(ctx.tx) : m.fd = f}
  OBVIOUS
<1>10. M \in SUBSET Entries(ctx.tx) /\ Entries(ctx'.tx) = Entries(ctx.tx) \ M
       /\ \A m \in M : files[m.fd].peer # "up"
  BY <1>5, <1>6, <1>9
<1>11. Maps
  BY <1>2, <1>4, <1>6, <1>10, DistinctMessages, DropMaps
<1> QED
  BY <1>8, <1>11

-----------------------------------------------------------------------------
(* Steps that use a new identity, or one that was in a queue.              *)

LEMMA ScheduledMaps ==
  ASSUME IInv, IInv', NEW m \in Message, Registered(ctx, m.fd), m.file = files[m.fd].id,
         NEW c, Good(c, files), SameSeen(ctx, c), ctx' = ipc_write(c, m),
         \A f \in Regs(ctx) : files'[f].id = files[f].id /\ files'[f].peer = files[f].peer,
         NEW n \in Nat, MsgIds(ctx.tx, files', n, sent), Absent(m.id, ctx.tx, files', sent),
         m.id <= n, sent' = sent
  PROVE  MsgIds(ctx'.tx, files', n, sent) /\ Maps
<1>1. m.fd \in Regs(ctx) /\ Registered(c, m.fd)
  <2>1. m.fd \in Regs(ctx)
    BY DEF Message, Regs
  <2> QED
    BY <2>1 DEF SameSeen, Regs
<1>2. PICK e \in Message :
        /\ e.fd = m.fd /\ e.file = m.file /\ e.id = m.id
        /\ Regs(ctx') = Regs(c) /\ ctx'.tx = Append(c.tx, e)
        /\ Entries(ctx'.tx) = Entries(c.tx) \cup {e}
  BY <1>1, WriteSeen, ZenonT(30)
<1>3. Regs(ctx') = Regs(ctx) /\ ctx'.tx = Append(ctx.tx, e)
      /\ Entries(ctx'.tx) = Entries(ctx.tx) \cup {e}
  BY <1>2 DEF SameSeen
<1>4. ctx.tx \in Seq(Message)
  BY TypedFiles, TxTyped
<1>5. MsgIds(ctx'.tx, files', n, sent)
  BY <1>2, <1>3, <1>4, MsgIdsAdd
<1>6. (\A x \in Entries(ctx.tx) : x.id # e.id) /\ (\A d \in sent : d.id # e.id)
  BY <1>2 DEF Absent, Entries
<1>7. e.fd \in Regs(ctx) /\ e.file = files[e.fd].id
  BY <1>1, <1>2
<1>8. Maps
  BY <1>3, <1>6, <1>7, ScheduleMaps
<1> QED
  BY <1>5, <1>8

LEMMA WriteCallMaps ==
  ASSUME IInv, IInv', IdsInv, NEW f \in Fd, NEW kind \in Payload, Write(f, kind)
  PROVE  IdsInv' /\ Maps
<1>1. PICK m : m = [fd |-> f, file |-> files[f].id, id |-> nmsgs + 1, kind |-> kind]
  OBVIOUS
<1>2. Good(ctx, files) /\ FilesTyped(files) /\ nmsgs \in Nat /\ nmsgs + 1 \in Nat
      /\ \A d \in sent : d.id \in Nat
  BY TypedFiles
<1>3. kind \in Kinds /\ files[f].id \in Nat
  BY <1>2, PayloadAssumption, FileFields DEF Kinds
<1>4. m \in Message /\ m.fd = f /\ m.file = files[m.fd].id /\ m.id = nmsgs + 1
  BY <1>1, <1>2, <1>3 DEF Message
<1>5. Registered(ctx, f) /\ ctx' = ipc_write(ctx, m) /\ nmsgs' = nmsgs + 1
      /\ UNCHANGED <<files, nfiles, sent>>
  BY <1>1 DEF Write
<1>6. MsgIds(ctx.tx, files, nmsgs + 1, sent) /\ Absent(nmsgs + 1, ctx.tx, files, sent)
  BY <1>2, TxTyped, MsgIdsGrow DEF IdsInv
<1>7. SameSeen(ctx, ctx)
  BY DEF SameSeen
<1>8. m.id <= nmsgs + 1
  BY <1>2, <1>4
<1>9. MsgIds(ctx.tx, files', nmsgs + 1, sent) /\ Absent(m.id, ctx.tx, files', sent)
      /\ Registered(ctx, m.fd)
  BY <1>4, <1>5, <1>6
<1>10. \A g \in Regs(ctx) : files'[g].id = files[g].id /\ files'[g].peer = files[g].peer
  BY <1>5
<1>11. PICK n \in Nat : n = nmsgs + 1
  BY <1>2
<1>12. MsgIds(ctx'.tx, files', n, sent) /\ Maps
  <2>1. m.id <= n /\ MsgIds(ctx.tx, files', n, sent) /\ sent' = sent
    BY <1>5, <1>8, <1>9, <1>11
  <2> QED
    BY <1>2, <1>4, <1>5, <1>7, <1>9, <1>10, <2>1, ScheduledMaps
<1>13. IdsInv'
  BY <1>5, <1>11, <1>12 DEF IdsInv
<1> QED
  BY <1>12, <1>13

(* What the callback leaves of the input: less than there was, and not the *)
(* message it gives.                                                       *)
LEMMA InResultsLess ==
  ASSUME NEW x \in File(Body), NEW cb, NEW in \in InResults(cb, x)
  PROVE  in.rx = <<>> \/ (x.rx # <<>> /\ in.rx = Tail(x.rx))
<1>1. CASE cb = Null
  BY <1>1 DEF InResults
<1>2. CASE cb # Null /\ x.rx = <<>>
  BY <1>2 DEF InResults
<1>3. CASE cb # Null /\ x.rx # <<>>
  BY <1>3 DEF InResults
<1> QED
  BY <1>1, <1>2, <1>3

LEMMA SwitchingReadMaps ==
  ASSUME IInv, IInv', IdsInv, NEW i \in 1 .. Len(ctx.conns), fd_switching_read(i)
  PROVE  IdsInv' /\ Maps
<1>1. PICK f : f = ctx.conns[i].fd
  OBVIOUS
<1>2. PICK sw : sw = ipc_switching_get_(ctx.switchdb, f)
  OBVIOUS
<1>3. PICK to : to = OtherEnd(sw, f)
  OBVIOUS
<1>4. PICK x : x = files[f]
  OBVIOUS
<1>5. PICK m : m = [fd |-> to, file |-> files[to].id, id |-> x.rx[1].id, kind |-> x.rx[1].kind]
  OBVIOUS
<1>6. First(i) /\ ctx.conns[i].type = "SWITCHED" /\ UNCHANGED <<nfiles, nmsgs, sent>>
  BY DEF fd_switching_read, FirstIn
<1>7. Good(ctx, files) /\ FilesOK(files) /\ f \in Fd /\ x.sort = "sock"
  BY <1>1, <1>4, <1>6, FirstFacts DEF Matches
<1>8. FilesTyped(files) /\ nmsgs \in Nat
  BY TypedFiles
<1>9. x \in File(Body) /\ x.rx \in Seq(Body) /\ \A b \in 1 .. Len(x.rx) : x.rx[b].kind \in Kinds
  BY <1>4, <1>7 DEF FilesOK, File
<1>10. CASE ctx' = MoreToRead(ctx, i, FALSE) /\ UNCHANGED files
  <2>1. SameSeen(ctx, ctx')
    BY <1>7, <1>10, MoreSame
  <2> QED
    BY <1>6, <1>10, <2>1, SameFiles, QuietStep
<1>11. ASSUME HasRecord(ctx.switchdb, f),
              NEW in \in InResults(InCallback(sw, f), x),
              files' = [files EXCEPT ![f].rx = in.rx],
              \/ in.r = "NO_ERROR" /\ ctx' = ipc_write(MoreToRead(ctx, i, in.more), m)
              \/ ctx' = MoreToRead(ctx, i, in.more)
              \/ ctx' = ipc_ctx_switching_del(
                     ipc_del_fd(ipc_del_fd(MoreToRead(ctx, i, in.more), sw.dest), f), f)
       PROVE  IdsInv' /\ Maps
  <2>1. in.more \in BOOLEAN /\ in.rx \in Seq(Body) /\ (in.r = "NO_ERROR" => x.rx # <<>>)
    BY <1>9, InResultsFacts
  <2>2. in.rx = <<>> \/ (x.rx # <<>> /\ in.rx = Tail(x.rx))
    BY <1>9, InResultsLess
  <2>3. PICK rx : rx = in.rx
    OBVIOUS
  <2>4. files' = WithRx(files, f, rx)
    BY <1>11, <2>3 DEF WithRx
  <2>5. /\ \A g \in Fd : LessAt(files', files, g)
        /\ \A g \in Fd : files'[g].id = files[g].id /\ files'[g].peer = files[g].peer
    BY <1>4, <1>7, <1>8, <2>1, <2>2, <2>3, <2>4, RxSmaller, ZenonT(30)
  <2>6. \A g \in Regs(ctx) : files'[g].id = files[g].id /\ files'[g].peer = files[g].peer
    BY <2>5 DEF Regs
  <2>7. PICK c : c = MoreToRead(ctx, i, in.more)
    OBVIOUS
  <2>8. Good(c, files) /\ SameSeen(ctx, c) /\ c.switchdb = ctx.switchdb
    BY <1>6, <1>7, <2>1, <2>7, GoodMore, MoreSame
  <2>9. sw.dest \in Fd /\ to \in Fd
    BY <1>2, <1>3, <1>7, <1>11, ContextFields, RecordFacts DEF Good
  <2>10. CASE ctx' = c
    BY <1>6, <2>5, <2>6, <2>8, <2>10, QuietStep
  <2>11. CASE in.r = "NO_ERROR" /\ ctx' = ipc_write(c, m)
    <3>1. x.rx # <<>> /\ x.rx[1] \in Body /\ x.rx[1].kind \in Kinds
      BY <1>9, <2>1, <2>11, TailFacts
    <3>2. files[to].id \in Nat /\ x.rx[1].id \in Nat
      BY <1>8, <2>9, <3>1, FileFields DEF Body
    <3>3. m \in Message /\ m.fd = to /\ m.file = files[m.fd].id /\ m.id = x.rx[1].id
      BY <1>5, <2>9, <3>1, <3>2 DEF Message
    <3>4. CASE ~Registered(ctx, to)
      <4>1. ~Registered(c, to)
        BY <2>8, <2>9, <3>4 DEF SameSeen, Regs
      <4>2. ctx' = c
        BY <2>11, <3>3, <4>1 DEF ipc_write
      <4> QED
        BY <2>10, <4>2
    <3>5. CASE Registered(ctx, to)
      <4>1. f \in Queue(files, "messages") /\ files[f].rx # <<>>
        BY <1>4, <1>7, <3>1 DEF Queue
      <4>2. /\ files'[f].rx = <<>> \/ files'[f].rx = Tail(files[f].rx)
            /\ \A g \in Fd : files'[g].sort = files[g].sort /\ (g # f => files'[g].rx = files[g].rx)
            /\ FilesTyped(files')
        <5>1. /\ FilesTyped(files') /\ files'[f].rx = rx
              /\ \A g \in Fd : files'[g].sort = files[g].sort
              /\ \A g \in Fd \ {f} : files'[g] = files[g]
          BY <1>7, <1>8, <2>1, <2>3, <2>4, RxFields
        <5> QED
          BY <1>4, <2>2, <2>3, <5>1
      <4>3. MsgIds(ctx.tx, files, nmsgs, sent)
        BY DEF IdsInv
      <4>4. Absent(m.id, ctx.tx, files', sent)
        BY <1>4, <1>8, <3>3, <4>1, <4>2, <4>3, MsgIdsTake
      <4>5. m.id <= nmsgs
        <5>1. 1 \in 1 .. Len(files[f].rx)
          BY <1>4, <1>9, <3>1, TailFacts
        <5> QED
          BY <1>4, <3>3, <4>1, <4>3, <5>1 DEF MsgIds
      <4>6. RxStep(files', files) /\ IdLess(files', files)
        BY <2>5, LessFiles
      <4>7. RxLess(files', files, "messages") /\ RxLess(files', files, "requests")
        BY <1>8, <4>6, RxLessStep
      <4>8. MsgIds(ctx.tx, files', nmsgs, sent)
        BY <1>7, <4>2, <4>3, <4>7, TxTyped, SubListSame, MsgIdsLess
      <4>9. FileIds(files', nfiles)
        BY <4>2, <4>6, <4>7, TypedFiles, FileIdsLess DEF IdsInv
      <4>10. MsgIds(ctx'.tx, files', nmsgs, sent) /\ Maps
        <5>1. PICK n \in Nat : n = nmsgs
          BY <1>8
        <5>2. MsgIds(ctx.tx, files', n, sent) /\ m.id <= n /\ sent' = sent
              /\ Registered(ctx, m.fd)
          BY <1>6, <3>3, <3>5, <4>5, <4>8, <5>1
        <5>3. MsgIds(ctx'.tx, files', n, sent) /\ Maps
          BY <2>6, <2>8, <2>11, <3>3, <4>4, <5>2, ScheduledMaps
        <5> QED
          BY <5>1, <5>3
      <4> QED
        BY <1>6, <4>9, <4>10 DEF IdsInv
    <3> QED
      BY <3>4, <3>5
  <2>12. CASE ctx' = ipc_ctx_switching_del(ipc_del_fd(ipc_del_fd(c, sw.dest), f), f)
    <3>1. PICK d : d = ipc_del_fd(ipc_del_fd(c, sw.dest), f)
      OBVIOUS
    <3>2. PICK h \in Fd : h = sw.dest
      BY <2>9
    <3>3. Good(d, files) /\ Leaves(c, d, {h, f})
      BY <1>7, <2>8, <3>1, <3>2, EndPair, PairLeaves
    <3>4. SameSeen(d, ctx')
      BY <2>12, <3>1, <3>3, SwitchingDelSame
    <3>5. Leaves(ctx, ctx', {h, f}) /\ {h, f} \in SUBSET Fd
      BY <1>7, <2>8, <3>3, <3>4 DEF Leaves, SameSeen
    <3> QED
      BY <1>6, <2>5, <2>6, <3>5, LeaveStep
  <2> QED
    BY <1>11, <2>7, <2>10, <2>11, <2>12
<1> QED
  BY <1>1, <1>2, <1>3, <1>4, <1>5, <1>10, <1>11 DEF fd_switching_read

(* One more file is opened, with the next identity.                        *)
LEMMA OpenOne ==
  ASSUME NEW F, NEW G, NEW n \in Nat, FilesTyped(F), FileIds(F, n),
         NEW f \in Fd, ~IsOpen(F, f), NEW sort \in Sorts, G = OpenFile(F, f, n + 1, sort)
  PROVE  /\ FilesTyped(G) /\ FileIds(G, n + 1) /\ RxStep(G, F)
         /\ \A g \in Fd : IsOpen(F, g) => F[g].id # n + 1
         /\ G[f].id = n + 1 /\ G[f].peer = "up" /\ IsOpen(G, f)
         /\ \A g \in Fd \ {f} : G[g] = F[g]
<1>1. /\ FilesTyped(G)
      /\ G[f].id = n + 1 /\ G[f].sort = sort /\ G[f].rx = <<>> /\ G[f].peer = "up"
      /\ \A g \in Fd \ {f} : G[g] = F[g]
  BY OpenFields
<1>2. FileIds(F, n + 1) /\ AbsentFile(n + 1, F) /\ n + 1 \in Nat
  BY FileIdsGrow
<1>3. RxStep(G, F)
  BY <1>1 DEF RxStep, RxStepAt
<1>4. RxLess(G, F, "requests")
  BY <1>3, RxLessStep
<1>5. \A g \in Fd : IsOpen(F, g) => F[g].id # G[f].id
  BY <1>1, <1>2 DEF AbsentFile
<1>6. ASSUME NEW g \in Queue(G, "requests"), NEW b \in 1 .. Len(G[g].rx)
      PROVE  G[g].rx[b].id # G[f].id
  <2>1. G[g].rx # <<>> /\ g \in Fd
    BY DEF Queue
  <2>2. g # f /\ G[g] = F[g]
    BY <1>1, <2>1
  <2>3. g \in Queue(F, "requests") /\ b \in 1 .. Len(F[g].rx)
    BY <2>2 DEF Queue
  <2> QED
    BY <1>1, <1>2, <2>2, <2>3 DEF AbsentFile
<1>7. \A g \in Fd \ {f} : G[g].id = F[g].id /\ (IsOpen(G, g) <=> IsOpen(F, g))
  BY <1>1 DEF IsOpen
<1>8. G[f].id <= n + 1
  BY <1>1, <1>2
<1>9. PICK p \in Nat : p = n + 1
  BY <1>2
<1>10. FileIds(G, p)
  BY <1>1, <1>2, <1>4, <1>5, <1>6, <1>7, <1>8, <1>9, FileIdsOpen
<1>11. IsOpen(G, f)
  BY <1>1 DEF Sorts, IsOpen
<1> QED
  BY <1>1, <1>3, <1>5, <1>9, <1>10, <1>11

(* The messages do not see that files are opened.                          *)
LEMMA OpenMsgIds ==
  ASSUME IInv, IInv', IdsInv, RxStep(files', files), ctx'.tx = ctx.tx, UNCHANGED <<nmsgs, sent>>
  PROVE  MsgIds(ctx.tx, files, nmsgs, sent)'
<1>1. FilesTyped(files) /\ FilesTyped(files') /\ ctx.tx \in Seq(Message)
  BY TypedFiles, TypedFilesNext, TxTyped
<1>2. RxLess(files', files, "messages") /\ SubList(ctx.tx, ctx.tx)
  BY <1>1, RxLessStep, SubListSame
<1>3. MsgIds(ctx.tx, files', nmsgs, sent)
  BY <1>1, <1>2, MsgIdsLess DEF IdsInv
<1> QED
  BY <1>3

LEMMA OpenCallMaps ==
  ASSUME IInv, IInv', IdsInv, NEW f \in Free(files), NEW type \in ConnType, NEW sort \in Sorts,
         ctx' = ipc_add_fd_(ctx, f, type), files' = OpenFile(files, f, Fresh, sort),
         nfiles' = Fresh, UNCHANGED <<nmsgs, sent>>
  PROVE  IdsInv' /\ Maps
<1>1. Good(ctx, files) /\ FilesTyped(files) /\ nfiles \in Nat
  BY TypedFiles
<1>2. f \in Fd /\ ~IsOpen(files, f)
  BY <1>1 DEF Free, FilesTyped
<1>3. /\ FileIds(files', nfiles + 1) /\ RxStep(files', files)
      /\ \A g \in Fd : IsOpen(files, g) => files[g].id # nfiles + 1
      /\ files'[f].id = nfiles + 1 /\ files'[f].peer = "up"
      /\ \A g \in Fd \ {f} : files'[g] = files[g]
  <2>1. FileIds(files, nfiles) /\ files' = OpenFile(files, f, nfiles + 1, sort)
    BY DEF IdsInv, Fresh
  <2>2. PICK n \in Nat : n = nfiles
    BY <1>1
  <2>3. PICK G : G = files'
    OBVIOUS
  <2>4. FileIds(files, n) /\ G = OpenFile(files, f, n + 1, sort)
    BY <2>1, <2>2, <2>3
  <2>5. /\ FileIds(G, n + 1) /\ RxStep(G, files)
        /\ \A g \in Fd : IsOpen(files, g) => files[g].id # n + 1
        /\ G[f].id = n + 1 /\ G[f].peer = "up"
        /\ \A g \in Fd \ {f} : G[g] = files[g]
    BY <1>1, <1>2, <2>4, OpenOne
  <2> QED
    BY <2>2, <2>3, <2>5
<1>4. Regs(ctx') = Regs(ctx) \cup {f} /\ ctx'.tx = ctx.tx
  BY <1>1, <1>2, AddSeen DEF Good
<1>5. IdsInv'
  BY <1>3, <1>4, OpenMsgIds DEF IdsInv, Fresh
<1>6. \A g \in Regs(ctx) : g \in Fd /\ IsOpen(files, g)
  BY <1>1, RegsFacts DEF IdsInv
<1>7. PICK K \in SUBSET Fd : K = {f}
  BY <1>2
<1>8. /\ K # {} /\ Regs(ctx') = Regs(ctx) \cup K
      /\ \A g \in Regs(ctx) : files'[g].id = files[g].id /\ files'[g].peer = files[g].peer
      /\ \A g \in K : files'[g].peer = "up"
      /\ \A g \in K : \A h \in Regs(ctx) : files[h].id # files'[g].id
      /\ Entries(ctx'.tx) = Entries(ctx.tx)
  BY <1>2, <1>3, <1>4, <1>6, <1>7
<1>9. Maps
  BY <1>8, OpenMaps
<1> QED
  BY <1>5, <1>9

LEMMA OpenCallsMaps ==
  ASSUME IInv, IInv', IdsInv, NEW f \in Fd, ServerInit(f) \/ Connect(f) \/ AddFd(f)
  PROVE  IdsInv' /\ Maps
<1>1. {"SERVER", "IPC", "EXTERNAL"} \subseteq ConnType /\ {"listen", "sock", "ext"} \subseteq Sorts
  BY DEF ConnType, Sorts
<1>2. CASE ServerInit(f)
  BY <1>1, <1>2, OpenCallMaps DEF ServerInit
<1>3. CASE Connect(f)
  BY <1>1, <1>3, OpenCallMaps DEF Connect
<1>4. CASE AddFd(f)
  BY <1>1, <1>4, OpenCallMaps DEF AddFd
<1> QED
  BY <1>2, <1>3, <1>4

(* A client and its service.                                               *)
LEMMA ConnectSwitchedMaps ==
  ASSUME IInv, IInv', IdsInv, NEW c \in Fd, NEW s \in Fd, ConnectSwitched(c, s)
  PROVE  IdsInv' /\ Maps
<1>1. PICK d : d = ipc_add_fd_(ctx, s, "SWITCHED")
  OBVIOUS
<1>2. PICK e : e = ipc_add_fd_(d, c, "SWITCHED")
  OBVIOUS
<1>3. PICK G : G = OpenFile(files, c, nfiles + 1, "sock")
  OBVIOUS
<1>4. /\ c \in Free(files) /\ s \in Free(files) \ {c}
      /\ ctx' = ipc_ctx_switching_add(e, c, s)
      /\ files' = OpenFile(G, s, (nfiles + 1) + 1, "sock")
      /\ nfiles' = nfiles + 2 /\ UNCHANGED <<nmsgs, sent>>
  BY <1>1, <1>2, <1>3 DEF ConnectSwitched, Fresh
<1>5. Good(ctx, files) /\ ctx \in Context /\ FilesTyped(files) /\ nfiles \in Nat
  BY TypedFiles DEF Good
<1>6. "SWITCHED" \in ConnType /\ "sock" \in Sorts
  BY DEF ConnType, Sorts
<1>7. Regs(d) = Regs(ctx) \cup {s} /\ d.tx = ctx.tx /\ d \in Context
  BY <1>1, <1>5, <1>6, AddSeen
<1>8. Regs(e) = Regs(d) \cup {c} /\ e.tx = d.tx /\ e \in Context
  BY <1>2, <1>6, <1>7, AddSeen
<1>9. Regs(ctx') = Regs(ctx) \cup {c, s} /\ ctx'.tx = ctx.tx
  <2>1. ctx'.conns = e.conns /\ ctx'.tx = e.tx
    BY <1>4, <1>8 DEF ipc_ctx_switching_add, Context
  <2>2. Regs(ctx') = Regs(e)
    BY <2>1 DEF Regs, Registered
  <2> QED
    BY <1>7, <1>8, <2>1, <2>2
<1>10. ~IsOpen(files, c) /\ ~IsOpen(files, s) /\ s # c
  BY <1>4 DEF Free
<1>11. PICK n \in Nat : n = nfiles
  BY <1>5
<1>12. FileIds(files, n)
  BY <1>11 DEF IdsInv
<1>13. /\ FilesTyped(G) /\ FileIds(G, n + 1) /\ RxStep(G, files)
       /\ \A g \in Fd : IsOpen(files, g) => files[g].id # n + 1
       /\ G[c].id = n + 1 /\ G[c].peer = "up" /\ IsOpen(G, c)
       /\ \A g \in Fd \ {c} : G[g] = files[g]
  BY <1>3, <1>5, <1>6, <1>10, <1>11, <1>12, OpenOne
<1>14. ~IsOpen(G, s)
  BY <1>10, <1>13 DEF IsOpen
<1>15. PICK H : H = files'
  OBVIOUS
<1>16. PICK p \in Nat : p = n + 1
  OBVIOUS
<1>17. FileIds(G, p) /\ H = OpenFile(G, s, p + 1, "sock")
  BY <1>4, <1>11, <1>13, <1>15, <1>16
<1>18. /\ FileIds(H, p + 1) /\ RxStep(H, G)
       /\ \A g \in Fd : IsOpen(G, g) => G[g].id # p + 1
       /\ H[s].id = p + 1 /\ H[s].peer = "up"
       /\ \A g \in Fd \ {s} : H[g] = G[g]
  BY <1>6, <1>13, <1>14, <1>16, <1>17, OpenOne
<1>19. RxStep(files', files)
  <2>1. \A g \in Fd \ {s} : RxStepAt(H, files, g)
    <3>1. \A g \in Fd \ {s} : RxStepAt(G, files, g) /\ H[g] = G[g]
      BY <1>13, <1>18 DEF RxStep
    <3> QED
      BY <3>1 DEF RxStepAt
  <2>2. RxStepAt(H, files, s)
    <3>1. RxStepAt(H, G, s) /\ G[s] = files[s]
      BY <1>10, <1>13, <1>18 DEF RxStep
    <3> QED
      BY <3>1 DEF RxStepAt
  <2> QED
    BY <1>15, <2>1, <2>2 DEF RxStep
<1>20. IdsInv'
  <2>1. nfiles' = p + 1
    BY <1>4, <1>5, <1>11, <1>16
  <2>2. FileIds(files, nfiles)'
    BY <1>15, <1>18, <2>1
  <2> QED
    BY <1>4, <1>9, <1>19, <2>2, OpenMsgIds DEF IdsInv
<1>21. \A g \in Regs(ctx) : g \in Fd /\ IsOpen(files, g)
  BY <1>5, RegsFacts DEF IdsInv
<1>22. PICK K \in SUBSET Fd : K = {c, s}
  OBVIOUS
<1>23. ASSUME NEW h \in Regs(ctx)
       PROVE  /\ H[h] = files[h]
              /\ files[h].id # H[c].id /\ files[h].id # H[s].id
  <2>1. h \in Fd /\ h # c /\ h # s /\ IsOpen(files, h)
    BY <1>10, <1>21
  <2>2. G[h] = files[h] /\ H[h] = G[h] /\ IsOpen(G, h)
    BY <1>13, <1>18, <2>1 DEF IsOpen
  <2>3. H[c] = G[c]
    BY <1>10, <1>18
  <2> QED
    BY <1>13, <1>18, <2>1, <2>2, <2>3
<1>24. H[c].peer = "up" /\ H[s].peer = "up"
  BY <1>10, <1>13, <1>18
<1>25. /\ K # {} /\ Regs(ctx') = Regs(ctx) \cup K
       /\ \A g \in Regs(ctx) : files'[g].id = files[g].id /\ files'[g].peer = files[g].peer
       /\ \A g \in K : files'[g].peer = "up"
       /\ \A g \in K : \A h \in Regs(ctx) : files[h].id # files'[g].id
       /\ Entries(ctx'.tx) = Entries(ctx.tx)
  BY <1>9, <1>15, <1>22, <1>23, <1>24
<1>26. Maps
  BY <1>4, <1>25, OpenMaps
<1> QED
  BY <1>20, <1>26

LEMMA AcceptMaps ==
  ASSUME IInv, IInv', IdsInv, NEW i \in 1 .. Len(ctx.conns), ipc_accept_add(i)
  PROVE  IdsInv' /\ Maps
<1>1. PICK s : s = ctx.conns[i].fd
  OBVIOUS
<1>2. First(i) /\ ctx.conns[i].type = "SERVER"
      /\ ("IN" \in revents[i] \/ ctx.conns[i].more_to_read)
      /\ UNCHANGED <<nfiles, nmsgs, sent>>
  BY DEF ipc_accept_add, FirstIn
<1>3. s \in Fd /\ files[s].sort = "listen" /\ files[s].rx # <<>>
  BY <1>1, <1>2, FirstFacts DEF Matches, FlagsOK
<1>4. Good(ctx, files) /\ ctx \in Context /\ FilesTyped(files) /\ nfiles \in Nat
  BY TypedFiles DEF Good
<1>5. "IPC" \in ConnType /\ "sock" \in Sorts
  BY DEF ConnType, Sorts
<1>6. CASE ctx' = ipc_add_fd_(ctx, NoFd, "IPC") /\ UNCHANGED files
  <2>1. PICK c : c = ctx'
    OBVIOUS
  <2>2. NoFd \in Fd \cup {NoFd}
    OBVIOUS
  <2>3. Regs(c) = Regs(ctx) \cup ({NoFd} \cap Fd) /\ c.tx = ctx.tx
    BY <1>4, <1>5, <1>6, <2>1, <2>2, AddSeen
  <2>4. {NoFd} \cap Fd = {}
    BY FdAssumption
  <2>5. SameSeen(ctx, ctx')
    BY <2>1, <2>3, <2>4 DEF SameSeen
  <2> QED
    BY <1>2, <1>6, <2>5, SameFiles, QuietStep
<1>7. ASSUME NEW f \in Free(files), ctx' = ipc_add_fd_(ctx, f, "IPC"),
             files' = [OpenFile(files, f, files[s].rx[1].id, "sock") EXCEPT ![s].rx = Tail(@)]
      PROVE  IdsInv' /\ Maps
  <2>1. PICK id : id = files[s].rx[1].id
    OBVIOUS
  <2>2. PICK G : G = OpenFile(files, f, id, "sock")
    OBVIOUS
  <2>3. f \in Fd /\ ~IsOpen(files, f) /\ f # s
    BY <1>3, <1>4 DEF Free, FilesTyped, IsOpen
  <2>4. files[s].rx \in Seq(Body) /\ 1 \in 1 .. Len(files[s].rx)
        /\ Tail(files[s].rx) \in Seq(Body) /\ id \in Nat
    BY <1>3, <1>4, <2>1, FileFields, TailFacts
  <2>5. /\ FilesTyped(G)
        /\ G[f].id = id /\ G[f].sort = "sock" /\ G[f].rx = <<>> /\ G[f].peer = "up"
        /\ \A g \in Fd \ {f} : G[g] = files[g]
    BY <1>4, <1>5, <2>2, <2>3, <2>4, OpenFields
  <2>6. files' = WithRx(G, s, Tail(files[s].rx))
    BY <1>3, <1>7, <2>1, <2>2, <2>3, <2>5 DEF WithRx, FilesTyped
  <2>7. PICK H : H = files'
    OBVIOUS
  <2>8. /\ FilesTyped(H) /\ H[s].rx = Tail(files[s].rx)
        /\ \A g \in Fd : H[g].id = G[g].id /\ H[g].sort = G[g].sort /\ H[g].peer = G[g].peer
        /\ \A g \in Fd \ {s} : H[g] = G[g]
    <3>1. PICK rx \in Seq(Body) : rx = Tail(files[s].rx)
      BY <2>4
    <3>2. H = WithRx(G, s, rx)
      BY <2>6, <2>7, <3>1
    <3>3. /\ FilesTyped(H) /\ H[s].rx = rx
          /\ \A g \in Fd : H[g].id = G[g].id /\ H[g].sort = G[g].sort /\ H[g].peer = G[g].peer
          /\ \A g \in Fd \ {s} : H[g] = G[g]
      BY <1>3, <2>5, <3>2, RxFields
    <3> QED
      BY <3>1, <3>3
  <2>9. /\ H[f].id = id /\ H[f].rx = <<>> /\ H[f].peer = "up"
        /\ \A g \in Fd \ {f} : H[g].id = files[g].id /\ H[g].sort = files[g].sort
                               /\ H[g].peer = files[g].peer
        /\ \A g \in Fd \ {f, s} : H[g].rx = files[g].rx
    BY <2>3, <2>5, <2>8
  <2>10. RxStep(H, files)
    <3> SUFFICES ASSUME NEW g \in Fd PROVE RxStepAt(H, files, g)
      BY DEF RxStep
    <3>1. CASE g = f
      BY <2>9, <3>1 DEF RxStepAt
    <3>2. CASE g = s
      BY <1>3, <2>3, <2>8, <2>9, <3>2 DEF RxStepAt
    <3>3. CASE g # f /\ g # s
      BY <2>9, <3>3 DEF RxStepAt
    <3> QED
      BY <3>1, <3>2, <3>3
  <2>11. RxLess(H, files, "requests")
    BY <1>4, <2>10, RxLessStep
  <2>12. PICK n \in Nat : n = nfiles
    BY <1>4
  <2>13. FileIds(files, n) /\ s \in Queue(files, "requests")
    BY <1>3, <2>12 DEF IdsInv, Queue
  <2>14. \A g \in Fd \ {s} :
           H[g].rx = <<>> \/ (H[g].rx = files[g].rx /\ H[g].sort = files[g].sort)
    BY <2>9
  <2>15. /\ id <= n
         /\ \A g \in Fd : IsOpen(files, g) => files[g].id # id
         /\ \A g \in Queue(H, "requests") : \A b \in 1 .. Len(H[g].rx) : H[g].rx[b].id # id
    BY <1>3, <1>4, <2>1, <2>8, <2>13, <2>14, FileIdsTake
  <2>16. \A g \in Fd \ {f} : H[g].id = files[g].id /\ (IsOpen(H, g) <=> IsOpen(files, g))
    BY <2>9 DEF IsOpen
  <2>17. FileIds(H, n)
    BY <2>3, <2>8, <2>9, <2>11, <2>13, <2>15, <2>16, FileIdsOpen
  <2>18. Regs(ctx') = Regs(ctx) \cup {f} /\ ctx'.tx = ctx.tx
    BY <1>4, <1>5, <1>7, <2>3, AddSeen
  <2>19. IdsInv'
    BY <1>2, <2>7, <2>10, <2>12, <2>17, <2>18, OpenMsgIds DEF IdsInv
  <2>20. \A g \in Regs(ctx) : g \in Fd /\ IsOpen(files, g)
    BY <1>4, RegsFacts DEF IdsInv
  <2>21. PICK K \in SUBSET Fd : K = {f}
    BY <2>3
  <2>22. /\ K # {} /\ Regs(ctx') = Regs(ctx) \cup K
         /\ \A g \in Regs(ctx) : files'[g].id = files[g].id /\ files'[g].peer = files[g].peer
         /\ \A g \in K : files'[g].peer = "up"
         /\ \A g \in K : \A h \in Regs(ctx) : files[h].id # files'[g].id
         /\ Entries(ctx'.tx) = Entries(ctx.tx)
    BY <2>3, <2>7, <2>9, <2>15, <2>18, <2>20, <2>21
  <2>23. Maps
    BY <1>2, <2>22, OpenMaps
  <2> QED
    BY <2>19, <2>23
<1> QED
  BY <1>1, <1>6, <1>7 DEF ipc_accept_add

-----------------------------------------------------------------------------
(* The peers.                                                              *)

(* What arrives for f.                                                     *)
LEMMA ArrivalFields ==
  ASSUME NEW F, FilesTyped(F), NEW f \in Fd, NEW x \in Body, NEW G,
         G = WithRx(F, f, Append(F[f].rx, x))
  PROVE  /\ FilesTyped(G) /\ G[f].rx = Append(F[f].rx, x)
         /\ \A g \in Fd : G[g].id = F[g].id /\ G[g].sort = F[g].sort /\ G[g].peer = F[g].peer
         /\ \A g \in Fd \ {f} : G[g].rx = F[g].rx
<1>1. F[f].rx \in Seq(Body)
  BY FileFields
<1>2. PICK rx \in Seq(Body) : rx = Append(F[f].rx, x)
  BY <1>1, AppendFacts
<1>3. G = WithRx(F, f, rx)
  BY <1>2
<1>4. /\ FilesTyped(G) /\ G[f].rx = rx
      /\ \A g \in Fd : G[g].id = F[g].id /\ G[g].sort = F[g].sort /\ G[g].peer = F[g].peer
      /\ \A g \in Fd \ {f} : G[g] = F[g]
  BY <1>3, RxFields
<1> QED
  BY <1>2, <1>4

LEMMA SameIds ==
  ASSUME NEW F, NEW G, \A g \in Fd : G[g].id = F[g].id /\ G[g].sort = F[g].sort
  PROVE  IdLess(G, F)
BY DEF IdLess, IsOpen

LEMMA PeerStutter ==
  ASSUME IInv, IInv', ctx' = ctx, sent' = sent,
         \A g \in Fd : files'[g].id = files[g].id /\ files'[g].peer = files[g].peer
  PROVE  Maps
<1>1. Regs(ctx) \in SUBSET Fd
  BY DEF Regs
<1> QED
  BY <1>1, StutterMaps

(* A request for a connection gets an identity of its own.                 *)
LEMMA PeerConnectMaps ==
  ASSUME IInv, IInv', IdsInv, NEW f \in Fd, PeerConnect(f)
  PROVE  IdsInv' /\ Maps
<1>1. FilesTyped(files) /\ nfiles \in Nat /\ ctx.tx \in Seq(Message)
  BY TypedFiles, TxTyped
<1>2. PICK n \in Nat : n = nfiles
  BY <1>1
<1>3. PICK x : x = [id |-> n + 1, kind |-> "connect"]
  OBVIOUS
<1>4. x \in Body /\ x.id = n + 1
  BY <1>2, <1>3 DEF Body
<1>5. files[f].sort = "listen" /\ files' = WithRx(files, f, Append(files[f].rx, x))
      /\ nfiles' = n + 1 /\ UNCHANGED <<ctx, nmsgs, sent>>
  BY <1>1, <1>2, <1>3 DEF PeerConnect, WithRx, FilesTyped, Fresh
<1>6. PICK G : G = files'
  OBVIOUS
<1>7. /\ FilesTyped(G) /\ G[f].rx = Append(files[f].rx, x)
      /\ \A g \in Fd : G[g].id = files[g].id /\ G[g].sort = files[g].sort
                       /\ G[g].peer = files[g].peer
      /\ \A g \in Fd \ {f} : G[g].rx = files[g].rx
  BY <1>1, <1>4, <1>5, <1>6, ArrivalFields
<1>8. FileIds(G, n + 1)
  <2>1. FileIds(files, n + 1) /\ AbsentFile(x.id, files)
    BY <1>1, <1>2, <1>4, FileIdsGrow DEF IdsInv
  <2>2. f \in Queue(files, "requests") /\ n + 1 \in Nat /\ x.id <= n + 1
    BY <1>4, <1>5 DEF Queue
  <2>3. \A g \in Fd : G[g].id = files[g].id /\ G[g].sort = files[g].sort
                      /\ (g # f => G[g].rx = files[g].rx)
    BY <1>7
  <2> QED
    BY <1>1, <1>4, <1>7, <2>1, <2>2, <2>3, FileIdsArrive
<1>9. MsgIds(ctx.tx, G, nmsgs, sent)
  <2>1. \A g \in Queue(G, "messages") : G[g].sort = files[g].sort /\ G[g].rx = files[g].rx
    BY <1>5, <1>7 DEF Queue
  <2>2. RxLess(G, files, "messages") /\ SubList(ctx.tx, ctx.tx)
    BY <1>1, <2>1, RxLessSame, SubListSame
  <2> QED
    BY <1>7, <2>2, MsgIdsLess DEF IdsInv
<1>10. IdsInv'
  BY <1>5, <1>6, <1>8, <1>9 DEF IdsInv
<1>11. Maps
  BY <1>5, <1>6, <1>7, PeerStutter
<1> QED
  BY <1>10, <1>11

(* So does a message.                                                      *)
LEMMA PeerSendMaps ==
  ASSUME IInv, IInv', IdsInv, NEW f \in Fd, NEW kind \in Payload, PeerSend(f, kind)
  PROVE  IdsInv' /\ Maps
<1>1. FilesTyped(files) /\ nfiles \in Nat /\ nmsgs \in Nat /\ ctx.tx \in Seq(Message)
      /\ \A d \in sent : d.id \in Nat
  BY TypedFiles, TxTyped
<1>2. PICK n \in Nat : n = nmsgs
  BY <1>1
<1>3. PICK x : x = [id |-> n + 1, kind |-> kind]
  OBVIOUS
<1>4. x \in Body /\ x.id = n + 1
  <2>1. kind \in Kinds
    BY PayloadAssumption DEF Kinds
  <2> QED
    BY <1>2, <1>3, <2>1 DEF Body
<1>5. files[f].sort # "listen" /\ files' = WithRx(files, f, Append(files[f].rx, x))
      /\ nmsgs' = n + 1 /\ UNCHANGED <<ctx, nfiles, sent>>
  BY <1>1, <1>2, <1>3 DEF PeerSend, WithRx, FilesTyped
<1>6. PICK G : G = files'
  OBVIOUS
<1>7. /\ FilesTyped(G) /\ G[f].rx = Append(files[f].rx, x)
      /\ \A g \in Fd : G[g].id = files[g].id /\ G[g].sort = files[g].sort
                       /\ G[g].peer = files[g].peer
      /\ \A g \in Fd \ {f} : G[g].rx = files[g].rx
  BY <1>1, <1>4, <1>5, <1>6, ArrivalFields
<1>8. MsgIds(ctx.tx, G, n + 1, sent)
  <2>1. MsgIds(ctx.tx, files, n + 1, sent) /\ Absent(x.id, ctx.tx, files, sent)
    BY <1>1, <1>2, <1>4, MsgIdsGrow DEF IdsInv
  <2>2. f \in Queue(files, "messages") /\ n + 1 \in Nat /\ x.id <= n + 1
    BY <1>4, <1>5 DEF Queue
  <2>3. \A g \in Fd : G[g].sort = files[g].sort /\ (g # f => G[g].rx = files[g].rx)
    BY <1>7
  <2> QED
    BY <1>1, <1>4, <1>7, <2>1, <2>2, <2>3, MsgIdsArrive
<1>9. FileIds(G, nfiles)
  <2>1. \A g \in Queue(G, "requests") : G[g].sort = files[g].sort /\ G[g].rx = files[g].rx
    BY <1>5, <1>7 DEF Queue
  <2>2. RxLess(G, files, "requests")
    BY <1>1, <2>1, RxLessSame
  <2>3. IdLess(G, files)
    BY <1>7, SameIds
  <2> QED
    BY <1>1, <1>7, <2>2, <2>3, FileIdsLess DEF IdsInv
<1>10. IdsInv'
  BY <1>5, <1>6, <1>8, <1>9 DEF IdsInv
<1>11. Maps
  BY <1>5, <1>6, <1>7, PeerStutter
<1> QED
  BY <1>10, <1>11

(* The end of a peer is seen by Outbox if its connection is in the context. *)
LEMMA PeerLeaveMaps ==
  ASSUME IInv, IInv', IdsInv, NEW f \in Fd, NEW how \in {"gone", "reset"}, PeerLeave(f, how)
  PROVE  IdsInv' /\ Maps
<1>1. FilesTyped(files) /\ ctx.tx \in Seq(Message)
  BY TypedFiles, TxTyped
<1>2. files' = WithPeer(files, f, how) /\ UNCHANGED <<ctx, nfiles, nmsgs, sent>>
  BY DEF PeerLeave, WithPeer
<1>3. /\ FilesTyped(files') /\ files'[f].peer # "up"
      /\ \A g \in Fd : files'[g].id = files[g].id /\ files'[g].sort = files[g].sort
                       /\ files'[g].rx = files[g].rx
      /\ \A g \in Fd \ {f} : files'[g] = files[g]
  <2>1. PICK G : G = files'
    OBVIOUS
  <2>a. G = WithPeer(files, f, how)
    BY <1>2, <2>1
  <2>2. /\ FilesTyped(G) /\ G[f].peer = how
        /\ \A g \in Fd : G[g].id = files[g].id /\ G[g].sort = files[g].sort
                         /\ G[g].rx = files[g].rx
        /\ \A g \in Fd \ {f} : G[g] = files[g]
    <3>1. CASE how = "gone"
      BY <1>1, <2>a, <3>1, PeerFields
    <3>2. CASE how = "reset"
      BY <1>1, <2>a, <3>2, PeerFields
    <3> QED
      BY <3>1, <3>2
  <2>3. how # "up"
    OBVIOUS
  <2> QED
    BY <2>1, <2>2, <2>3
<1>4. IdsInv'
  <2>1. RxStep(files', files) /\ IdLess(files', files)
    BY <1>3, SameIds DEF RxStep, RxStepAt
  <2>2. SubList(ctx'.tx, ctx.tx)
    BY <1>1, <1>2, SubListSame
  <2> QED
    BY <1>2, <1>3, <2>1, <2>2, IdsShrink
<1>5. CASE f \in Regs(ctx)
  BY <1>2, <1>3, <1>4, <1>5, PeerLeavesMaps
<1>6. CASE f \notin Regs(ctx)
  <2>1. \A g \in Regs(ctx) : g \in Fd \ {f}
    BY <1>6 DEF Regs
  <2> QED
    BY <1>2, <1>3, <1>4, <2>1, StutterMaps
<1> QED
  BY <1>5, <1>6

-----------------------------------------------------------------------------
(* A reported hang-up is still true when it is served.                     *)

LEMMA PollReadyHup ==
  ASSUME IInv, PollReady
  PROVE  HupInv'
<1>1. revents' = Reported /\ UNCHANGED <<ctx, files>>
  BY DEF PollReady
<1>2. ASSUME NEW i \in 1 .. Len(ctx.conns), "HUP" \in Reported[i]
      PROVE  files[ctx.conns[i].fd].peer # "up"
  BY <1>2 DEF Reported, Poll
<1> QED
  BY <1>1, <1>2 DEF HupInv

LEMMA ServeHup ==
  ASSUME NEW i \in 1 .. Len(ctx.conns), Serve(i)
  PROVE  HupInv'
<1>1. pc' # "polled"
  BY DEF Serve, ipc_accept_add, ExtraSocket, handle_new_message, fd_switching_read,
         handle_writing_message, fd_switching_write, HangUp, PollError, Return
<1> QED
  BY <1>1 DEF HupInv

LEMMA PeersHup ==
  ASSUME IInv, HupInv, Peers
  PROVE  HupInv'
<1>1. UNCHANGED <<ctx, pc, revents>>
  BY DEF Peers, PeerConnect, PeerSend, PeerLeave
<1>2. \A g \in Fd : files[g].peer # "up" => files'[g].peer # "up"
  <2>1. files \in [Fd -> File(Body)]
    BY TypedFiles DEF FilesTyped
  <2>2. ASSUME NEW f \in Fd, NEW x, files' = [files EXCEPT ![f].rx = x]
        PROVE  \A g \in Fd : files'[g].peer = files[g].peer
    BY <2>1, <2>2 DEF File
  <2>3. ASSUME NEW f \in Fd, NEW how \in {"gone", "reset"}, files' = [files EXCEPT ![f].peer = how]
        PROVE  \A g \in Fd : files[g].peer # "up" => files'[g].peer # "up"
    BY <2>1, <2>3 DEF File
  <2> QED
    BY <2>2, <2>3 DEF Peers, PeerConnect, PeerSend, PeerLeave
<1>3. ASSUME pc = "polled", NEW i \in 1 .. Len(ctx.conns), "HUP" \in revents[i]
      PROVE  ctx.conns[i].fd \in Fd
  BY <1>3, ContextFields DEF IInv, Good, PollInv, FlagsOK
<1> QED
  BY <1>1, <1>2, <1>3 DEF HupInv

LEMMA NextHup == IInv /\ HupInv /\ [Next]_vars => HupInv'
<1> SUFFICES ASSUME IInv, HupInv, [Next]_vars PROVE HupInv'
  OBVIOUS
<1>1. CASE Application
  <2>1. pc' = "app"
    BY <1>1 DEF Application, May, ServerInit, Connect, AddFd, ConnectSwitched, SetCallbacks,
       SetCallbackIn, Write, CloseConnection, handle_disconnection, CloseForgotten, Shutdown
  <2> QED
    BY <2>1 DEF HupInv
<1>2. CASE EventLoop
  <2>1. CASE PollTimeout \/ HandleEvent
    BY <2>1 DEF PollTimeout, HandleEvent, HupInv
  <2> QED
    BY <1>2, <2>1, PollReadyHup, ServeHup DEF EventLoop, ipc_wait_event
<1>3. CASE Peers
  BY <1>3, PeersHup
<1>4. CASE UNCHANGED vars
  BY <1>4 DEF vars, HupInv
<1>5. CASE Killed
  BY <1>4, <1>5 DEF Killed
<1> QED
  BY <1>1, <1>2, <1>3, <1>4, <1>5 DEF Next

-----------------------------------------------------------------------------
(* The invariant is inductive, and every step maps.                        *)

LEMMA InitMaps == Init => RInv /\ Promise!Init
<1> SUFFICES ASSUME Init PROVE RInv /\ Promise!Init
  OBVIOUS
<1>1. IInv
  BY InitInv
<1>2. HupInv
  BY DEF Init, HupInv
<1>3. ctx.tx = <<>> /\ ctx.conns = <<>> /\ sent = {} /\ nfiles = 0 /\ nmsgs = 0
      /\ \A f \in Fd : files[f] = ClosedFile
  BY DEF Init, EmptyContext
<1>4. \A f \in Fd : files[f].id = 0 /\ files[f].sort = "closed" /\ files[f].rx = <<>>
  BY <1>3 DEF ClosedFile
<1>5. MsgIds(ctx.tx, files, nmsgs, sent)
  <2>1. RxDistinct(files, "messages")
    BY <1>4 DEF RxDistinct, Queue
  <2> QED
    BY <1>3, <1>4, <2>1 DEF MsgIds, Queue
<1>6. FileIds(files, nfiles)
  <2>1. RxDistinct(files, "requests")
    BY <1>4 DEF RxDistinct, Queue
  <2> QED
    BY <1>3, <1>4, <2>1 DEF FileIds, Queue, IsOpen
<1>7. Held = {} /\ Listed = {}
  BY <1>3 DEF Held, Listed
<1>8. Promise!Init
  BY <1>3, <1>7 DEF Promise!Init
<1> QED
  BY <1>1, <1>2, <1>5, <1>6, <1>8 DEF RInv, IdsInv

LEMMA NextMaps == RInv /\ [Next]_vars => RInv' /\ Maps
<1> SUFFICES ASSUME RInv, [Next]_vars PROVE RInv' /\ Maps
  OBVIOUS
<1>1. IInv /\ HupInv /\ IdsInv
  BY DEF RInv
<1>2. IInv' /\ HupInv'
  BY <1>1, NextInv, NextHup
<1>3. IdsInv' /\ Maps
  <2>1. CASE Application
    <3>1. ASSUME NEW f \in Fd, ServerInit(f) \/ Connect(f) \/ AddFd(f)
          PROVE  IdsInv' /\ Maps
      BY <1>1, <1>2, <3>1, OpenCallsMaps
    <3>2. ASSUME NEW f \in Fd, NEW cb \in Callback, SetCallbacks(f, cb) \/ SetCallbackIn(f, cb)
          PROVE  IdsInv' /\ Maps
      BY <1>1, <1>2, <3>2, CallbacksMaps
    <3> QED
      BY <1>1, <1>2, <2>1, <3>1, <3>2, ConnectSwitchedMaps, WriteCallMaps,
         CloseConnectionMaps, DisconnectionMaps, CloseForgottenMaps, ShutdownMaps
      DEF Application
  <2>2. ASSUME NEW i \in 1 .. Len(ctx.conns), Serve(i)
        PROVE  IdsInv' /\ Maps
    <3>1. CASE PollError(i)
      BY <1>1, <1>2, <3>1, PollMaps DEF PollError
    <3> QED
      BY <1>1, <1>2, <2>2, <3>1, AcceptMaps, ExtraSocketMaps, NewMessageMaps,
         SwitchingReadMaps, WritingMessageMaps, SwitchingWriteMaps, HangUpMaps DEF Serve
  <2>3. CASE EventLoop
    <3>1. CASE PollReady \/ PollTimeout
      BY <1>1, <1>2, <3>1, PollMaps DEF PollReady, PollTimeout
    <3> QED
      BY <1>1, <1>2, <2>2, <2>3, <3>1, HandleEventMaps DEF EventLoop, ipc_wait_event
  <2>4. CASE Peers
    BY <1>1, <1>2, <2>4, PeerConnectMaps, PeerSendMaps, PeerLeaveMaps DEF Peers
  <2>5. CASE UNCHANGED vars
    BY <1>1, <1>2, <2>5, PollMaps DEF vars
  <2>6. CASE Killed
    BY <2>5, <2>6 DEF Killed
  <2> QED
    BY <2>1, <2>3, <2>4, <2>5, <2>6 DEF Next
<1> QED
  BY <1>2, <1>3 DEF RInv

(* Whatever calls, events and departures happen, a message given to        *)
(* ipc_write or taken from one end of a switching is written at most once, *)
(* to the connection it was scheduled for, and leaves the list of the      *)
(* context otherwise only with that connection or after its peer left:     *)
(* the removals of message.c and communication.c, the reuse of descriptor  *)
(* numbers and the events that are stale when they are served never lose,  *)
(* repeat or redirect one.                                                 *)
THEOREM ImplementsOutboxAlways == Spec => ImplementsOutbox
<1>1. Init => RInv /\ Promise!Init
  BY InitMaps
<1>2. RInv /\ [Next]_vars => RInv' /\ [Promise!Next]_(Promise!vars)
  BY NextMaps DEF Maps
<1> QED
  BY <1>1, <1>2, PTL DEF Spec, ImplementsOutbox, Promise!Spec
=============================================================================
