------------------------------ MODULE ZigProofs ------------------------------
(***************************************************************************)
(* The Zig context and the three programs on top of it, for any number of  *)
(* descriptors and messages: no descriptor leaks, switched connections and *)
(* entries of the switch go together, POLLOUT is only asked for where a    *)
(* message waits, and the context implements Outbox.                       *)
(*                                                                         *)
(* A context is seen through four sets of descriptors: those it holds,     *)
(* those of each type, those for which POLLOUT is asked, and those for     *)
(* which a message waits.  A lemma per operation says what it does to      *)
(* them; the rest is about what a handler knows of the event it handles.   *)
(* The refinement, in the second half, adds where each connection and each *)
(* message is.                                                             *)
(***************************************************************************)
EXTENDS ZigPrograms, IpcMessagesProofs

ConnType == {"SERVER", "IPC", "EXTERNAL", "SWITCHED"}
Conn == [fd : Fd, t : ConnType, out : BOOLEAN]
Body == [id : Nat, kind : {"text", "empty", "bad"}]
Msg == [fd : Fd, file : Nat, id : Nat, kind : {"text", "empty", "bad"}]

HeldBy(c) == {f \in Fd : Registered(c, f)}
Of(c, t) == {f \in Fd : \E i \in 1 .. Len(c.conns) : c.conns[i].fd = f /\ c.conns[i].t = t}
Asked(c) == {f \in Fd : \E i \in 1 .. Len(c.conns) : c.conns[i].fd = f /\ c.conns[i].out}
Waiting(c) == {f \in Fd : HasMessage(c.tx, f)}

(* The shape of a context; its descriptors are distinct.                   *)
Shape(c) ==
  /\ c = [conns |-> c.conns, tx |-> c.tx, switchdb |-> c.switchdb]
  /\ c.conns \in Seq(Conn) /\ c.tx \in Seq(Msg)
  /\ c.switchdb = [f \in DOMAIN c.switchdb |-> c.switchdb[f]]
  /\ \A i, j \in 1 .. Len(c.conns) : i # j => c.conns[i].fd # c.conns[j].fd

(* The entries are those of the switched connections, in pairs.            *)
Paired(c) ==
  /\ DOMAIN c.switchdb = Of(c, "SWITCHED")
  /\ \A f \in DOMAIN c.switchdb :
       c.switchdb[f] \in DOMAIN c.switchdb \ {f} /\ c.switchdb[c.switchdb[f]] = f

-----------------------------------------------------------------------------
(* What each operation does to a context.                                  *)

LEMMA ShapeFields ==
  ASSUME NEW c, Shape(c)
  PROVE  /\ Len(c.conns) \in Nat /\ Len(c.tx) \in Nat
         /\ \A i \in 1 .. Len(c.conns) :
              c.conns[i] \in Conn /\ c.conns[i].fd \in Fd /\ c.conns[i].t \in ConnType
         /\ \A k \in 1 .. Len(c.tx) : c.tx[k] \in Msg /\ c.tx[k].fd \in Fd
<1>1. c.conns \in Seq(Conn) /\ c.tx \in Seq(Msg)
  BY DEF Shape
<1>2. \A i \in 1 .. Len(c.conns) : c.conns[i] \in Conn
  BY <1>1
<1>3. \A k \in 1 .. Len(c.tx) : c.tx[k] \in Msg
  BY <1>1
<1> QED
  BY <1>1, <1>2, <1>3 DEF Conn, Msg

(* A descriptor has one type.                                              *)
LEMMA OneType ==
  ASSUME NEW c, Shape(c), NEW t, NEW u, t # u
  PROVE  Of(c, t) \cap Of(c, u) = {}
BY DEF Of, Shape

LEMMA OfHeld ==
  ASSUME NEW c, Shape(c)
  PROVE  /\ \A t : Of(c, t) \subseteq HeldBy(c)
         /\ \A f \in HeldBy(c) : \E t \in ConnType : f \in Of(c, t)
<1>1. \A t : Of(c, t) \subseteq HeldBy(c)
  BY DEF Of, HeldBy, Registered
<1>2. \A f \in HeldBy(c) : \E t \in ConnType : f \in Of(c, t)
  BY ShapeFields DEF Of, HeldBy, Registered
<1> QED
  BY <1>1, <1>2

LEMMA AddFacts ==
  ASSUME NEW c, Shape(c), NEW f \in Fd \ HeldBy(c), NEW type \in ConnType
  PROVE  LET d == add_(c, f, type)
         IN  /\ Shape(d) /\ d.switchdb = c.switchdb /\ d.tx = c.tx
             /\ HeldBy(d) = HeldBy(c) \cup {f}
             /\ Of(d, type) = Of(c, type) \cup {f}
             /\ \A t \in ConnType \ {type} : Of(d, t) = Of(c, t)
             /\ Asked(d) = Asked(c)
             /\ Len(d.conns) = Len(c.conns) + 1
             /\ \A i \in 1 .. Len(c.conns) : d.conns[i] = c.conns[i]
<1> DEFINE new == [fd |-> f, t |-> type, out |-> FALSE]
           q == Append(c.conns, new)
           n == Len(c.conns)
           d == add_(c, f, type)
<1>1. n \in Nat /\ c.conns \in Seq(Conn) /\ \A i \in 1 .. n : c.conns[i].fd \in Fd /\ c.conns[i].fd # f
  BY ShapeFields DEF Shape, HeldBy, Registered
<1>2. new \in Conn /\ new.fd = f /\ new.t = type /\ new.out = FALSE
  BY DEF Conn
<1> HIDE DEF new
<1>3. q \in Seq(Conn) /\ Len(q) = n + 1 /\ q[n + 1] = new /\ \A i \in 1 .. n : q[i] = c.conns[i]
  BY <1>1, <1>2
<1>4. d.conns = q /\ d.tx = c.tx /\ d.switchdb = c.switchdb
      /\ d = [conns |-> q, tx |-> c.tx, switchdb |-> c.switchdb]
  BY DEF Shape, add_, new
<1> HIDE DEF q, d, n
<1>5. \A i \in 1 .. n + 1 : (i \in 1 .. n /\ q[i] = c.conns[i]) \/ (i = n + 1 /\ q[i] = new)
  BY <1>1, <1>3
<1>6. Shape(d)
  <2>1. \A i, j \in 1 .. n : i # j => c.conns[i].fd # c.conns[j].fd
    BY DEF Shape, n
  <2>2. \A i, j \in 1 .. n + 1 : i # j => q[i].fd # q[j].fd
    BY <1>1, <1>2, <1>5, <2>1
  <2> QED
    BY <1>3, <1>4, <2>2 DEF Shape
<1>7. \A t : Of(d, t) = {g \in Fd : g \in Of(c, t) \/ (g = f /\ t = type)}
  <2> SUFFICES ASSUME NEW t, NEW g \in Fd
               PROVE  g \in Of(d, t) <=> g \in Of(c, t) \/ (g = f /\ t = type)
    BY DEF Of
  <2>1. g \in Of(d, t) <=> \E i \in 1 .. n + 1 : q[i].fd = g /\ q[i].t = t
    BY <1>3, <1>4 DEF Of
  <2>2. g \in Of(c, t) <=> \E i \in 1 .. n : c.conns[i].fd = g /\ c.conns[i].t = t
    BY DEF Of, n
  <2>3. n + 1 \in 1 .. n + 1 /\ \A i \in 1 .. n : i \in 1 .. n + 1
    BY <1>1
  <2> QED
    BY <1>2, <1>3, <1>5, <2>1, <2>2, <2>3
<1>8. HeldBy(d) = HeldBy(c) \cup {f}
  <2> SUFFICES ASSUME NEW g \in Fd
               PROVE  g \in HeldBy(d) <=> g \in HeldBy(c) \/ g = f
    BY DEF HeldBy
  <2>1. g \in HeldBy(d) <=> \E i \in 1 .. n + 1 : q[i].fd = g
    BY <1>3, <1>4 DEF HeldBy, Registered
  <2>2. g \in HeldBy(c) <=> \E i \in 1 .. n : c.conns[i].fd = g
    BY DEF HeldBy, Registered, n
  <2>3. n + 1 \in 1 .. n + 1 /\ \A i \in 1 .. n : i \in 1 .. n + 1
    BY <1>1
  <2> QED
    BY <1>2, <1>3, <1>5, <2>1, <2>2, <2>3
<1>9. Asked(d) = Asked(c)
  <2> SUFFICES ASSUME NEW g \in Fd
               PROVE  g \in Asked(d) <=> g \in Asked(c)
    BY DEF Asked
  <2>1. g \in Asked(d) <=> \E i \in 1 .. n + 1 : q[i].fd = g /\ q[i].out
    BY <1>3, <1>4 DEF Asked
  <2>2. g \in Asked(c) <=> \E i \in 1 .. n : c.conns[i].fd = g /\ c.conns[i].out
    BY DEF Asked, n
  <2>3. \A i \in 1 .. n : i \in 1 .. n + 1
    BY <1>1
  <2> QED
    BY <1>2, <1>3, <1>5, <2>1, <2>2, <2>3
<1>10. /\ Of(d, type) = Of(c, type) \cup {f}
       /\ \A t \in ConnType \ {type} : Of(d, t) = Of(c, t)
  <2>1. \A t : Of(c, t) \subseteq Fd
    BY DEF Of
  <2>2. Of(d, type) = Of(c, type) \cup {f}
    BY <1>7, <2>1
  <2>3. ASSUME NEW t \in ConnType \ {type} PROVE Of(d, t) = Of(c, t)
    BY <1>7, <2>1
  <2> QED
    BY <2>2, <2>3
<1> QED
  BY <1>3, <1>4, <1>6, <1>8, <1>9, <1>10 DEF d, n


(* The messages that are left are those for the other descriptors.         *)
LEMMA RemoveWaiting ==
  ASSUME NEW s \in Seq(Msg), NEW f, NEW g
  PROVE  /\ ipc_remove_messages_for_fd(s, f) \in Seq(Msg)
         /\ HasMessage(ipc_remove_messages_for_fd(s, f), g) <=> g # f /\ HasMessage(s, g)
<1> DEFINE t == RemoveFor(s, {f})
<1>1. PICK p : Rearranges(p, t, s, Kept(s, {f}))
  BY RemoveForExact
<1>2. /\ p \in [1 .. Len(t) -> Kept(s, {f})]
      /\ \A k \in Kept(s, {f}) : \E j \in 1 .. Len(t) : p[j] = k
      /\ \A j \in 1 .. Len(t) : t[j] = s[p[j]]
  BY <1>1 DEF Rearranges
<1>3. t \in Seq(Msg)
  BY RemoveForFacts
<1>4. ipc_remove_messages_for_fd(s, f) = t
  BY DEF ipc_remove_messages_for_fd
<1> HIDE DEF t
<1>5. \A j \in 1 .. Len(t) : p[j] \in 1 .. Len(s) /\ s[p[j]].fd # f /\ t[j] = s[p[j]]
  BY <1>2 DEF Kept
<1>6. ASSUME HasMessage(t, g)
      PROVE  g # f /\ HasMessage(s, g)
  BY <1>5, <1>6 DEF HasMessage
<1>7. ASSUME g # f, HasMessage(s, g)
      PROVE  HasMessage(t, g)
  <2>1. PICK k \in 1 .. Len(s) : s[k].fd = g
    BY <1>7 DEF HasMessage
  <2>2. k \in Kept(s, {f})
    BY <1>7, <2>1 DEF Kept
  <2>3. PICK j \in 1 .. Len(t) : p[j] = k
    BY <1>2, <2>2
  <2> QED
    BY <1>2, <2>1, <2>3 DEF HasMessage
<1> QED
  BY <1>3, <1>4, <1>6, <1>7

LEMMA CloseFacts ==
  ASSUME NEW c, Shape(c), NEW i \in 1 .. Len(c.conns)
  PROVE  LET d == close(c, i)
             f == c.conns[i].fd
         IN  /\ Shape(d) /\ d.switchdb = c.switchdb
             /\ HeldBy(d) = HeldBy(c) \ {f}
             /\ \A t : Of(d, t) = Of(c, t) \ {f}
             /\ Asked(d) = Asked(c) \ {f}
             /\ Waiting(d) = Waiting(c) \ {f}
<1> DEFINE d == close(c, i)
           f == c.conns[i].fd
           n == Len(c.conns)
           q == SwapRemove(c.conns, i)
           t == ipc_remove_messages_for_fd(c.tx, f)
           from == [j \in 1 .. n - 1 |-> IF j = i THEN n ELSE j]
<1>1. n \in Nat /\ n >= 1 /\ i \in Nat /\ i >= 1 /\ i <= n /\ f \in Fd
      /\ c.conns \in Seq(Conn) /\ c.tx \in Seq(Msg)
  BY ShapeFields DEF Shape
<1>2. q \in Seq(Conn) /\ Len(q) = n - 1
      /\ \A j \in 1 .. n - 1 : q[j] = IF j = i THEN c.conns[n] ELSE c.conns[j]
  <2>1. PICK s \in Seq(Conn) : s = c.conns /\ i \in 1 .. Len(s)
    BY <1>1
  <2> QED
    BY <2>1, SwapRemoveFacts
<1>3. d.conns = q /\ d.tx = t /\ d.switchdb = c.switchdb
      /\ d = [conns |-> q, tx |-> t, switchdb |-> c.switchdb]
  <2>1. d = [c EXCEPT !.conns = q, !.tx = t]
    BY DEF close
  <2>2. c = [conns |-> c.conns, tx |-> c.tx, switchdb |-> c.switchdb]
    BY DEF Shape
  <2> HIDE DEF d, q, t
  <2> QED
    BY <2>1, <2>2
<1> HIDE DEF q, d, t
<1>4. t \in Seq(Msg) /\ \A g : HasMessage(t, g) <=> g # f /\ HasMessage(c.tx, g)
  BY <1>1, RemoveWaiting DEF t
<1>5. \A j \in 1 .. n - 1 : from[j] \in 1 .. n /\ from[j] # i /\ q[j] = c.conns[from[j]]
  BY <1>1, <1>2, SMTT(30)
<1>6. \A j, k \in 1 .. n - 1 : from[j] = from[k] => j = k
  BY <1>1
<1>7. \A l \in 1 .. n : l # i => \E j \in 1 .. n - 1 : from[j] = l
  <2> SUFFICES ASSUME NEW l \in 1 .. n, l # i
               PROVE  \E j \in 1 .. n - 1 : from[j] = l
    OBVIOUS
  <2>1. CASE l = n
    BY <1>1, <2>1
  <2>2. CASE l # n
    BY <1>1, <2>2, SMTT(30)
  <2> QED
    BY <2>1, <2>2
<1> HIDE DEF from
<1>8. \A j, k \in 1 .. n : j # k => c.conns[j].fd # c.conns[k].fd
  BY DEF Shape, n
<1>9. \A l \in 1 .. n : l # i => c.conns[l].fd # f
  BY <1>8
<1> HIDE DEF n
<1>10. Shape(d)
  <2>1. \A j, k \in 1 .. n - 1 : j # k => q[j].fd # q[k].fd
    <3> SUFFICES ASSUME NEW j \in 1 .. n - 1, NEW k \in 1 .. n - 1, j # k
                 PROVE  q[j].fd # q[k].fd
      OBVIOUS
    <3>1. from[j] \in 1 .. n /\ from[k] \in 1 .. n /\ from[j] # from[k]
      BY <1>5, <1>6
    <3>2. q[j] = c.conns[from[j]] /\ q[k] = c.conns[from[k]]
      BY <1>5
    <3> QED
      BY <1>8, <3>1, <3>2
  <2> QED
    BY <1>2, <1>3, <1>4, <2>1 DEF Shape
(* An entry of d is one of c, with another descriptor.                     *)
<1>11. ASSUME NEW g \in Fd, NEW j \in 1 .. Len(d.conns), d.conns[j].fd = g
       PROVE  g # f /\ \E l \in 1 .. Len(c.conns) : c.conns[l] = d.conns[j] /\ c.conns[l].fd = g
  <2>1. j \in 1 .. n - 1 /\ d.conns[j] = q[j]
    BY <1>2, <1>3, <1>11
  <2>2. from[j] \in 1 .. n /\ from[j] # i /\ q[j] = c.conns[from[j]]
    BY <1>5, <2>1
  <2> QED
    BY <1>9, <1>11, <2>1, <2>2 DEF n
<1>12. ASSUME NEW g \in Fd, g # f, NEW l \in 1 .. Len(c.conns), c.conns[l].fd = g
       PROVE  \E j \in 1 .. Len(d.conns) : d.conns[j] = c.conns[l]
  <2>1. l # i /\ l \in 1 .. n
    BY <1>12 DEF n
  <2>2. PICK j \in 1 .. n - 1 : from[j] = l
    BY <1>7, <2>1
  <2> QED
    BY <1>2, <1>3, <1>5, <2>2
<1> HIDE DEF f
<1>13. HeldBy(d) = HeldBy(c) \ {f}
  <2>1. \A g \in HeldBy(d) : g \in HeldBy(c) \ {f}
    BY <1>11 DEF HeldBy, Registered
  <2>2. \A g \in HeldBy(c) \ {f} : g \in HeldBy(d)
    BY <1>12 DEF HeldBy, Registered
  <2> QED
    BY <2>1, <2>2
<1>14. ASSUME NEW u PROVE Of(d, u) = Of(c, u) \ {f}
  <2>1. \A g \in Of(d, u) : g \in Of(c, u) \ {f}
    BY <1>11 DEF Of
  <2>2. \A g \in Of(c, u) \ {f} : g \in Of(d, u)
    BY <1>12 DEF Of
  <2> QED
    BY <2>1, <2>2
<1>15. Asked(d) = Asked(c) \ {f}
  <2>1. \A g \in Asked(d) : g \in Asked(c) \ {f}
    BY <1>11 DEF Asked
  <2>2. \A g \in Asked(c) \ {f} : g \in Asked(d)
    BY <1>12 DEF Asked
  <2> QED
    BY <2>1, <2>2
<1>16. Waiting(d) = Waiting(c) \ {f}
  BY <1>3, <1>4 DEF Waiting
<1> QED
  BY <1>3, <1>10, <1>13, <1>14, <1>15, <1>16 DEF d, f

LEMMA IndexFacts ==
  ASSUME NEW c, NEW f \in HeldBy(c)
  PROVE  fd_to_index(c, f) \in 1 .. Len(c.conns) /\ c.conns[fd_to_index(c, f)].fd = f
<1>1. \E i \in 1 .. Len(c.conns) : c.conns[i].fd = f
  BY DEF HeldBy, Registered
<1> QED
  BY <1>1 DEF fd_to_index

LEMMA CloseFdFacts ==
  ASSUME NEW c, Shape(c), NEW f \in Fd, f \notin HeldBy(c) => f \notin Waiting(c)
  PROVE  LET d == close_fd(c, f)
         IN  /\ Shape(d) /\ d.switchdb = c.switchdb
             /\ HeldBy(d) = HeldBy(c) \ {f}
             /\ \A t : Of(d, t) = Of(c, t) \ {f}
             /\ Asked(d) = Asked(c) \ {f}
             /\ Waiting(d) = Waiting(c) \ {f}
<1>1. CASE f \in HeldBy(c)
  <2>1. PICK i \in 1 .. Len(c.conns) : i = fd_to_index(c, f) /\ c.conns[i].fd = f
    BY <1>1, IndexFacts
  <2>2. close_fd(c, f) = close(c, i)
    BY <1>1, <2>1 DEF close_fd, HeldBy
  <2> QED
    BY <2>1, <2>2, CloseFacts
<1>2. CASE f \notin HeldBy(c)
  <2>1. close_fd(c, f) = c
    BY <1>2 DEF close_fd, HeldBy
  <2>2. \A t : f \notin Of(c, t)
    BY <1>2 DEF HeldBy, Of, Registered
  <2>3. f \notin Asked(c)
    BY <1>2 DEF HeldBy, Asked, Registered
  <2> QED
    BY <1>2, <2>1, <2>2, <2>3
<1> QED
  BY <1>1, <1>2

(* Only the types and the events of the connections change.                *)
LEMMA Relabelled ==
  ASSUME NEW c, Shape(c), NEW q \in Seq(Conn), Len(q) = Len(c.conns),
         \A i \in 1 .. Len(c.conns) : q[i].fd = c.conns[i].fd,
         NEW d, d.conns = q, d.tx \in Seq(Msg),
         d = [conns |-> d.conns, tx |-> d.tx, switchdb |-> d.switchdb],
         d.switchdb = [f \in DOMAIN d.switchdb |-> d.switchdb[f]]
  PROVE  Shape(d) /\ HeldBy(d) = HeldBy(c)
<1>1. Shape(d)
  BY DEF Shape
<1>2. HeldBy(d) = HeldBy(c)
  BY DEF HeldBy, Registered
<1> QED
  BY <1>1, <1>2

LEMMA SameTypes ==
  ASSUME NEW c, NEW d, Len(d.conns) = Len(c.conns),
         \A i \in 1 .. Len(c.conns) : d.conns[i].fd = c.conns[i].fd /\ d.conns[i].t = c.conns[i].t
  PROVE  \A t : Of(d, t) = Of(c, t)
BY DEF Of

LEMMA SameAsked ==
  ASSUME NEW c, NEW d, Len(d.conns) = Len(c.conns),
         \A i \in 1 .. Len(c.conns) :
           d.conns[i].fd = c.conns[i].fd /\ d.conns[i].out = c.conns[i].out
  PROVE  Asked(d) = Asked(c)
BY DEF Asked

LEMMA ScheduleFacts ==
  ASSUME NEW c, Shape(c), NEW m \in Msg
  PROVE  LET d == schedule(c, m)
         IN  /\ Shape(d) /\ d.switchdb = c.switchdb /\ d.conns = c.conns
             /\ HeldBy(d) = HeldBy(c) /\ Asked(d) = Asked(c) /\ \A t : Of(d, t) = Of(c, t)
             /\ Waiting(d) = Waiting(c) \cup {m.fd}
<1> DEFINE d == schedule(c, m)
           s == Append(c.tx, m)
<1>1. s \in Seq(Msg) /\ Len(s) = Len(c.tx) + 1 /\ s[Len(c.tx) + 1] = m /\ Len(c.tx) \in Nat
      /\ \A k \in 1 .. Len(c.tx) : s[k] = c.tx[k]
  BY DEF Shape
<1>2. d = [conns |-> c.conns, tx |-> s, switchdb |-> c.switchdb]
  <2>1. d = [c EXCEPT !.tx = s]
    BY DEF schedule
  <2>2. c = [conns |-> c.conns, tx |-> c.tx, switchdb |-> c.switchdb]
    BY DEF Shape
  <2> HIDE DEF d, s
  <2> QED
    BY <2>1, <2>2
<1> HIDE DEF s, d
<1>3. d.conns = c.conns /\ d.tx = s /\ d.switchdb = c.switchdb
  BY <1>2
<1>4. Shape(d)
  BY <1>1, <1>2, <1>3 DEF Shape
<1>5. HeldBy(d) = HeldBy(c) /\ Asked(d) = Asked(c) /\ \A t : Of(d, t) = Of(c, t)
  BY <1>3 DEF HeldBy, Asked, Of, Registered
<1>6. m.fd \in Fd
  BY DEF Msg
<1>7. Waiting(d) = Waiting(c) \cup {m.fd}
  <2> SUFFICES ASSUME NEW f \in Fd
               PROVE  f \in Waiting(d) <=> f \in Waiting(c) \/ f = m.fd
    BY <1>6 DEF Waiting
  <2>1. f \in Waiting(d) <=> \E k \in 1 .. Len(c.tx) + 1 : s[k].fd = f
    BY <1>1, <1>3 DEF Waiting, HasMessage
  <2>2. \A k \in 1 .. Len(c.tx) + 1 : k \in 1 .. Len(c.tx) \/ k = Len(c.tx) + 1
    BY <1>1
  <2>3. Len(c.tx) + 1 \in 1 .. Len(c.tx) + 1 /\ \A k \in 1 .. Len(c.tx) : k \in 1 .. Len(c.tx) + 1
    BY <1>1
  <2> QED
    BY <1>1, <2>1, <2>2, <2>3 DEF Waiting, HasMessage
<1> QED
  BY <1>3, <1>4, <1>5, <1>7 DEF d

LEMMA SwitchFacts ==
  ASSUME NEW c, Shape(c), NEW f \in HeldBy(c), NEW g \in HeldBy(c), f # g
  PROVE  LET d == add_switch(c, f, g)
         IN  /\ Shape(d) /\ d.tx = c.tx
             /\ HeldBy(d) = HeldBy(c) /\ Asked(d) = Asked(c)
             /\ Of(d, "SWITCHED") = Of(c, "SWITCHED") \cup {f, g}
             /\ \A t \in ConnType \ {"SWITCHED"} : Of(d, t) = Of(c, t) \ {f, g}
             /\ DOMAIN d.switchdb = DOMAIN c.switchdb \cup {f, g}
             /\ d.switchdb[f] = g /\ d.switchdb[g] = f
             /\ \A h \in DOMAIN c.switchdb \ {f, g} : d.switchdb[h] = c.switchdb[h]
<1> DEFINE d == add_switch(c, f, g)
           n == Len(c.conns)
           q == [i \in DOMAIN c.conns |-> IF c.conns[i].fd \in {f, g}
                                         THEN [c.conns[i] EXCEPT !.t = "SWITCHED"]
                                         ELSE c.conns[i]]
           db == [h \in DOMAIN c.switchdb \cup {f, g} |->
                    CASE h = f -> g [] h = g -> f [] h \notin {f, g} -> c.switchdb[h]]
<1>1. c.conns \in Seq(Conn) /\ n \in Nat /\ DOMAIN c.conns = 1 .. n
      /\ c = [conns |-> c.conns, tx |-> c.tx, switchdb |-> c.switchdb]
      /\ \A i \in 1 .. n : c.conns[i] \in Conn
  BY ShapeFields DEF Shape
<1>2. ASSUME NEW i \in 1 .. n
      PROVE  /\ q[i] \in Conn /\ q[i].fd = c.conns[i].fd /\ q[i].out = c.conns[i].out
             /\ q[i].t = IF c.conns[i].fd \in {f, g} THEN "SWITCHED" ELSE c.conns[i].t
  BY <1>1 DEF Conn, ConnType
<1>3. q \in Seq(Conn) /\ Len(q) = n
  <2>1. q = [i \in 1 .. n |-> q[i]]
    BY <1>1
  <2> HIDE DEF q
  <2> QED
    BY <1>1, <1>2, <2>1
<1>4. d = [conns |-> q, tx |-> c.tx, switchdb |-> db]
  <2>1. d = [c EXCEPT !.conns = q, !.switchdb = db]
    BY DEF add_switch
  <2> HIDE DEF d, q, db
  <2> QED
    BY <1>1, <2>1
<1> HIDE DEF q, d
<1>5. d.conns = q /\ d.tx = c.tx /\ d.switchdb = db
  BY <1>4
<1>6. DOMAIN db = DOMAIN c.switchdb \cup {f, g} /\ db[f] = g /\ db[g] = f
      /\ (\A h \in DOMAIN c.switchdb \ {f, g} : db[h] = c.switchdb[h])
      /\ db = [h \in DOMAIN db |-> db[h]]
  OBVIOUS
<1> HIDE DEF db
<1>7. /\ Shape(d) /\ HeldBy(d) = HeldBy(c) /\ Asked(d) = Asked(c)
  <2>1. c.tx \in Seq(Msg)
    BY DEF Shape
  <2>2. \A i \in 1 .. Len(c.conns) : q[i].fd = c.conns[i].fd /\ q[i].out = c.conns[i].out
    BY <1>2
  <2>3. d = [conns |-> d.conns, tx |-> d.tx, switchdb |-> d.switchdb]
        /\ d.switchdb = [h \in DOMAIN d.switchdb |-> d.switchdb[h]]
    BY <1>4, <1>5, <1>6
  <2>4. Shape(d) /\ HeldBy(d) = HeldBy(c)
    BY <1>3, <1>5, <2>1, <2>2, <2>3, Relabelled
  <2>5. Asked(d) = Asked(c)
    BY <1>3, <1>5, <2>2, SameAsked
  <2> QED
    BY <2>4, <2>5
<1>8. ASSUME NEW h \in Fd, NEW t
      PROVE  h \in Of(d, t) <=> IF h \in {f, g} THEN t = "SWITCHED" ELSE h \in Of(c, t)
  <2>1. h \in Of(d, t) <=> \E i \in 1 .. n : q[i].fd = h /\ q[i].t = t
    BY <1>3, <1>5 DEF Of
  <2>2. CASE h \in {f, g}
    <3>1. PICK i \in 1 .. n : c.conns[i].fd = h
      BY <2>2 DEF HeldBy, Registered
    <3> QED
      BY <1>2, <2>1, <2>2, <3>1
  <2>3. CASE h \notin {f, g}
    BY <1>2, <2>1, <2>3 DEF Of
  <2> QED
    BY <2>2, <2>3
<1>9. f \in Fd /\ g \in Fd /\ \A t : Of(c, t) \subseteq Fd /\ Of(d, t) \subseteq Fd
  BY DEF HeldBy, Of
<1>10. Of(d, "SWITCHED") = Of(c, "SWITCHED") \cup {f, g}
  BY <1>8, <1>9
<1>11. ASSUME NEW t \in ConnType \ {"SWITCHED"}
       PROVE  Of(d, t) = Of(c, t) \ {f, g}
  BY <1>8, <1>9
<1> QED
  BY <1>5, <1>6, <1>7, <1>10, <1>11 DEF d

LEMMA NukeFacts ==
  ASSUME NEW c, Shape(c), NEW f \in DOMAIN c.switchdb
  PROVE  LET d == nuke(c, f)
         IN  /\ Shape(d) /\ d.tx = c.tx /\ d.conns = c.conns
             /\ DOMAIN d.switchdb = DOMAIN c.switchdb \ {f, getDest(c, f)}
             /\ \A h \in DOMAIN d.switchdb : d.switchdb[h] = c.switchdb[h]
<1> DEFINE d == nuke(c, f)
           D == DOMAIN c.switchdb \ {f, getDest(c, f)}
           db == [h \in D |-> c.switchdb[h]]
<1>1. d = [conns |-> c.conns, tx |-> c.tx, switchdb |-> db]
  <2>1. d = [c EXCEPT !.switchdb = db]
    BY DEF nuke, Restrict
  <2>2. c = [conns |-> c.conns, tx |-> c.tx, switchdb |-> c.switchdb]
    BY DEF Shape
  <2> HIDE DEF d, db
  <2> QED
    BY <2>1, <2>2
<1> HIDE DEF d
<1>2. d.conns = c.conns /\ d.tx = c.tx /\ d.switchdb = db
  BY <1>1
<1>3. DOMAIN db = D /\ (\A h \in D : db[h] = c.switchdb[h]) /\ db = [h \in DOMAIN db |-> db[h]]
  OBVIOUS
<1> HIDE DEF db, D
<1>4. Shape(d)
  BY <1>1, <1>2, <1>3 DEF Shape
<1> QED
  BY <1>2, <1>3, <1>4 DEF d, D

(* A pair that ended leaves with its entries.                              *)
LEMMA DropPairFacts ==
  ASSUME NEW c, Shape(c), Paired(c), Waiting(c) \subseteq HeldBy(c),
         NEW f \in DOMAIN c.switchdb
  PROVE  LET d == DropPair(c, f)
             g == getDest(c, f)
         IN  /\ g \in Of(c, "SWITCHED") /\ f \in Of(c, "SWITCHED") /\ g # f
             /\ Shape(d) /\ Paired(d)
             /\ HeldBy(d) = HeldBy(c) \ {f, g}
             /\ \A t : Of(d, t) = Of(c, t) \ {f, g}
             /\ Asked(d) = Asked(c) \ {f, g}
             /\ Waiting(d) = Waiting(c) \ {f, g}
<1>1. PICK g : g = getDest(c, f)
  OBVIOUS
<1>2. PICK a : a = nuke(c, f)
  OBVIOUS
<1>3. PICK b : b = close_fd(a, f)
  OBVIOUS
<1>4. PICK d : d = close_fd(b, g)
  OBVIOUS
<1>5. DropPair(c, f) = d
  BY <1>1, <1>2, <1>3, <1>4 DEF DropPair
<1>6. g = c.switchdb[f] /\ g \in DOMAIN c.switchdb /\ g # f /\ c.switchdb[g] = f
      /\ DOMAIN c.switchdb = Of(c, "SWITCHED")
  BY <1>1 DEF getDest, Paired
<1>7. f \in Fd /\ g \in Fd
  BY <1>6 DEF Of
<1>8. /\ Shape(a) /\ a.tx = c.tx /\ a.conns = c.conns
      /\ DOMAIN a.switchdb = DOMAIN c.switchdb \ {f, g}
      /\ \A h \in DOMAIN a.switchdb : a.switchdb[h] = c.switchdb[h]
  BY <1>1, <1>2, NukeFacts
<1>9. HeldBy(a) = HeldBy(c) /\ Asked(a) = Asked(c) /\ (\A t : Of(a, t) = Of(c, t))
      /\ Waiting(a) = Waiting(c)
  BY <1>8 DEF HeldBy, Asked, Of, Waiting, Registered
<1>10. f \in HeldBy(c) /\ g \in HeldBy(c)
  BY <1>6, OfHeld
<1>11. /\ Shape(b) /\ b.switchdb = a.switchdb
       /\ HeldBy(b) = HeldBy(c) \ {f}
       /\ \A t : Of(b, t) = Of(c, t) \ {f}
       /\ Asked(b) = Asked(c) \ {f}
       /\ Waiting(b) = Waiting(c) \ {f}
  BY <1>3, <1>7, <1>8, <1>9, <1>10, CloseFdFacts
<1>12. g \in HeldBy(b)
  BY <1>6, <1>10, <1>11
<1>13. /\ Shape(d) /\ d.switchdb = b.switchdb
       /\ HeldBy(d) = HeldBy(b) \ {g}
       /\ \A t : Of(d, t) = Of(b, t) \ {g}
       /\ Asked(d) = Asked(b) \ {g}
       /\ Waiting(d) = Waiting(b) \ {g}
  BY <1>4, <1>7, <1>11, <1>12, CloseFdFacts
<1>14. /\ HeldBy(d) = HeldBy(c) \ {f, g}
       /\ \A t : Of(d, t) = Of(c, t) \ {f, g}
       /\ Asked(d) = Asked(c) \ {f, g}
       /\ Waiting(d) = Waiting(c) \ {f, g}
  BY <1>11, <1>13
<1>15. Paired(d)
  <2>1. DOMAIN d.switchdb = Of(d, "SWITCHED")
    BY <1>6, <1>8, <1>11, <1>13, <1>14
  <2>2. ASSUME NEW h \in DOMAIN d.switchdb
        PROVE  d.switchdb[h] \in DOMAIN d.switchdb \ {h} /\ d.switchdb[d.switchdb[h]] = h
    <3>1. h \in DOMAIN c.switchdb /\ h # f /\ h # g /\ d.switchdb[h] = c.switchdb[h]
      BY <1>8, <1>11, <1>13
    <3>2. c.switchdb[h] \in DOMAIN c.switchdb \ {h} /\ c.switchdb[c.switchdb[h]] = h
      BY <3>1 DEF Paired
    <3>3. c.switchdb[h] # f /\ c.switchdb[h] # g
      BY <1>6, <3>1, <3>2
    <3>4. c.switchdb[h] \in DOMAIN d.switchdb
          /\ d.switchdb[c.switchdb[h]] = c.switchdb[c.switchdb[h]]
      BY <1>8, <1>11, <1>13, <3>2, <3>3
    <3> QED
      BY <3>1, <3>2, <3>4
  <2> QED
    BY <2>1, <2>2 DEF Paired
<1> QED
  BY <1>1, <1>5, <1>6, <1>13, <1>14, <1>15

(* The first message of a descriptor is taken: the others still wait, and  *)
(* POLLOUT is no longer asked.                                             *)
Taken(c, i, k) == [ClearOut(c, i) EXCEPT !.tx = ipc_messages_del(@, k)]

Lighter(d, c, f) ==
  /\ Shape(d) /\ d.switchdb = c.switchdb
  /\ HeldBy(d) = HeldBy(c) /\ \A t : Of(d, t) = Of(c, t)
  /\ Asked(d) = Asked(c) \ {f}
  /\ Waiting(d) \subseteq Waiting(c) /\ Waiting(c) \ {f} \subseteq Waiting(d)

LEMMA TakeFacts ==
  ASSUME NEW c, Shape(c), NEW i \in 1 .. Len(c.conns), NEW k \in 1 .. Len(c.tx),
         NEW f, c.conns[i].fd = f, c.tx[k].fd = f, NEW d, d = Taken(c, i, k)
  PROVE  Lighter(d, c, f)
<1> DEFINE n == Len(c.conns)
           q == [c.conns EXCEPT ![i] = [c.conns[i] EXCEPT !.out = FALSE]]
           s == c.tx
           t == SwapRemove(s, k)
<1>1. n \in Nat /\ c.conns \in Seq(Conn) /\ s \in Seq(Msg) /\ Len(s) \in Nat /\ f \in Fd
      /\ (\A j \in 1 .. n : c.conns[j] \in Conn)
      /\ c = [conns |-> c.conns, tx |-> c.tx, switchdb |-> c.switchdb]
  BY ShapeFields DEF Shape
<1>2. t \in Seq(Msg) /\ Len(t) = Len(s) - 1
      /\ \A j \in 1 .. Len(s) - 1 : t[j] = IF j = k THEN s[Len(s)] ELSE s[j]
  BY <1>1, SwapRemoveFacts
<1>3. ipc_messages_del(s, k) = t
  BY DEF ipc_messages_del
<1> HIDE DEF t
<1>4. d = [conns |-> q, tx |-> t, switchdb |-> c.switchdb]
  <2>1. ClearOut(c, i) = [c EXCEPT !.conns = q]
    BY DEF ClearOut
  <2> HIDE DEF q
  <2>2. ClearOut(c, i) = [conns |-> q, tx |-> c.tx, switchdb |-> c.switchdb]
    BY <1>1, <2>1
  <2> QED
    BY <1>3, <2>2 DEF Taken
<1>5. /\ \A j \in 1 .. n : q[j] \in Conn /\ q[j].fd = c.conns[j].fd /\ q[j].t = c.conns[j].t
                           /\ (q[j].out <=> j # i /\ c.conns[j].out)
      /\ q \in Seq(Conn) /\ Len(q) = n
  <2> DEFINE new == [c.conns[i] EXCEPT !.out = FALSE]
  <2>1. new \in Conn /\ new.fd = c.conns[i].fd /\ new.t = c.conns[i].t /\ ~new.out
    BY <1>1 DEF Conn
  <2> HIDE DEF new
  <2>2. q = [c.conns EXCEPT ![i] = new]
    BY DEF new
  <2> HIDE DEF q
  <2>3. q \in Seq(Conn) /\ Len(q) = n /\ \A j \in 1 .. n : q[j] = IF j = i THEN new ELSE c.conns[j]
    BY <1>1, <2>1, <2>2
  <2> QED
    BY <1>1, <2>1, <2>3
<1>6. q \in Seq(Conn) /\ Len(q) = n
  BY <1>5
<1> HIDE DEF q
<1>7. d.conns = q /\ d.tx = t /\ d.switchdb = c.switchdb
  BY <1>4
<1>8. Shape(d) /\ HeldBy(d) = HeldBy(c) /\ \A u : Of(d, u) = Of(c, u)
  <2>1. c.switchdb = [h \in DOMAIN c.switchdb |-> c.switchdb[h]]
    BY DEF Shape
  <2>2. \A j \in 1 .. Len(c.conns) : q[j].fd = c.conns[j].fd
    BY <1>5
  <2>4. \A j \in 1 .. Len(c.conns) : q[j].t = c.conns[j].t
    BY <1>5
  <2>3. d = [conns |-> d.conns, tx |-> d.tx, switchdb |-> d.switchdb]
        /\ d.switchdb = [h \in DOMAIN d.switchdb |-> d.switchdb[h]]
    BY <1>4, <1>7, <2>1
  <2>7. q \in Seq(Conn) /\ Len(q) = Len(c.conns) /\ d.conns = q /\ d.tx \in Seq(Msg)
    BY <1>2, <1>6, <1>7
  <2>5. Shape(d) /\ HeldBy(d) = HeldBy(c)
    BY <2>2, <2>3, <2>7, Relabelled
  <2>6. \A u : Of(d, u) = Of(c, u)
    BY <2>2, <2>4, <2>7, SameTypes
  <2> QED
    BY <2>5, <2>6
<1>9. Asked(d) = Asked(c) \ {f}
  <2> SUFFICES ASSUME NEW g \in Fd
               PROVE  g \in Asked(d) <=> g \in Asked(c) /\ g # f
    BY DEF Asked
  <2>1. g \in Asked(d) <=> \E j \in 1 .. n : q[j].fd = g /\ q[j].out
    BY <1>6, <1>7 DEF Asked
  <2>2. \A j \in 1 .. n : c.conns[j].fd = f => j = i
    BY DEF Shape
  <2> QED
    BY <1>5, <2>1, <2>2, SMTT(30) DEF Asked
<1>10. Waiting(d) \subseteq Waiting(c)
  <2>1. \A j \in 1 .. Len(t) : \E l \in 1 .. Len(s) : t[j] = s[l]
    BY <1>1, <1>2
  <2> QED
    BY <1>7, <2>1 DEF Waiting, HasMessage
<1>11. ASSUME NEW g \in Waiting(c) \ {f}
       PROVE  g \in Waiting(d)
  <2>1. PICK l \in 1 .. Len(s) : s[l].fd = g
    BY DEF Waiting, HasMessage
  <2>2. l # k /\ g \in Fd
    BY <2>1 DEF Waiting
  <2>3. \E j \in 1 .. Len(t) : t[j] = s[l]
    <3>1. CASE l = Len(s)
      <4>1. k \in 1 .. Len(s) - 1 /\ t[k] = s[l]
        BY <1>1, <1>2, <2>2, <3>1
      <4> QED
        BY <1>2, <4>1
    <3>2. CASE l # Len(s)
      <4>1. l \in 1 .. Len(s) - 1 /\ t[l] = s[l]
        BY <1>1, <1>2, <2>2, <3>2
      <4> QED
        BY <1>2, <4>1
    <3> QED
      BY <3>1, <3>2
  <2> QED
    BY <1>7, <2>1, <2>2, <2>3 DEF Waiting, HasMessage
<1> QED
  BY <1>7, <1>8, <1>9, <1>10, <1>11 DEF Lighter

(* What poll(2) is asked for.                                              *)
LEMMA MarkedFacts ==
  ASSUME Shape(ctx)
  PROVE  LET d == [ctx EXCEPT !.conns = Marked]
         IN  /\ Shape(d) /\ d.switchdb = ctx.switchdb /\ d.tx = ctx.tx
             /\ d.conns = Marked /\ Len(d.conns) = Len(ctx.conns)
             /\ \A i \in 1 .. Len(ctx.conns) :
                  /\ d.conns[i].fd = ctx.conns[i].fd /\ d.conns[i].t = ctx.conns[i].t
                  /\ d.conns[i].out <=> ctx.conns[i].out \/ HasMessage(ctx.tx, ctx.conns[i].fd)
             /\ HeldBy(d) = HeldBy(ctx) /\ \A t : Of(d, t) = Of(ctx, t)
             /\ Asked(d) \subseteq Asked(ctx) \cup Waiting(ctx)
<1> DEFINE d == [ctx EXCEPT !.conns = Marked]
           n == Len(ctx.conns)
           q == Marked
<1>1. n \in Nat /\ ctx.conns \in Seq(Conn) /\ ctx.tx \in Seq(Msg)
      /\ (\A j \in 1 .. n : ctx.conns[j] \in Conn)
      /\ ctx = [conns |-> ctx.conns, tx |-> ctx.tx, switchdb |-> ctx.switchdb]
  BY ShapeFields DEF Shape
<1>2. ASSUME NEW j \in 1 .. n
      PROVE  /\ q[j] \in Conn /\ q[j].fd = ctx.conns[j].fd /\ q[j].t = ctx.conns[j].t
             /\ q[j].out <=> ctx.conns[j].out \/ HasMessage(ctx.tx, ctx.conns[j].fd)
  <2>1. PICK o \in BOOLEAN : o = (ctx.conns[j].out \/ HasMessage(ctx.tx, ctx.conns[j].fd))
    BY <1>1 DEF Conn, HasMessage
  <2>2. q[j] = [ctx.conns[j] EXCEPT !.out = o]
    BY <2>1 DEF Marked
  <2> HIDE DEF q
  <2>3. q[j] \in Conn /\ q[j].fd = ctx.conns[j].fd /\ q[j].t = ctx.conns[j].t /\ q[j].out = o
    BY <1>1, <2>2 DEF Conn
  <2> QED
    BY <2>1, <2>3
<1>3. q \in Seq(Conn) /\ Len(q) = n
  <2>1. q = [j \in 1 .. n |-> q[j]]
    BY DEF Marked
  <2> HIDE DEF q
  <2> QED
    BY <1>1, <1>2, <2>1
<1> HIDE DEF q
<1>4. d = [conns |-> q, tx |-> ctx.tx, switchdb |-> ctx.switchdb]
  BY <1>1 DEF q
<1> HIDE DEF d
<1>5. d.conns = q /\ d.tx = ctx.tx /\ d.switchdb = ctx.switchdb
  BY <1>4
<1>6. Shape(d) /\ HeldBy(d) = HeldBy(ctx) /\ \A u : Of(d, u) = Of(ctx, u)
  <2>1. ctx.switchdb = [h \in DOMAIN ctx.switchdb |-> ctx.switchdb[h]]
    BY DEF Shape
  <2>2. \A j \in 1 .. Len(ctx.conns) : q[j].fd = ctx.conns[j].fd
    BY <1>2
  <2>4. \A j \in 1 .. Len(ctx.conns) : q[j].t = ctx.conns[j].t
    BY <1>2
  <2>3. d = [conns |-> d.conns, tx |-> d.tx, switchdb |-> d.switchdb]
        /\ d.switchdb = [h \in DOMAIN d.switchdb |-> d.switchdb[h]]
    BY <1>4, <1>5, <2>1
  <2>5. Shape(d) /\ HeldBy(d) = HeldBy(ctx)
    BY <1>1, <1>3, <1>5, <2>2, <2>3, Relabelled
  <2>6. \A u : Of(d, u) = Of(ctx, u)
    BY <1>1, <1>3, <1>5, <2>2, <2>4, SameTypes
  <2> QED
    BY <2>5, <2>6
<1>7. Asked(d) \subseteq Asked(ctx) \cup Waiting(ctx)
  BY <1>2, <1>3, <1>5 DEF Asked, Waiting
<1> QED
  BY <1>2, <1>3, <1>5, <1>6, <1>7 DEF d, q

-----------------------------------------------------------------------------
(* The inductive invariant, for a context c, a descriptor table t, a       *)
(* program that is at a, and the last event e.                             *)

ZFile ==
  [id : Nat, sort : {"closed", "listen", "sock"}, rx : Seq(Body), peer : {"up", "gone", "reset"}]

FilesOK(t) == t \in [Fd -> ZFile]
OpenIn(t) == {f \in Fd : IsOpen(t, f)}

(* POLLOUT is asked where a message waits, which is on a connection.       *)
CtxOK(c) ==
  Shape(c) /\ Paired(c) /\ Asked(c) \subseteq Waiting(c) /\ Waiting(c) \subseteq HeldBy(c)

Listening(c) == Of(c, "SERVER") \cup Of(c, "EXTERNAL")

(* What is open is held, or aside in X; the types SERVER and EXTERNAL are  *)
(* for the sockets that listen only.                                       *)
Owned(c, t, X) ==
  OpenIn(t) = HeldBy(c) \cup X /\ \A f \in Listening(c) : t[f].sort = "listen"

Aside(a) == IF a.pc \in {"name", "ok"} THEN {a.fd} ELSE {}

Entry(c, i, f, type) ==
  i \in 1 .. Len(c.conns) /\ c.conns[i].fd = f /\ c.conns[i].t = type

(* A connection that poll(2) reported is still where it was; one that      *)
(* listens still has a client to accept.                                   *)
Reported(c, t, a) ==
  /\ a.pc \in ConnType => Entry(c, a.i, a.fd, a.pc)
  /\ a.pc \in {"SERVER", "EXTERNAL"} => t[a.fd].rx # <<>>
  /\ a.pc = "OUT" => a.i \in 1 .. Len(c.conns) /\ c.conns[a.i].fd = a.fd

(* So is the one of the event, for as long as its handler runs.            *)
HandlerOK(c, t, a, e) ==
  /\ (a.pc = "event" /\ e.t = "MESSAGE_RX") \/ a.pc \in {"ok", "daemon"} =>
       Entry(c, e.index, e.origin, "IPC") /\ e.m \in Body
  /\ a.pc = "event" /\ e.t = "EXTERNAL" =>
       e.origin \in Of(c, "EXTERNAL") /\ t[e.origin].rx # <<>>
  /\ a.pc = "ok" => a.i = e.index
  /\ a.pc \in {"name", "ok"} => a.fd \in Fd \ HeldBy(c)
  /\ a.pc = "daemon" => a.fd \in Of(c, "IPC") \ {e.origin}

ZOK(c, t, a, e) ==
  CtxOK(c) /\ FilesOK(t) /\ Owned(c, t, Aside(a)) /\ Reported(c, t, a) /\ HandlerOK(c, t, a, e)

ZInv == ZOK(ctx, files, at, event) /\ nfiles \in Nat /\ nmsgs \in Nat

-----------------------------------------------------------------------------
(* What each operation does to the descriptor table.                       *)

LEMMA FileFields ==
  ASSUME NEW t, FilesOK(t), NEW f \in Fd
  PROVE  /\ DOMAIN t = Fd /\ t[f] \in ZFile /\ t[f].id \in Nat /\ t[f].rx \in Seq(Body)
         /\ t[f].sort \in {"closed", "listen", "sock"}
         /\ f \in Free(t) <=> t[f].sort = "closed"
         /\ f \in OpenIn(t) <=> t[f].sort # "closed"
BY DEF FilesOK, ZFile, Free, OpenIn, IsOpen

(* u is a table where S is open, and no sort but those of F is not that of *)
(* t.                                                                      *)
Table(u, S, t, F) ==
  FilesOK(u) /\ OpenIn(u) = S /\ \A g \in Fd \ F : u[g].sort = t[g].sort

LEMMA OpenFacts ==
  ASSUME NEW t, FilesOK(t), NEW f \in Fd, NEW id \in Nat, NEW sort \in {"listen", "sock"},
         NEW u, u = OpenFile(t, f, id, sort)
  PROVE  Table(u, OpenIn(t) \cup {f}, t, {f})
<1> DEFINE new == [id |-> id, sort |-> sort, rx |-> <<>>, peer |-> "up"]
<1>1. new \in ZFile /\ new.sort = sort
  BY DEF ZFile
<1> HIDE DEF new
<1>2. u = [t EXCEPT ![f] = new]
  BY DEF OpenFile, new
<1>3. FilesOK(u) /\ u[f].sort = sort /\ \A g \in Fd \ {f} : u[g] = t[g]
  BY <1>1, <1>2 DEF FilesOK
<1>4. OpenIn(u) = OpenIn(t) \cup {f}
  BY <1>3 DEF OpenIn, IsOpen
<1> QED
  BY <1>3, <1>4 DEF Table

LEMMA ShutFacts ==
  ASSUME NEW t, FilesOK(t), NEW F \in SUBSET Fd, NEW u, u = CloseFiles(t, F)
  PROVE  Table(u, OpenIn(t) \ F, t, F)
<1>1. ClosedFile \in ZFile /\ ClosedFile.sort = "closed"
  BY DEF ClosedFile, ZFile
<1>2. u = [f \in Fd |-> IF f \in F THEN ClosedFile ELSE t[f]]
  BY DEF CloseFiles
<1>3. FilesOK(u) /\ (\A g \in Fd \ F : u[g] = t[g]) /\ \A g \in F : u[g].sort = "closed"
  BY <1>1, <1>2 DEF FilesOK
<1>4. OpenIn(u) = OpenIn(t) \ F
  BY <1>3 DEF OpenIn, IsOpen
<1> QED
  BY <1>3, <1>4 DEF Table

LEMMA ShutOne ==
  ASSUME NEW t, FilesOK(t), NEW f \in Fd, NEW u, u = CloseFile(t, f)
  PROVE  Table(u, OpenIn(t) \ {f}, t, {f})
<1>1. \A g \in Fd : CloseFile(t, f)[g] = CloseFiles(t, {f})[g]
  BY DEF CloseFile, CloseFiles, FilesOK
<1>2. CloseFile(t, f) = [g \in Fd |-> CloseFile(t, f)[g]]
  BY DEF CloseFile, FilesOK
<1>3. CloseFiles(t, {f}) = [g \in Fd |-> CloseFiles(t, {f})[g]]
  BY DEF CloseFiles
<1>4. u = CloseFiles(t, {f})
  BY <1>1, <1>2, <1>3
<1>5. PICK F \in SUBSET Fd : F = {f}
  OBVIOUS
<1>6. u = CloseFiles(t, F)
  BY <1>4, <1>5
<1> QED
  BY <1>5, <1>6, ShutFacts

(* The queue of one file changes.                                          *)
SetQueue(t, f, q) == [t EXCEPT ![f].rx = q]

LEMMA QueueFacts ==
  ASSUME NEW t, FilesOK(t), NEW f \in Fd, NEW q \in Seq(Body), NEW u, u = SetQueue(t, f, q)
  PROVE  Table(u, OpenIn(t), t, {})
<1> DEFINE new == [t[f] EXCEPT !.rx = q]
<1>1. new \in ZFile /\ new.sort = t[f].sort
  BY FileFields DEF ZFile
<1>2. u = [t EXCEPT ![f] = new]
  BY DEF FilesOK, SetQueue
<1> HIDE DEF new
<1>3. FilesOK(u) /\ u[f] = new /\ \A g \in Fd \ {f} : u[g] = t[g]
  BY <1>1, <1>2 DEF FilesOK
<1>4. \A g \in Fd : u[g].sort = t[g].sort
  BY <1>1, <1>3
<1>5. OpenIn(u) = OpenIn(t)
  BY <1>4 DEF OpenIn, IsOpen
<1> QED
  BY <1>3, <1>4, <1>5 DEF Table

LEMMA DrainFacts ==
  ASSUME NEW t, FilesOK(t), NEW f \in Fd, NEW u, u = Drain(t, f)
  PROVE  Table(u, OpenIn(t), t, {})
<1>0. <<>> \in Seq(Body)
  OBVIOUS
<1>1. PICK q \in Seq(Body) : q = <<>>
  BY <1>0
<1>2. u = SetQueue(t, f, q)
  BY <1>1 DEF Drain, SetQueue
<1> QED
  BY <1>2, QueueFacts

LEMMA AcceptFacts ==
  ASSUME NEW t, FilesOK(t), NEW s \in Fd, NEW f \in Fd, s # f, t[s].rx # <<>>,
         NEW u, u = AcceptFile(t, s, f)
  PROVE  Table(u, OpenIn(t) \cup {f}, t, {f})
<1>1. PICK r \in Seq(Body) : r = t[s].rx /\ r # <<>>
  BY FileFields
<1>2. Head(r) \in Body /\ Tail(r) \in Seq(Body)
  BY <1>1
<1>3. PICK id \in Nat : id = Head(r).id
  BY <1>2 DEF Body
<1>4. PICK sort \in {"listen", "sock"} : sort = "sock"
  OBVIOUS
<1>5. PICK v : v = OpenFile(t, f, id, sort)
  OBVIOUS
<1>6. Table(v, OpenIn(t) \cup {f}, t, {f})
  BY <1>5, OpenFacts
<1>7. v[s].rx = r
  BY <1>1, <1>5 DEF OpenFile, FilesOK
<1>8. PICK q \in Seq(Body) : q = Tail(r)
  BY <1>2
<1>9. u = SetQueue(v, s, q)
  BY <1>1, <1>3, <1>4, <1>5, <1>7, <1>8 DEF AcceptFile, SetQueue
<1>10. FilesOK(v)
  BY <1>6 DEF Table
<1>11. Table(u, OpenIn(v), v, {})
  BY <1>9, <1>10, QueueFacts
<1> QED
  BY <1>6, <1>11 DEF Table

-----------------------------------------------------------------------------
(* One lemma per action.                                                   *)

(* Between two events, and after an event that is only printed, nothing is *)
(* asked of the connections.                                               *)
Quiet(a, e) ==
  \/ a.pc \in {"wait", "ended"}
  \/ a.pc = "event" /\ e.t \notin {"MESSAGE_RX", "EXTERNAL"}

LEMMA QuietOK ==
  ASSUME NEW c, NEW t, NEW a, NEW e, Quiet(a, e), CtxOK(c), FilesOK(t), Owned(c, t, {})
  PROVE  ZOK(c, t, a, e)
<1>1. Aside(a) = {}
  BY DEF Quiet, Aside
<1>2. Reported(c, t, a)
  BY DEF Quiet, Reported, ConnType
<1>3. HandlerOK(c, t, a, e)
  BY DEF Quiet, HandlerOK
<1> QED
  BY <1>1, <1>2, <1>3 DEF ZOK

LEMMA EmptyContext ==
  ASSUME NEW c, c = [conns |-> <<>>, tx |-> <<>>, switchdb |-> <<>>]
  PROVE  Shape(c) /\ HeldBy(c) = {} /\ Asked(c) = {} /\ Waiting(c) = {} /\ \A t : Of(c, t) = {}
<1>1. c.conns = <<>> /\ c.tx = <<>> /\ c.switchdb = <<>> /\ Len(c.conns) = 0 /\ Len(c.tx) = 0
  OBVIOUS
<1>2. <<>> \in Seq(Conn) /\ <<>> \in Seq(Msg)
  OBVIOUS
<1>3. c.switchdb = [f \in DOMAIN c.switchdb |-> c.switchdb[f]]
  BY <1>1
<1>4. Shape(c)
  BY <1>1, <1>2, <1>3 DEF Shape
<1>5. HeldBy(c) = {} /\ Asked(c) = {} /\ \A t : Of(c, t) = {}
  BY <1>1 DEF HeldBy, Asked, Of, Registered
<1>6. Waiting(c) = {}
  BY <1>1 DEF Waiting, HasMessage
<1> QED
  BY <1>4, <1>5, <1>6

LEMMA EndOK ==
  ASSUME ZInv, End
  PROVE  ZInv'
<1>1. PICK c : c = [conns |-> <<>>, tx |-> <<>>, switchdb |-> <<>>]
  OBVIOUS
<1>2. PICK t : t = [f \in Fd |-> ClosedFile]
  OBVIOUS
<1>3. PICK a : a = [pc |-> "ended", i |-> 0, fd |-> NoFd]
  OBVIOUS
<1>4. ctx' = c /\ files' = t /\ at' = a /\ event' = event /\ nfiles' = nfiles /\ nmsgs' = nmsgs
  BY <1>1, <1>2, <1>3 DEF End
<1>5. Shape(c) /\ HeldBy(c) = {} /\ Asked(c) = {} /\ Waiting(c) = {} /\ \A x : Of(c, x) = {}
  BY <1>1, EmptyContext
<1>6. DOMAIN c.switchdb = {}
  BY <1>1
<1>7. CtxOK(c)
  BY <1>5, <1>6 DEF CtxOK, Paired
<1>8. FilesOK(t) /\ OpenIn(t) = {}
  BY <1>2 DEF FilesOK, OpenIn, IsOpen, ClosedFile, ZFile
<1>9. Owned(c, t, {})
  BY <1>5, <1>8 DEF Owned, Listening
<1>10. Quiet(a, event)
  BY <1>3 DEF Quiet
<1>11. ZOK(c, t, a, event)
  BY <1>7, <1>8, <1>9, <1>10, QuietOK
<1> QED
  BY <1>4, <1>11 DEF ZInv

LEMMA OwnedStep ==
  ASSUME NEW c, NEW t, NEW X, Owned(c, t, X), NEW F, NEW S, NEW u, Table(u, S, t, F),
         NEW d, NEW Y, HeldBy(d) \cup Y = S, Listening(d) \subseteq Listening(c) \ F
  PROVE  Owned(d, u, Y)
<1>1. Listening(c) \subseteq Fd
  BY DEF Listening, Of
<1>2. \A f \in Listening(d) : u[f].sort = "listen"
  BY <1>1 DEF Owned, Table
<1> QED
  BY <1>2 DEF Owned, Table

LEMMA PairedSame ==
  ASSUME NEW c, Paired(c), NEW d, d.switchdb = c.switchdb, Of(d, "SWITCHED") = Of(c, "SWITCHED")
  PROVE  Paired(d)
BY DEF Paired

LEMMA AddOK ==
  ASSUME NEW c, CtxOK(c), NEW f \in Fd \ HeldBy(c), NEW type \in ConnType \ {"SWITCHED"},
         NEW d, d = add_(c, f, type)
  PROVE  /\ CtxOK(d) /\ HeldBy(d) = HeldBy(c) \cup {f} /\ Len(d.conns) = Len(c.conns) + 1
         /\ \A i \in 1 .. Len(c.conns) : d.conns[i] = c.conns[i]
<1>1. Shape(c) /\ Paired(c) /\ Asked(c) \subseteq Waiting(c) /\ Waiting(c) \subseteq HeldBy(c)
  BY DEF CtxOK
<1>2. /\ Shape(d) /\ d.switchdb = c.switchdb /\ d.tx = c.tx
      /\ HeldBy(d) = HeldBy(c) \cup {f} /\ Asked(d) = Asked(c)
      /\ \A t \in ConnType \ {type} : Of(d, t) = Of(c, t)
      /\ Len(d.conns) = Len(c.conns) + 1
      /\ \A i \in 1 .. Len(c.conns) : d.conns[i] = c.conns[i]
  BY <1>1, AddFacts
<1>3. Of(d, "SWITCHED") = Of(c, "SWITCHED")
  BY <1>2 DEF ConnType
<1>4. Paired(d)
  BY <1>1, <1>2, <1>3, PairedSame
<1>5. Waiting(d) = Waiting(c)
  BY <1>2 DEF Waiting
<1>6. CtxOK(d)
  BY <1>1, <1>2, <1>4, <1>5 DEF CtxOK
<1> QED
  BY <1>2, <1>6

LEMMA AddListening ==
  ASSUME NEW c, CtxOK(c), NEW f \in Fd \ HeldBy(c), NEW d, d = add_(c, f, "IPC")
  PROVE  Listening(d) = Listening(c) /\ Of(d, "IPC") = Of(c, "IPC") \cup {f}
<1>1. Shape(c)
  BY DEF CtxOK
<1>2. PICK type \in ConnType : type = "IPC"
  BY DEF ConnType
<1>3. d = add_(c, f, type)
  BY <1>2
<1>4. Of(d, type) = Of(c, type) \cup {f} /\ \A t \in ConnType \ {type} : Of(d, t) = Of(c, t)
  BY <1>1, <1>3, AddFacts
<1> QED
  BY <1>2, <1>4 DEF Listening, ConnType

(* A connection that is not switched is closed.                            *)
LEMMA CloseOK ==
  ASSUME NEW c, CtxOK(c), NEW i, NEW f, Entry(c, i, f, "IPC"), NEW d, d = close(c, i)
  PROVE  /\ CtxOK(d) /\ HeldBy(d) = HeldBy(c) \ {f} /\ f \in HeldBy(c)
         /\ Listening(d) \subseteq Listening(c) \ {f}
         /\ Of(d, "IPC") = Of(c, "IPC") \ {f}
<1>1. Shape(c) /\ Paired(c) /\ Asked(c) \subseteq Waiting(c) /\ Waiting(c) \subseteq HeldBy(c)
  BY DEF CtxOK
<1>2. i \in 1 .. Len(c.conns) /\ c.conns[i].fd = f /\ c.conns[i].t = "IPC"
  BY DEF Entry
<1>3. f \in Fd /\ f \in Of(c, "IPC")
  BY <1>1, <1>2, ShapeFields DEF Of
<1>4. f \in HeldBy(c) /\ f \notin Of(c, "SWITCHED")
  BY <1>1, <1>3, OfHeld, OneType
<1>5. /\ Shape(d) /\ d.switchdb = c.switchdb
      /\ HeldBy(d) = HeldBy(c) \ {f}
      /\ \A t : Of(d, t) = Of(c, t) \ {f}
      /\ Asked(d) = Asked(c) \ {f}
      /\ Waiting(d) = Waiting(c) \ {f}
  BY <1>1, <1>2, CloseFacts
<1>6. Of(d, "SWITCHED") = Of(c, "SWITCHED")
  BY <1>4, <1>5
<1>7. Paired(d)
  BY <1>1, <1>5, <1>6, PairedSame
<1>8. CtxOK(d)
  BY <1>1, <1>5, <1>7 DEF CtxOK
<1> QED
  BY <1>4, <1>5, <1>8 DEF Listening

LEMMA CloseFdOK ==
  ASSUME NEW c, CtxOK(c), NEW f \in Of(c, "IPC"), NEW d, d = close_fd(c, f)
  PROVE  /\ CtxOK(d) /\ HeldBy(d) = HeldBy(c) \ {f} /\ f \in HeldBy(c)
         /\ Listening(d) \subseteq Listening(c) \ {f}
         /\ Of(d, "IPC") = Of(c, "IPC") \ {f}
<1>1. Shape(c)
  BY DEF CtxOK
<1>2. f \in HeldBy(c) /\ Registered(c, f)
  BY <1>1, OfHeld DEF HeldBy
<1>3. PICK i : i = fd_to_index(c, f)
  OBVIOUS
<1>4. i \in 1 .. Len(c.conns) /\ c.conns[i].fd = f
  BY <1>2, <1>3, IndexFacts
<1>5. PICK j \in 1 .. Len(c.conns) : c.conns[j].fd = f /\ c.conns[j].t = "IPC"
  BY DEF Of
<1>6. i = j
  BY <1>1, <1>4, <1>5 DEF Shape
<1>7. Entry(c, i, f, "IPC")
  BY <1>5, <1>6 DEF Entry
<1>8. d = close(c, i)
  BY <1>2, <1>3 DEF close_fd
<1> QED
  BY <1>7, <1>8, CloseOK

LEMMA EntryFacts ==
  ASSUME NEW c, Shape(c), NEW i, NEW f, NEW type, Entry(c, i, f, type)
  PROVE  f \in Of(c, type) /\ f \in HeldBy(c) /\ f \in Fd
<1>1. i \in 1 .. Len(c.conns) /\ c.conns[i].fd = f /\ c.conns[i].t = type
  BY DEF Entry
<1>2. f \in Fd
  BY <1>1, ShapeFields
<1>3. f \in Of(c, type)
  BY <1>1, <1>2 DEF Of
<1> QED
  BY <1>2, <1>3, OfHeld

LEMMA PollsOK ==
  ASSUME ZInv, Polls
  PROVE  ZInv'
<1>1. /\ CtxOK(ctx) /\ FilesOK(files) /\ Owned(ctx, files, Aside(at))
      /\ nfiles \in Nat /\ nmsgs \in Nat /\ at.pc = "wait"
  BY DEF ZInv, ZOK, Polls
<1>2. Shape(ctx) /\ Paired(ctx) /\ Asked(ctx) \subseteq Waiting(ctx) /\ Waiting(ctx) \subseteq HeldBy(ctx)
  BY <1>1 DEF CtxOK
<1>3. Owned(ctx, files, {})
  BY <1>1 DEF Aside
<1>4. PICK d : d = [ctx EXCEPT !.conns = Marked]
  OBVIOUS
<1>5. /\ Shape(d) /\ d.switchdb = ctx.switchdb /\ d.tx = ctx.tx
      /\ d.conns = Marked /\ Len(d.conns) = Len(ctx.conns)
      /\ HeldBy(d) = HeldBy(ctx) /\ (\A t : Of(d, t) = Of(ctx, t))
      /\ Asked(d) \subseteq Asked(ctx) \cup Waiting(ctx)
  BY <1>2, <1>4, MarkedFacts
<1>6. \A i \in 1 .. Len(ctx.conns) : d.conns[i].fd = ctx.conns[i].fd /\ d.conns[i].t = ctx.conns[i].t
  BY <1>2, <1>4, MarkedFacts
<1>7. PICK i \in 1 .. Len(ctx.conns) :
        Branch(d.conns[i]) # "none"
        /\ at' = [pc |-> Branch(d.conns[i]), i |-> i, fd |-> ctx.conns[i].fd]
  BY <1>5 DEF Polls
<1>8. PICK k : k = d.conns[i]
  OBVIOUS
<1>9. PICK a : a = [pc |-> Branch(k), i |-> i, fd |-> ctx.conns[i].fd]
  OBVIOUS
<1>10. a.pc = Branch(k) /\ a.i = i /\ a.fd = k.fd /\ Branch(k) # "none"
  BY <1>6, <1>7, <1>8, <1>9
<1>11. k.t \in ConnType /\ k.fd \in Fd
  BY <1>5, <1>7, <1>8, ShapeFields
<1>12. Branch(k) \in {k.t, "OUT"}
  BY <1>10 DEF Branch
<1>13. CtxOK(d)
  <2>1. Waiting(d) = Waiting(ctx)
    BY <1>5 DEF Waiting
  <2>2. Paired(d)
    BY <1>2, <1>5, PairedSame
  <2> QED
    BY <1>2, <1>5, <2>1, <2>2 DEF CtxOK
<1>14. Owned(d, files, {})
  BY <1>3, <1>5 DEF Owned, Listening
<1>15. Aside(a) = {}
  BY <1>10, <1>11, <1>12 DEF Aside, ConnType
<1>16. Reported(d, files, a)
  <2>1. CASE Branch(k) = "OUT"
    BY <1>5, <1>7, <1>8, <1>10, <2>1 DEF Reported, ConnType
  <2>2. CASE Branch(k) = k.t
    <3>1. Branch(k) # "OUT"
      BY <1>11, <2>2 DEF ConnType
    <3>2. Entry(d, i, k.fd, k.t)
      BY <1>5, <1>7, <1>8 DEF Entry
    <3>3. ASSUME k.t \in {"SERVER", "EXTERNAL"}
          PROVE  files[k.fd].rx # <<>>
      <4>1. k.fd \in Listening(d)
        BY <1>5, <3>2, <3>3, EntryFacts DEF Listening
      <4>2. files[k.fd].sort = "listen"
        BY <1>14, <4>1 DEF Owned
      <4>3. "IN" \in Poll(files[k.fd], k.out)
        BY <1>10, <3>1 DEF Branch
      <4> QED
        BY <4>2, <4>3 DEF Poll
    <3> QED
      BY <1>10, <2>2, <3>1, <3>2, <3>3 DEF Reported
  <2> QED
    BY <1>12, <2>1, <2>2
<1>17. HandlerOK(d, files, a, event)
  BY <1>10, <1>11, <1>12 DEF HandlerOK, ConnType
<1>18. ZOK(d, files, a, event)
  BY <1>1, <1>13, <1>14, <1>15, <1>16, <1>17 DEF ZOK
<1>19. ctx' = d /\ at' = a /\ files' = files /\ event' = event /\ nfiles' = nfiles /\ nmsgs' = nmsgs
  BY <1>4, <1>7, <1>8, <1>9 DEF Polls
<1> QED
  BY <1>1, <1>18, <1>19 DEF ZInv

(* A descriptor that is free is neither held nor aside.                    *)
LEMMA FreeFacts ==
  ASSUME ZInv, NEW f \in NewFd
  PROVE  f \in Fd \ HeldBy(ctx) /\ f \notin OpenIn(files) /\ f \notin Aside(at)
<1>1. FilesOK(files) /\ OpenIn(files) = HeldBy(ctx) \cup Aside(at)
  BY DEF ZInv, ZOK, Owned
<1>2. f \in DOMAIN files /\ ~IsOpen(files, f)
  BY DEF NewFd, Free
<1>3. f \in Fd /\ f \notin OpenIn(files)
  BY <1>1, <1>2 DEF FilesOK, OpenIn
<1> QED
  BY <1>1, <1>3

LEMMA AcceptOK ==
  ASSUME ZInv, accept_new_client
  PROVE  ZInv'
<1>1. CASE End
  BY <1>1, EndOK
<1>2. ASSUME NEW f \in NewFd, ctx' = add_(ctx, f, "IPC"), files' = AcceptFile(files, at.fd, f),
             Return("CONNECTION", Len(ctx.conns) + 1, at.fd, Nothing), UNCHANGED <<nfiles, nmsgs>>
      PROVE  ZInv'
  <2>1. /\ CtxOK(ctx) /\ FilesOK(files) /\ Owned(ctx, files, Aside(at)) /\ Reported(ctx, files, at)
        /\ nfiles \in Nat /\ nmsgs \in Nat /\ at.pc = "SERVER"
    BY DEF ZInv, ZOK, accept_new_client
  <2>2. Shape(ctx) /\ Owned(ctx, files, {}) /\ OpenIn(files) = HeldBy(ctx)
    BY <2>1 DEF CtxOK, Aside, Owned
  <2>3. Entry(ctx, at.i, at.fd, "SERVER") /\ files[at.fd].rx # <<>>
    BY <2>1 DEF Reported, ConnType
  <2>4. at.fd \in Fd /\ at.fd \in HeldBy(ctx)
    BY <2>2, <2>3, EntryFacts
  <2>5. f \in Fd /\ f \notin HeldBy(ctx)
    BY <1>2, FreeFacts
  <2>6. PICK d : d = add_(ctx, f, "IPC")
    OBVIOUS
  <2>7. PICK u : u = AcceptFile(files, at.fd, f)
    OBVIOUS
  <2>8. PICK type \in ConnType \ {"SWITCHED"} : type = "IPC"
    BY DEF ConnType
  <2>9. d = add_(ctx, f, type)
    BY <2>6, <2>8
  <2>10. CtxOK(d) /\ HeldBy(d) = HeldBy(ctx) \cup {f}
    BY <2>1, <2>5, <2>9, AddOK
  <2>11. Listening(d) = Listening(ctx)
    BY <2>1, <2>5, <2>6, AddListening
  <2>12. PICK s \in Fd : s = at.fd /\ s # f /\ files[s].rx # <<>> /\ u = AcceptFile(files, s, f)
    BY <2>3, <2>4, <2>5, <2>7
  <2>13. Table(u, OpenIn(files) \cup {f}, files, {f})
    BY <2>1, <2>5, <2>12, AcceptFacts
  <2>14. Listening(d) \subseteq Listening(ctx) \ {f}
    BY <2>2, <2>5, <2>11, OfHeld DEF Listening
  <2>15. HeldBy(d) \cup {} = OpenIn(files) \cup {f}
    BY <2>2, <2>10
  <2>16. Owned(d, u, {})
    BY <2>2, <2>13, <2>14, <2>15, OwnedStep
  <2>17. FilesOK(u)
    BY <2>13 DEF Table
  <2>18. Quiet(at', event')
    BY <1>2 DEF Quiet, Return
  <2>19. ZOK(d, u, at', event')
    BY <2>10, <2>16, <2>17, <2>18, QuietOK
  <2> QED
    BY <1>2, <2>1, <2>6, <2>7, <2>19 DEF ZInv
<1> QED
  BY <1>1, <1>2 DEF accept_new_client

LEMMA ExternalOK ==
  ASSUME ZInv, External
  PROVE  ZInv'
<1>1. /\ CtxOK(ctx) /\ FilesOK(files) /\ Owned(ctx, files, Aside(at)) /\ Reported(ctx, files, at)
      /\ nfiles \in Nat /\ nmsgs \in Nat /\ at.pc = "EXTERNAL"
  BY DEF ZInv, ZOK, External
<1>2. Entry(ctx, at.i, at.fd, "EXTERNAL") /\ files[at.fd].rx # <<>> /\ Shape(ctx)
  BY <1>1 DEF Reported, ConnType, CtxOK
<1>3. at.fd \in Of(ctx, "EXTERNAL")
  BY <1>2, EntryFacts
<1>4. at'.pc = "event" /\ event'.t = "EXTERNAL" /\ event'.origin = at.fd
  BY DEF External, Return
<1>5. Aside(at) = {} /\ Aside(at') = {}
  BY <1>1, <1>4 DEF Aside
<1>6. Reported(ctx, files, at')
  BY <1>4 DEF Reported, ConnType
<1>7. HandlerOK(ctx, files, at', event')
  BY <1>2, <1>3, <1>4 DEF HandlerOK
<1>8. ZOK(ctx, files, at', event')
  BY <1>1, <1>5, <1>6, <1>7 DEF ZOK
<1> QED
  BY <1>1, <1>8 DEF ZInv, External

LEMMA ReadOK ==
  ASSUME ZInv, read
  PROVE  ZInv'
<1>1. /\ CtxOK(ctx) /\ FilesOK(files) /\ Owned(ctx, files, Aside(at)) /\ Reported(ctx, files, at)
      /\ nfiles \in Nat /\ nmsgs \in Nat /\ at.pc = "IPC"
  BY DEF ZInv, ZOK, read
<1>2. /\ Shape(ctx) /\ Owned(ctx, files, {}) /\ OpenIn(files) = HeldBy(ctx)
      /\ Entry(ctx, at.i, at.fd, "IPC")
  BY <1>1 DEF CtxOK, Aside, Owned, Reported, ConnType
<1>3. PICK f \in Fd : f = at.fd /\ f \in HeldBy(ctx)
  BY <1>2, EntryFacts
<1>4. nfiles' = nfiles /\ nmsgs' = nmsgs
  BY DEF read
<1>5. ASSUME files[f].rx # <<>>, files' = Drain(files, f), ctx' = ctx,
             Return("MESSAGE_RX", at.i, at.fd, files[f].rx[1])
      PROVE  ZInv'
  <2>1. PICK u : u = Drain(files, f)
    OBVIOUS
  <2>2. Table(u, OpenIn(files), files, {})
    BY <1>1, <2>1, DrainFacts
  <2>3. Owned(ctx, u, {})
    BY <1>2, <2>2, OwnedStep
  <2>4. at'.pc = "event" /\ event'.t = "MESSAGE_RX" /\ event'.index = at.i /\ event'.origin = at.fd
        /\ event'.m = files[f].rx[1]
    BY <1>5 DEF Return
  <2>5. PICK q \in Seq(Body) : q = files[f].rx
    BY <1>1, FileFields
  <2>6. q[1] \in Body
    BY <1>5, <2>5
  <2>7. HandlerOK(ctx, u, at', event')
    BY <1>2, <2>4, <2>5, <2>6 DEF HandlerOK
  <2>8. Reported(ctx, u, at') /\ Aside(at') = {}
    BY <2>4 DEF Reported, ConnType, Aside
  <2>9. ZOK(ctx, u, at', event')
    BY <1>1, <2>2, <2>3, <2>7, <2>8 DEF ZOK, Table
  <2> QED
    BY <1>1, <1>4, <1>5, <2>1, <2>9 DEF ZInv
<1>6. ASSUME ctx' = close(ctx, at.i), files' = CloseFile(files, f),
             Return("DISCONNECTION", at.i, Stale(at.i), Nothing)
      PROVE  ZInv'
  <2>1. PICK d : d = close(ctx, at.i)
    OBVIOUS
  <2>2. PICK u : u = CloseFile(files, f)
    OBVIOUS
  <2>3. CtxOK(d) /\ HeldBy(d) = HeldBy(ctx) \ {f} /\ Listening(d) \subseteq Listening(ctx) \ {f}
    BY <1>1, <1>2, <1>3, <2>1, CloseOK
  <2>4. Table(u, OpenIn(files) \ {f}, files, {f})
    BY <1>1, <2>2, ShutOne
  <2>5. HeldBy(d) \cup {} = OpenIn(files) \ {f}
    BY <1>2, <2>3
  <2>6. Owned(d, u, {}) /\ FilesOK(u)
    BY <1>2, <2>3, <2>4, <2>5, OwnedStep DEF Table
  <2>7. Quiet(at', event')
    BY <1>6 DEF Quiet, Return
  <2>8. ZOK(d, u, at', event')
    BY <2>3, <2>6, <2>7, QuietOK
  <2> QED
    BY <1>1, <1>4, <1>6, <2>1, <2>2, <2>8 DEF ZInv
<1> QED
  BY <1>3, <1>5, <1>6 DEF read

LEMMA WrongLengthOK ==
  ASSUME ZInv, WrongLength
  PROVE  ZInv'
BY EndOK DEF WrongLength

(* A pair that ended, in the context c that is ctx or ctx without the      *)
(* message that could not be written.                                      *)
LEMMA DropPairOK ==
  ASSUME NEW c, CtxOK(c), NEW t, FilesOK(t), Owned(c, t, {}), NEW f \in DOMAIN c.switchdb,
         NEW d, d = DropPair(c, f), NEW u, u = CloseFiles(t, {f, getDest(c, f)}),
         NEW a, NEW e, Quiet(a, e)
  PROVE  ZOK(d, u, a, e)
<1>1. Shape(c) /\ Paired(c) /\ Asked(c) \subseteq Waiting(c) /\ Waiting(c) \subseteq HeldBy(c)
  BY DEF CtxOK
<1>2. PICK g : g = getDest(c, f)
  OBVIOUS
<1>3. /\ g \in Of(c, "SWITCHED") /\ f \in Of(c, "SWITCHED")
      /\ Shape(d) /\ Paired(d)
      /\ HeldBy(d) = HeldBy(c) \ {f, g}
      /\ (\A x : Of(d, x) = Of(c, x) \ {f, g})
      /\ Asked(d) = Asked(c) \ {f, g}
      /\ Waiting(d) = Waiting(c) \ {f, g}
  BY <1>1, <1>2, DropPairFacts
<1>4. CtxOK(d)
  BY <1>1, <1>3 DEF CtxOK
<1>5. PICK F \in SUBSET Fd : F = {f, g}
  BY <1>3 DEF Of
<1>6. Table(u, OpenIn(t) \ F, t, F)
  BY <1>2, <1>5, ShutFacts
<1>7. Listening(d) \subseteq Listening(c) \ F
  BY <1>3, <1>5 DEF Listening
<1>8. HeldBy(d) \cup {} = OpenIn(t) \ F
  BY <1>3, <1>5 DEF Owned
<1>9. Owned(d, u, {}) /\ FilesOK(u)
  BY <1>6, <1>7, <1>8, OwnedStep DEF Table
<1> QED
  BY <1>4, <1>9, QuietOK

LEMMA ScheduleOK ==
  ASSUME NEW c, CtxOK(c), NEW m \in Msg, m.fd \in HeldBy(c), NEW d, d = schedule(c, m)
  PROVE  CtxOK(d) /\ HeldBy(d) = HeldBy(c) /\ Listening(d) = Listening(c)
<1>1. Shape(c) /\ Paired(c) /\ Asked(c) \subseteq Waiting(c) /\ Waiting(c) \subseteq HeldBy(c)
  BY DEF CtxOK
<1>2. /\ Shape(d) /\ d.switchdb = c.switchdb
      /\ HeldBy(d) = HeldBy(c) /\ Asked(d) = Asked(c) /\ (\A t : Of(d, t) = Of(c, t))
      /\ Waiting(d) = Waiting(c) \cup {m.fd}
  BY <1>1, ScheduleFacts
<1>3. Paired(d)
  BY <1>1, <1>2, PairedSame
<1> QED
  BY <1>1, <1>2, <1>3 DEF CtxOK, Listening

LEMMA HandleReadOK ==
  ASSUME ZInv, handle_event_read
  PROVE  ZInv'
<1>1. /\ CtxOK(ctx) /\ FilesOK(files) /\ Owned(ctx, files, Aside(at)) /\ Reported(ctx, files, at)
      /\ nfiles \in Nat /\ nmsgs \in Nat /\ at.pc = "SWITCHED"
  BY DEF ZInv, ZOK, handle_event_read
<1>2. /\ Shape(ctx) /\ Paired(ctx) /\ Owned(ctx, files, {}) /\ OpenIn(files) = HeldBy(ctx)
      /\ Entry(ctx, at.i, at.fd, "SWITCHED")
  BY <1>1 DEF CtxOK, Aside, Owned, Reported, ConnType
<1>3. PICK f \in Fd : f = at.fd /\ f \in HeldBy(ctx) /\ f \in Of(ctx, "SWITCHED")
  BY <1>2, EntryFacts
<1>4. f \in DOMAIN ctx.switchdb
  BY <1>2, <1>3 DEF Paired
<1>5. PICK to : to = getDest(ctx, f)
  OBVIOUS
<1>6. to \in Of(ctx, "SWITCHED") /\ to \in Fd /\ to \in HeldBy(ctx)
  BY <1>2, <1>4, <1>5, OfHeld DEF Paired, getDest, Of
<1>7. nfiles' = nfiles /\ nmsgs' = nmsgs
  BY DEF handle_event_read
<1>8. PICK q \in Seq(Body) : q = files[f].rx
  BY <1>1, FileFields
<1>9. ASSUME default_in(files[f]) = "NO_ERROR",
             ctx' = schedule(ctx, [fd |-> to, file |-> files[to].id, id |-> q[1].id, kind |-> q[1].kind]),
             files' = Drain(files, f), Return("SWITCH_RX", at.i, at.fd, q[1])
      PROVE  ZInv'
  <2>1. q # <<>>
    BY <1>8, <1>9 DEF default_in
  <2>2. q[1] \in Body
    BY <2>1
  <2>3. files[to].id \in Nat
    BY <1>1, <1>6, FileFields
  <2>4. PICK m \in Msg : m = [fd |-> to, file |-> files[to].id, id |-> q[1].id, kind |-> q[1].kind]
    BY <1>6, <2>2, <2>3 DEF Msg, Body
  <2>5. PICK d : d = schedule(ctx, m)
    OBVIOUS
  <2>6. m.fd = to
    BY <2>4
  <2>7. CtxOK(d) /\ HeldBy(d) = HeldBy(ctx) /\ Listening(d) = Listening(ctx)
    BY <1>1, <1>6, <2>5, <2>6, ScheduleOK
  <2>8. PICK u : u = Drain(files, f)
    OBVIOUS
  <2>9. Table(u, OpenIn(files), files, {})
    BY <1>1, <2>8, DrainFacts
  <2>13. HeldBy(d) \cup {} = OpenIn(files) /\ Listening(d) \subseteq Listening(ctx) \ {}
    BY <1>2, <2>7
  <2>10. Owned(d, u, {}) /\ FilesOK(u)
    BY <1>2, <2>9, <2>13, OwnedStep DEF Table
  <2>11. Quiet(at', event')
    BY <1>9 DEF Quiet, Return
  <2>12. ZOK(d, u, at', event')
    BY <2>7, <2>10, <2>11, QuietOK
  <2> QED
    BY <1>1, <1>7, <1>9, <2>4, <2>5, <2>8, <2>12 DEF ZInv
<1>10. ASSUME NEW type \in {"ERROR", "DISCONNECTION"},
              ctx' = DropPair(ctx, f), files' = CloseFiles(files, {f, to}),
              Return(type, at.i, at.fd, Nothing)
       PROVE  ZInv'
  <2>1. Quiet(at', event')
    BY <1>10 DEF Quiet, Return
  <2>2. ZOK(ctx', files', at', event')
    BY <1>1, <1>2, <1>4, <1>5, <1>10, <2>1, DropPairOK
  <2> QED
    BY <1>1, <1>7, <2>2 DEF ZInv
<1> QED
  BY <1>3, <1>5, <1>8, <1>9, <1>10 DEF handle_event_read

LEMMA WriteCtx ==
  ASSUME ZInv, at.pc = "OUT", HasMessage(ctx.tx, at.fd),
         NEW c, c = [ClearOut(ctx, at.i) EXCEPT !.tx = ipc_messages_del(@, FirstFor(ctx.tx, at.fd))]
  PROVE  /\ CtxOK(c) /\ HeldBy(c) = HeldBy(ctx) /\ Listening(c) = Listening(ctx)
         /\ c.switchdb = ctx.switchdb /\ Owned(c, files, {})
<1>1. CtxOK(ctx) /\ FilesOK(files) /\ Owned(ctx, files, Aside(at)) /\ Reported(ctx, files, at)
  BY DEF ZInv, ZOK
<1>2. /\ Shape(ctx) /\ Paired(ctx) /\ Asked(ctx) \subseteq Waiting(ctx)
      /\ Waiting(ctx) \subseteq HeldBy(ctx) /\ Owned(ctx, files, {})
  BY <1>1 DEF CtxOK, Aside
<1>3. at.i \in 1 .. Len(ctx.conns) /\ ctx.conns[at.i].fd = at.fd
  BY <1>1 DEF Reported
<1>4. PICK s \in Seq(Msg) : s = ctx.tx
  BY <1>2 DEF Shape
<1>5. PICK k \in 1 .. Len(ctx.tx) : k = FirstFor(ctx.tx, at.fd) /\ ctx.tx[k].fd = at.fd
  BY <1>4, FirstForFacts
<1>7. PICK i \in 1 .. Len(ctx.conns) : i = at.i /\ ctx.conns[i].fd = at.fd
  BY <1>3, <1>5
<1>6. c = Taken(ctx, i, k)
  BY <1>5, <1>7 DEF Taken
<1>12. Lighter(c, ctx, at.fd)
  BY <1>2, <1>5, <1>6, <1>7, TakeFacts
<1>8. /\ Shape(c) /\ c.switchdb = ctx.switchdb
      /\ HeldBy(c) = HeldBy(ctx) /\ (\A t : Of(c, t) = Of(ctx, t))
      /\ Asked(c) = Asked(ctx) \ {at.fd}
      /\ Waiting(c) \subseteq Waiting(ctx) /\ Waiting(ctx) \ {at.fd} \subseteq Waiting(c)
  BY <1>12 DEF Lighter
<1>9. Paired(c)
  BY <1>2, <1>8, PairedSame
<1>10. CtxOK(c)
  BY <1>2, <1>8, <1>9 DEF CtxOK
<1>11. Owned(c, files, {}) /\ Listening(c) = Listening(ctx)
  BY <1>2, <1>8 DEF Owned, Listening
<1> QED
  BY <1>8, <1>10, <1>11

LEMMA WriteOKInv ==
  ASSUME ZInv, Write
  PROVE  ZInv'
<1>1. /\ FilesOK(files) /\ Reported(ctx, files, at) /\ CtxOK(ctx)
      /\ nfiles \in Nat /\ nmsgs \in Nat /\ at.pc = "OUT" /\ HasMessage(ctx.tx, at.fd)
  BY DEF ZInv, ZOK, Write
<1>2. PICK c : c = [ClearOut(ctx, at.i) EXCEPT !.tx = ipc_messages_del(@, FirstFor(ctx.tx, at.fd))]
  OBVIOUS
<1>3. /\ CtxOK(c) /\ c.switchdb = ctx.switchdb /\ Owned(c, files, {})
  BY <1>1, <1>2, WriteCtx
<1>4. CASE End
  BY <1>4, EndOK
<1>5. ASSUME NEW type \in {"SWITCH_TX", "MESSAGE_TX"}, ctx' = c,
             Return(type, at.i, at.fd, Nothing), UNCHANGED <<files, nfiles, nmsgs>>
      PROVE  ZInv'
  <2>1. Quiet(at', event')
    BY <1>5 DEF Quiet, Return
  <2>2. ZOK(c, files, at', event')
    BY <1>1, <1>3, <2>1, QuietOK
  <2> QED
    BY <1>1, <1>5, <2>2 DEF ZInv
<1>6. ASSUME ctx.conns[at.i].t = "SWITCHED", ctx' = DropPair(c, at.fd),
             files' = CloseFiles(files, {at.fd, getDest(ctx, at.fd)}),
             Return("ERROR", at.i, at.fd, Nothing), UNCHANGED <<nfiles, nmsgs>>
      PROVE  ZInv'
  <2>1. Entry(ctx, at.i, at.fd, "SWITCHED") /\ Shape(ctx) /\ Paired(ctx)
    BY <1>1, <1>6 DEF Reported, Entry, CtxOK
  <2>2. at.fd \in DOMAIN c.switchdb
    BY <1>3, <2>1, EntryFacts DEF Paired
  <2>3. getDest(c, at.fd) = getDest(ctx, at.fd)
    BY <1>3 DEF getDest
  <2>4. Quiet(at', event')
    BY <1>6 DEF Quiet, Return
  <2>5. PICK f \in DOMAIN c.switchdb : f = at.fd
    BY <2>2
  <2>6. ctx' = DropPair(c, f) /\ files' = CloseFiles(files, {f, getDest(c, f)})
    BY <1>6, <2>3, <2>5
  <2>7. ZOK(ctx', files', at', event')
    BY <1>1, <1>3, <2>4, <2>6, DropPairOK
  <2> QED
    BY <1>1, <1>6, <2>7 DEF ZInv
<1> QED
  BY <1>2, <1>4, <1>5, <1>6 DEF Write

(* What a peer does to a file leaves what the program knows of it true.    *)
LEMMA PeerStep ==
  ASSUME ZInv, NEW u, Table(u, OpenIn(files), files, {}),
         \A g \in Fd : files[g].rx # <<>> => u[g].rx # <<>>
  PROVE  ZOK(ctx, u, at, event)
<1>1. /\ CtxOK(ctx) /\ FilesOK(files) /\ Owned(ctx, files, Aside(at))
      /\ Reported(ctx, files, at) /\ HandlerOK(ctx, files, at, event)
  BY DEF ZInv, ZOK
<1>2. Shape(ctx)
  BY <1>1 DEF CtxOK
<1>3. Listening(ctx) \subseteq Listening(ctx) \ {} /\ HeldBy(ctx) \cup Aside(at) = OpenIn(files)
  BY <1>1 DEF Owned
<1>4. Owned(ctx, u, Aside(at))
  BY <1>1, <1>3, OwnedStep
<1>5. Reported(ctx, u, at)
  <2>1. ASSUME at.pc \in {"SERVER", "EXTERNAL"} PROVE u[at.fd].rx # <<>>
    <3>1. Entry(ctx, at.i, at.fd, at.pc) /\ files[at.fd].rx # <<>>
      BY <1>1, <2>1 DEF Reported, ConnType
    <3>2. at.fd \in Fd
      BY <1>2, <3>1, EntryFacts
    <3> QED
      BY <3>1, <3>2
  <2> QED
    BY <1>1, <2>1 DEF Reported
<1>6. HandlerOK(ctx, u, at, event)
  <2>1. ASSUME at.pc = "event", event.t = "EXTERNAL" PROVE u[event.origin].rx # <<>>
    <3>1. event.origin \in Fd /\ files[event.origin].rx # <<>>
      BY <1>1, <2>1 DEF HandlerOK, Of
    <3> QED
      BY <3>1
  <2> QED
    BY <1>1, <2>1 DEF HandlerOK
<1> QED
  BY <1>1, <1>4, <1>5, <1>6 DEF ZOK, Table

LEMMA MorePending ==
  ASSUME NEW t, FilesOK(t), NEW f \in Fd, NEW m \in Body,
         NEW u, u = [t EXCEPT ![f].rx = Append(@, m)]
  PROVE  Table(u, OpenIn(t), t, {}) /\ \A g \in Fd : t[g].rx # <<>> => u[g].rx # <<>>
<1>1. PICK r \in Seq(Body) : r = t[f].rx
  BY FileFields
<1>7. Append(r, m) \in Seq(Body)
  BY <1>1
<1>2. PICK q \in Seq(Body) : q = Append(r, m)
  BY <1>7
<1>3. q # <<>>
  BY <1>1, <1>2
<1>4. u = SetQueue(t, f, q)
  BY <1>1, <1>2 DEF SetQueue
<1>5. Table(u, OpenIn(t), t, {})
  BY <1>4, QueueFacts
<1>6. u[f].rx = q /\ \A g \in Fd \ {f} : u[g] = t[g]
  BY <1>4, FileFields DEF SetQueue, FilesOK, ZFile
<1> QED
  BY <1>3, <1>5, <1>6

LEMMA PeersOK ==
  ASSUME ZInv, Peers
  PROVE  ZInv'
<1>1. FilesOK(files) /\ nfiles \in Nat /\ nmsgs \in Nat
  BY DEF ZInv, ZOK
<1>2. ASSUME NEW f \in Fd, PeerConnect(f) PROVE ZInv'
  <2>6. [id |-> Fresh, kind |-> "text"] \in Body
    BY <1>1 DEF Body, Fresh
  <2>1. PICK m \in Body : m = [id |-> Fresh, kind |-> "text"]
    BY <2>6
  <2>2. PICK u : u = [files EXCEPT ![f].rx = Append(@, m)]
    OBVIOUS
  <2>3. Table(u, OpenIn(files), files, {}) /\ \A g \in Fd : files[g].rx # <<>> => u[g].rx # <<>>
    BY <1>1, <2>2, MorePending
  <2>4. ZOK(ctx, u, at, event)
    BY <2>3, PeerStep
  <2>5. files' = u /\ ctx' = ctx /\ at' = at /\ event' = event /\ nfiles' = nfiles + 1 /\ nmsgs' = nmsgs
    BY <1>2, <2>1, <2>2 DEF PeerConnect, Fresh
  <2> QED
    BY <1>1, <2>4, <2>5 DEF ZInv
<1>3. ASSUME NEW f \in Fd, NEW kind \in Payload, PeerSend(f, kind) PROVE ZInv'
  <2>6. kind \in {"text", "empty", "bad"} /\ nmsgs + 1 \in Nat
    BY <1>1, <1>3, PayloadAssumption
  <2>7. [id |-> nmsgs + 1, kind |-> kind] \in Body
    BY <2>6 DEF Body
  <2>1. PICK m \in Body : m = [id |-> nmsgs + 1, kind |-> kind]
    BY <2>7
  <2>2. PICK u : u = [files EXCEPT ![f].rx = Append(@, m)]
    OBVIOUS
  <2>3. Table(u, OpenIn(files), files, {}) /\ \A g \in Fd : files[g].rx # <<>> => u[g].rx # <<>>
    BY <1>1, <2>2, MorePending
  <2>4. ZOK(ctx, u, at, event)
    BY <2>3, PeerStep
  <2>5. files' = u /\ ctx' = ctx /\ at' = at /\ event' = event /\ nfiles' = nfiles /\ nmsgs' = nmsgs + 1
    BY <1>3, <2>1, <2>2 DEF PeerSend
  <2> QED
    BY <1>1, <2>4, <2>5 DEF ZInv
<1>4. ASSUME NEW f \in Fd, NEW how \in {"gone", "reset"}, PeerLeave(f, how) PROVE ZInv'
  <2> DEFINE new == [files[f] EXCEPT !.peer = how]
  <2>1. new \in ZFile /\ new.sort = files[f].sort /\ new.rx = files[f].rx
    BY <1>1, FileFields DEF ZFile
  <2>2. PICK u : u = [files EXCEPT ![f].peer = how]
    OBVIOUS
  <2>3. u = [files EXCEPT ![f] = new]
    BY <1>1, <2>2 DEF FilesOK
  <2> HIDE DEF new
  <2>4. FilesOK(u) /\ u[f] = new /\ \A g \in Fd \ {f} : u[g] = files[g]
    BY <1>1, <2>1, <2>3 DEF FilesOK
  <2>5. \A g \in Fd : u[g].sort = files[g].sort /\ u[g].rx = files[g].rx
    BY <2>1, <2>4
  <2>6. OpenIn(u) = OpenIn(files)
    BY <2>5 DEF OpenIn, IsOpen
  <2>7. Table(u, OpenIn(files), files, {})
    BY <2>4, <2>5, <2>6 DEF Table
  <2>8. ZOK(ctx, u, at, event)
    BY <2>5, <2>7, PeerStep
  <2>9. files' = u /\ ctx' = ctx /\ at' = at /\ event' = event /\ nfiles' = nfiles /\ nmsgs' = nmsgs
    BY <1>4, <2>2 DEF PeerLeave
  <2> QED
    BY <1>1, <2>8, <2>9 DEF ZInv
<1> QED
  BY <1>2, <1>3, <1>4 DEF Peers

-----------------------------------------------------------------------------
(* The handlers.                                                           *)

LEMMA PrintedOK ==
  ASSUME ZInv, Printed
  PROVE  ZInv'
<1>1. /\ CtxOK(ctx) /\ FilesOK(files) /\ Owned(ctx, files, Aside(at)) /\ at.pc = "event"
      /\ nfiles \in Nat /\ nmsgs \in Nat
  BY DEF ZInv, ZOK, Printed
<1>2. Owned(ctx, files, {}) /\ Quiet(at', event)
  BY <1>1 DEF Aside, Quiet, Printed, Wait
<1>3. ZOK(ctx, files, at', event)
  BY <1>1, <1>2, QuietOK
<1> QED
  BY <1>1, <1>3 DEF ZInv, Printed

LEMMA EchoOK ==
  ASSUME ZInv, Echo
  PROVE  ZInv'
<1>1. /\ CtxOK(ctx) /\ FilesOK(files) /\ Owned(ctx, files, Aside(at)) /\ at.pc = "event"
      /\ HandlerOK(ctx, files, at, event) /\ event.t = "MESSAGE_RX"
      /\ nfiles \in Nat /\ nmsgs \in Nat
  BY DEF ZInv, ZOK, Echo, Handles
<1>2. Owned(ctx, files, {}) /\ Quiet(at', event) /\ Shape(ctx)
  BY <1>1 DEF Aside, Quiet, Echo, Wait, CtxOK
<1>3. Entry(ctx, event.index, event.origin, "IPC") /\ event.m \in Body
  BY <1>1 DEF HandlerOK
<1>4. event.origin \in HeldBy(ctx) /\ event.origin \in Fd
  BY <1>2, <1>3, EntryFacts
<1>5. PICK m \in Msg : m = [fd |-> event.origin, file |-> files[event.origin].id,
                            id |-> event.m.id, kind |-> event.m.kind]
  BY <1>1, <1>3, <1>4, FileFields DEF Msg, Body
<1>6. PICK d : d = schedule(ctx, m)
  OBVIOUS
<1>7. m.fd = event.origin
  BY <1>5
<1>8. CtxOK(d) /\ HeldBy(d) = HeldBy(ctx) /\ Listening(d) = Listening(ctx)
  BY <1>1, <1>4, <1>6, <1>7, ScheduleOK
<1>9. Owned(d, files, {})
  BY <1>2, <1>8 DEF Owned
<1>10. ZOK(d, files, at', event)
  BY <1>1, <1>2, <1>8, <1>9, QuietOK
<1> QED
  BY <1>1, <1>5, <1>6, <1>10 DEF ZInv, Echo

(* Two connections that are not switched yet become a pair.                *)
LEMMA LinkOK ==
  ASSUME NEW c, CtxOK(c), NEW f \in HeldBy(c), NEW g \in HeldBy(c), f # g,
         f \notin Of(c, "SWITCHED"), g \notin Of(c, "SWITCHED"), NEW d, d = add_switch(c, f, g)
  PROVE  CtxOK(d) /\ HeldBy(d) = HeldBy(c) /\ Listening(d) = Listening(c) \ {f, g}
<1>1. Shape(c) /\ Paired(c) /\ Asked(c) \subseteq Waiting(c) /\ Waiting(c) \subseteq HeldBy(c)
  BY DEF CtxOK
<1>2. /\ Shape(d) /\ d.tx = c.tx
      /\ HeldBy(d) = HeldBy(c) /\ Asked(d) = Asked(c)
      /\ Of(d, "SWITCHED") = Of(c, "SWITCHED") \cup {f, g}
      /\ (\A t \in ConnType \ {"SWITCHED"} : Of(d, t) = Of(c, t) \ {f, g})
      /\ DOMAIN d.switchdb = DOMAIN c.switchdb \cup {f, g}
      /\ d.switchdb[f] = g /\ d.switchdb[g] = f
      /\ \A h \in DOMAIN c.switchdb \ {f, g} : d.switchdb[h] = c.switchdb[h]
  BY <1>1, SwitchFacts
<1>3. Waiting(d) = Waiting(c)
  BY <1>2 DEF Waiting
<1>4. Listening(d) = Listening(c) \ {f, g}
  BY <1>2 DEF Listening, ConnType
<1>5. DOMAIN c.switchdb = Of(c, "SWITCHED") /\ f \notin DOMAIN c.switchdb /\ g \notin DOMAIN c.switchdb
  BY <1>1 DEF Paired
<1>6. ASSUME NEW h \in DOMAIN d.switchdb
      PROVE  d.switchdb[h] \in DOMAIN d.switchdb \ {h} /\ d.switchdb[d.switchdb[h]] = h
  <2>1. CASE h \in {f, g}
    BY <1>2, <2>1
  <2>2. CASE h \in DOMAIN c.switchdb
    <3>1. h \notin {f, g} /\ d.switchdb[h] = c.switchdb[h]
      BY <1>2, <1>5, <2>2
    <3>2. c.switchdb[h] \in DOMAIN c.switchdb \ {h} /\ c.switchdb[c.switchdb[h]] = h
      BY <1>1, <2>2 DEF Paired
    <3>3. d.switchdb[c.switchdb[h]] = c.switchdb[c.switchdb[h]]
      BY <1>2, <1>5, <3>2
    <3> QED
      BY <1>2, <3>1, <3>2, <3>3
  <2> QED
    BY <1>2, <2>1, <2>2
<1>7. Paired(d)
  BY <1>2, <1>5, <1>6 DEF Paired
<1>8. CtxOK(d)
  BY <1>1, <1>2, <1>3, <1>7 DEF CtxOK
<1> QED
  BY <1>2, <1>4, <1>8

(* A connection is added, and is about to be one end of a pair.            *)
LEMMA AddEnd ==
  ASSUME NEW c, CtxOK(c), NEW f \in Fd \ HeldBy(c), NEW type \in {"IPC", "EXTERNAL"},
         NEW d, d = add_(c, f, type)
  PROVE  /\ CtxOK(d) /\ HeldBy(d) = HeldBy(c) \cup {f}
         /\ Listening(d) \subseteq Listening(c) \cup {f}
         /\ Of(d, "SWITCHED") = Of(c, "SWITCHED") /\ f \notin Of(c, "SWITCHED")
<1>1. Shape(c) /\ f \in Fd /\ f \notin HeldBy(c) /\ type \in ConnType \ {"SWITCHED"}
  BY DEF CtxOK, ConnType
<1>2. CtxOK(d) /\ HeldBy(d) = HeldBy(c) \cup {f}
  BY <1>1, AddOK
<1>3. Of(d, type) = Of(c, type) \cup {f} /\ \A t \in ConnType \ {type} : Of(d, t) = Of(c, t)
  BY <1>1, AddFacts
<1>4. Of(d, "SWITCHED") = Of(c, "SWITCHED")
  BY <1>1, <1>3 DEF ConnType
<1>5. Listening(d) \subseteq Listening(c) \cup {f}
  <2>1. Of(d, "SERVER") = Of(c, "SERVER")
    BY <1>3 DEF ConnType
  <2>2. Of(d, "EXTERNAL") \subseteq Of(c, "EXTERNAL") \cup {f}
    BY <1>3 DEF ConnType
  <2> QED
    BY <2>1, <2>2 DEF Listening
<1>6. f \notin Of(c, "SWITCHED")
  BY <1>1, OfHeld
<1> QED
  BY <1>2, <1>4, <1>5, <1>6

LEMMA OpenedFacts ==
  ASSUME ZInv, NEW f \in NewFd, NEW u, u = Opened(f)
  PROVE  Table(u, OpenIn(files) \cup {f}, files, {f})
<1>1. FilesOK(files) /\ Fresh \in Nat /\ f \in Fd
  BY FreeFacts DEF ZInv, ZOK, Fresh
<1>2. PICK sort \in {"listen", "sock"} : sort = "sock"
  OBVIOUS
<1>3. PICK id \in Nat : id = Fresh
  BY <1>1
<1>4. u = OpenFile(files, f, id, sort)
  BY <1>2, <1>3 DEF Opened
<1> QED
  BY <1>1, <1>4, OpenFacts

(* The handler keeps f aside while it waits for an answer.                 *)
LEMMA KeptAside ==
  ASSUME ZInv, Aside(at) = {}, NEW f \in NewFd, NEW u, Table(u, OpenIn(files) \cup {f}, files, {f})
  PROVE  CtxOK(ctx) /\ FilesOK(u) /\ Owned(ctx, u, {f})
<1>1. CtxOK(ctx) /\ Owned(ctx, files, {}) /\ Shape(ctx) /\ OpenIn(files) = HeldBy(ctx)
  BY DEF ZInv, ZOK, CtxOK, Owned
<1>2. f \in Fd /\ f \notin HeldBy(ctx)
  BY FreeFacts
<1>3. Listening(ctx) \subseteq Listening(ctx) \ {f}
  BY <1>1, <1>2, OfHeld DEF Listening
<1>4. HeldBy(ctx) \cup {f} = OpenIn(files) \cup {f}
  BY <1>1
<1>5. Owned(ctx, u, {f})
  BY <1>1, <1>3, <1>4, OwnedStep
<1> QED
  BY <1>1, <1>5 DEF Table

LEMMA TcpAcceptOK ==
  ASSUME ZInv, TcpAccept
  PROVE  ZInv'
<1>1. CASE End
  BY <1>1, EndOK
<1>2. ASSUME NEW f \in NewFd, files' = AcceptFile(files, event.origin, f), Block("name", at.i, f),
             UNCHANGED <<ctx, event, nfiles, nmsgs>>
      PROVE  ZInv'
  <2>1. /\ CtxOK(ctx) /\ FilesOK(files) /\ Owned(ctx, files, Aside(at)) /\ at.pc = "event"
        /\ HandlerOK(ctx, files, at, event) /\ event.t = "EXTERNAL"
        /\ nfiles \in Nat /\ nmsgs \in Nat
    BY DEF ZInv, ZOK, TcpAccept, Handles
  <2>2. event.origin \in Of(ctx, "EXTERNAL") /\ files[event.origin].rx # <<>> /\ Aside(at) = {}
    BY <2>1 DEF HandlerOK, Aside
  <2>3. event.origin \in Fd /\ event.origin \in HeldBy(ctx)
    BY <2>1, <2>2, OfHeld DEF CtxOK, Of
  <2>4. f \in Fd /\ f \notin HeldBy(ctx)
    BY <1>2, FreeFacts
  <2>5. PICK s \in Fd : s = event.origin /\ s # f /\ files[s].rx # <<>>
    BY <2>2, <2>3, <2>4
  <2>6. PICK u : u = AcceptFile(files, s, f)
    OBVIOUS
  <2>7. Table(u, OpenIn(files) \cup {f}, files, {f})
    BY <2>1, <2>4, <2>5, <2>6, AcceptFacts
  <2>8. FilesOK(u) /\ Owned(ctx, u, {f})
    BY <1>2, <2>2, <2>7, KeptAside
  <2>9. at'.pc = "name" /\ at'.fd = f
    BY <1>2 DEF Block
  <2>10. Aside(at') = {f} /\ Reported(ctx, u, at') /\ HandlerOK(ctx, u, at', event)
    BY <2>4, <2>9 DEF Aside, Reported, HandlerOK, ConnType
  <2>11. ZOK(ctx, u, at', event)
    BY <2>1, <2>8, <2>10 DEF ZOK
  <2> QED
    BY <1>2, <2>1, <2>5, <2>6, <2>11 DEF ZInv
<1> QED
  BY <1>1, <1>2 DEF TcpAccept

LEMMA TcpRequestOK ==
  ASSUME ZInv, TcpRequest
  PROVE  ZInv'
<1>1. CASE End
  BY <1>1, EndOK
<1>2. ASSUME NEW f \in NewFd, files' = Opened(f), Block("ok", event.index, f), nfiles' = Fresh,
             UNCHANGED <<ctx, event, nmsgs>>
      PROVE  ZInv'
  <2>1. /\ CtxOK(ctx) /\ FilesOK(files) /\ at.pc = "event"
        /\ HandlerOK(ctx, files, at, event) /\ event.t = "MESSAGE_RX"
        /\ nfiles \in Nat /\ nmsgs \in Nat
    BY DEF ZInv, ZOK, TcpRequest, Handles
  <2>2. Entry(ctx, event.index, event.origin, "IPC") /\ event.m \in Body /\ Aside(at) = {}
    BY <2>1 DEF HandlerOK, Aside
  <2>3. f \in Fd /\ f \notin HeldBy(ctx)
    BY <1>2, FreeFacts
  <2>4. PICK u : u = Opened(f)
    OBVIOUS
  <2>5. Table(u, OpenIn(files) \cup {f}, files, {f})
    BY <1>2, <2>4, OpenedFacts
  <2>6. FilesOK(u) /\ Owned(ctx, u, {f})
    BY <1>2, <2>2, <2>5, KeptAside
  <2>7. at'.pc = "ok" /\ at'.fd = f /\ at'.i = event.index
    BY <1>2 DEF Block
  <2>8. Aside(at') = {f} /\ Reported(ctx, u, at') /\ HandlerOK(ctx, u, at', event)
    BY <2>2, <2>3, <2>7 DEF Aside, Reported, HandlerOK, ConnType
  <2>9. ZOK(ctx, u, at', event)
    BY <2>1, <2>6, <2>8 DEF ZOK
  <2> QED
    BY <1>2, <2>1, <2>4, <2>9 DEF ZInv, Fresh
<1> QED
  BY <1>1, <1>2 DEF TcpRequest, CanOpen

LEMMA TcpNameOK ==
  ASSUME ZInv, TcpName
  PROVE  ZInv'
<1>1. /\ CtxOK(ctx) /\ FilesOK(files) /\ Owned(ctx, files, Aside(at)) /\ at.pc = "name"
      /\ HandlerOK(ctx, files, at, event) /\ nfiles \in Nat /\ nmsgs \in Nat
  BY DEF ZInv, ZOK, TcpName
<1>2. PICK c \in Fd \ HeldBy(ctx) : c = at.fd /\ Aside(at) = {c}
  BY <1>1 DEF HandlerOK, Aside
<1>3. Shape(ctx) /\ Owned(ctx, files, {c}) /\ OpenIn(files) = HeldBy(ctx) \cup {c}
  BY <1>1, <1>2 DEF CtxOK, Owned
<1>4. Listening(ctx) \subseteq HeldBy(ctx)
  BY <1>3, OfHeld DEF Listening
<1>5. CASE End
  BY <1>5, EndOK
<1>6. CASE Refuse(c)
  <2>1. PICK u : u = CloseFile(files, c)
    OBVIOUS
  <2>2. Table(u, OpenIn(files) \ {c}, files, {c})
    BY <1>1, <2>1, ShutOne
  <2>3. HeldBy(ctx) \cup {} = OpenIn(files) \ {c} /\ Listening(ctx) \subseteq Listening(ctx) \ {c}
    BY <1>3, <1>4
  <2>4. Owned(ctx, u, {}) /\ FilesOK(u)
    BY <1>3, <2>2, <2>3, OwnedStep DEF Table
  <2>5. Quiet(at', event)
    BY <1>6 DEF Quiet, Refuse, Wait
  <2>6. ZOK(ctx, u, at', event)
    BY <1>1, <2>4, <2>5, QuietOK
  <2> QED
    BY <1>1, <1>6, <2>1, <2>6 DEF ZInv, Refuse
<1>7. ASSUME NEW s \in NewFd, files' = Drain(Opened(s), c),
             ctx' = add_switch(add_(add_(ctx, s, "IPC"), c, "EXTERNAL"), c, s),
             nfiles' = Fresh, Wait, UNCHANGED <<event, nmsgs>>
      PROVE  ZInv'
  <2>1. s \in Fd \ HeldBy(ctx) /\ s # c
    BY <1>2, <1>7, FreeFacts
  <2>2. PICK type \in {"IPC", "EXTERNAL"} : type = "IPC"
    OBVIOUS
  <2>3. PICK kind \in {"IPC", "EXTERNAL"} : kind = "EXTERNAL"
    OBVIOUS
  <2>4. PICK b : b = add_(ctx, s, type)
    OBVIOUS
  <2>5. /\ CtxOK(b) /\ HeldBy(b) = HeldBy(ctx) \cup {s}
        /\ Listening(b) \subseteq Listening(ctx) \cup {s}
        /\ Of(b, "SWITCHED") = Of(ctx, "SWITCHED") /\ s \notin Of(ctx, "SWITCHED")
    BY <1>1, <2>1, <2>4, AddEnd
  <2>6. c \in Fd \ HeldBy(b)
    BY <2>1, <2>5
  <2>7. PICK e : e = add_(b, c, kind)
    OBVIOUS
  <2>8. /\ CtxOK(e) /\ HeldBy(e) = HeldBy(b) \cup {c}
        /\ Listening(e) \subseteq Listening(b) \cup {c}
        /\ Of(e, "SWITCHED") = Of(b, "SWITCHED") /\ c \notin Of(b, "SWITCHED")
    BY <2>5, <2>6, <2>7, AddEnd
  <2>9. PICK d : d = add_switch(e, c, s)
    OBVIOUS
  <2>10. c \in HeldBy(e) /\ s \in HeldBy(e) /\ c \notin Of(e, "SWITCHED") /\ s \notin Of(e, "SWITCHED")
    BY <2>5, <2>8
  <2>11. CtxOK(d) /\ HeldBy(d) = HeldBy(e) /\ Listening(d) = Listening(e) \ {c, s}
    BY <2>1, <2>8, <2>9, <2>10, LinkOK
  <2>12. PICK v : v = Opened(s)
    OBVIOUS
  <2>13. Table(v, OpenIn(files) \cup {s}, files, {s})
    BY <1>7, <2>12, OpenedFacts
  <2>14. PICK u : u = Drain(v, c)
    OBVIOUS
  <2>15. FilesOK(v) /\ OpenIn(v) = OpenIn(files) \cup {s}
    BY <2>13 DEF Table
  <2>16. Table(u, OpenIn(v), v, {})
    BY <2>14, <2>15, DrainFacts
  <2>17. Table(u, OpenIn(files) \cup {s}, files, {s})
    BY <2>13, <2>15, <2>16 DEF Table
  <2>18. HeldBy(d) \cup {} = OpenIn(files) \cup {s} /\ Listening(d) \subseteq Listening(ctx) \ {s}
    BY <1>3, <2>5, <2>8, <2>11
  <2>19. Owned(d, u, {}) /\ FilesOK(u)
    BY <1>3, <2>17, <2>18, OwnedStep DEF Table
  <2>20. Quiet(at', event)
    BY <1>7 DEF Quiet, Wait
  <2>21. ZOK(d, u, at', event)
    BY <2>11, <2>19, <2>20, QuietOK
  <2>22. ctx' = d /\ files' = u
    BY <1>7, <2>2, <2>3, <2>4, <2>7, <2>9, <2>12, <2>14
  <2> QED
    BY <1>1, <1>7, <2>21, <2>22 DEF ZInv, Fresh
<1> QED
  BY <1>2, <1>5, <1>6, <1>7 DEF TcpName, CanOpen

LEMMA TcpAnswerOK ==
  ASSUME ZInv, TcpAnswer
  PROVE  ZInv'
<1>1. /\ CtxOK(ctx) /\ FilesOK(files) /\ Owned(ctx, files, Aside(at)) /\ at.pc = "ok"
      /\ HandlerOK(ctx, files, at, event) /\ nfiles \in Nat /\ nmsgs \in Nat
  BY DEF ZInv, ZOK, TcpAnswer
<1>2. PICK s \in Fd \ HeldBy(ctx) : s = at.fd /\ Aside(at) = {s}
  BY <1>1 DEF HandlerOK, Aside
<1>3. Shape(ctx) /\ Owned(ctx, files, {s}) /\ OpenIn(files) = HeldBy(ctx) \cup {s}
  BY <1>1, <1>2 DEF CtxOK, Owned
<1>4. PICK c : c = event.origin
  OBVIOUS
<1>5. Entry(ctx, at.i, c, "IPC")
  BY <1>1, <1>4 DEF HandlerOK
<1>6. c \in Of(ctx, "IPC") /\ c \in HeldBy(ctx) /\ c \in Fd
  BY <1>3, <1>5, EntryFacts
<1>7. Listening(ctx) \subseteq HeldBy(ctx)
  BY <1>3, OfHeld DEF Listening
<1>8. CASE End
  BY <1>8, EndOK
<1>9. ASSUME ctx' = add_switch(add_(ctx, s, "EXTERNAL"), c, s), files' = Drain(files, s), Wait,
             UNCHANGED <<event, nfiles, nmsgs>>
      PROVE  ZInv'
  <2>1. PICK kind \in {"IPC", "EXTERNAL"} : kind = "EXTERNAL"
    OBVIOUS
  <2>2. PICK b : b = add_(ctx, s, kind)
    OBVIOUS
  <2>3. /\ CtxOK(b) /\ HeldBy(b) = HeldBy(ctx) \cup {s}
        /\ Listening(b) \subseteq Listening(ctx) \cup {s}
        /\ Of(b, "SWITCHED") = Of(ctx, "SWITCHED") /\ s \notin Of(ctx, "SWITCHED")
    BY <1>1, <2>2, AddEnd
  <2>4. c \notin Of(ctx, "SWITCHED")
    BY <1>3, <1>6, OneType
  <2>5. PICK d : d = add_switch(b, c, s)
    OBVIOUS
  <2>6. c \in HeldBy(b) /\ s \in HeldBy(b) /\ c \notin Of(b, "SWITCHED") /\ s \notin Of(b, "SWITCHED")
        /\ c # s
    BY <1>6, <2>3, <2>4
  <2>7. CtxOK(d) /\ HeldBy(d) = HeldBy(b) /\ Listening(d) = Listening(b) \ {c, s}
    BY <2>3, <2>5, <2>6, LinkOK
  <2>8. PICK u : u = Drain(files, s)
    OBVIOUS
  <2>9. Table(u, OpenIn(files), files, {})
    BY <1>1, <2>8, DrainFacts
  <2>10. HeldBy(d) \cup {} = OpenIn(files) /\ Listening(d) \subseteq Listening(ctx) \ {}
    BY <1>3, <2>3, <2>7
  <2>11. Owned(d, u, {}) /\ FilesOK(u)
    BY <1>3, <2>9, <2>10, OwnedStep DEF Table
  <2>12. Quiet(at', event)
    BY <1>9 DEF Quiet, Wait
  <2>13. ZOK(d, u, at', event)
    BY <2>7, <2>11, <2>12, QuietOK
  <2>14. ctx' = d /\ files' = u
    BY <1>9, <2>1, <2>2, <2>5, <2>8
  <2> QED
    BY <1>1, <1>9, <2>13, <2>14 DEF ZInv
<1>10. ASSUME ctx' = close(ctx, at.i), files' = CloseFiles(files, {s, c}), Wait,
              UNCHANGED <<event, nfiles, nmsgs>>
       PROVE  ZInv'
  <2>1. PICK d : d = close(ctx, at.i)
    OBVIOUS
  <2>2. CtxOK(d) /\ HeldBy(d) = HeldBy(ctx) \ {c} /\ Listening(d) \subseteq Listening(ctx) \ {c}
    BY <1>1, <1>5, <2>1, CloseOK
  <2>3. PICK F \in SUBSET Fd : F = {s, c}
    BY <1>6
  <2>4. PICK u : u = CloseFiles(files, F)
    OBVIOUS
  <2>5. Table(u, OpenIn(files) \ F, files, F)
    BY <1>1, <2>4, ShutFacts
  <2>6. HeldBy(d) \cup {} = OpenIn(files) \ F /\ Listening(d) \subseteq Listening(ctx) \ F
    BY <1>3, <1>7, <2>2, <2>3
  <2>7. Owned(d, u, {}) /\ FilesOK(u)
    BY <1>3, <2>5, <2>6, OwnedStep DEF Table
  <2>8. Quiet(at', event)
    BY <1>10 DEF Quiet, Wait
  <2>9. ZOK(d, u, at', event)
    BY <2>2, <2>7, <2>8, QuietOK
  <2> QED
    BY <1>1, <1>10, <2>1, <2>3, <2>4, <2>9 DEF ZInv
<1> QED
  BY <1>2, <1>4, <1>8, <1>9, <1>10 DEF TcpAnswer

LEMMA LookupOK ==
  ASSUME ZInv, Lookup
  PROVE  ZInv'
<1>1. /\ CtxOK(ctx) /\ FilesOK(files) /\ Owned(ctx, files, Aside(at)) /\ at.pc = "event"
      /\ HandlerOK(ctx, files, at, event) /\ event.t = "MESSAGE_RX"
      /\ nfiles \in Nat /\ nmsgs \in Nat
  BY DEF ZInv, ZOK, Lookup, Handles
<1>2. Shape(ctx) /\ Owned(ctx, files, {}) /\ OpenIn(files) = HeldBy(ctx)
  BY <1>1 DEF CtxOK, Aside, Owned
<1>3. PICK c : c = event.origin
  OBVIOUS
<1>4. Entry(ctx, event.index, c, "IPC") /\ event.m \in Body
  BY <1>1, <1>3 DEF HandlerOK
<1>5. c \in Of(ctx, "IPC") /\ c \in HeldBy(ctx) /\ c \in Fd
  BY <1>2, <1>4, EntryFacts
<1>6. CASE End
  BY <1>6, EndOK
<1>7. ASSUME ctx' = close_fd(ctx, c), files' = CloseFile(files, c), Wait,
             UNCHANGED <<event, nfiles, nmsgs>>
      PROVE  ZInv'
  <2>1. PICK d : d = close_fd(ctx, c)
    OBVIOUS
  <2>2. CtxOK(d) /\ HeldBy(d) = HeldBy(ctx) \ {c} /\ Listening(d) \subseteq Listening(ctx) \ {c}
    BY <1>1, <1>5, <2>1, CloseFdOK
  <2>3. PICK u : u = CloseFile(files, c)
    OBVIOUS
  <2>4. Table(u, OpenIn(files) \ {c}, files, {c})
    BY <1>1, <1>5, <2>3, ShutOne
  <2>5. HeldBy(d) \cup {} = OpenIn(files) \ {c}
    BY <1>2, <2>2
  <2>6. Owned(d, u, {}) /\ FilesOK(u)
    BY <1>2, <2>2, <2>4, <2>5, OwnedStep DEF Table
  <2>7. Quiet(at', event)
    BY <1>7 DEF Quiet, Wait
  <2>8. ZOK(d, u, at', event)
    BY <2>2, <2>6, <2>7, QuietOK
  <2> QED
    BY <1>1, <1>7, <2>1, <2>3, <2>8 DEF ZInv
<1>8. ASSUME NEW f \in NewFd, files' = Opened(f), ctx' = add_(ctx, f, "IPC"),
             Block("daemon", event.index, f), nfiles' = Fresh, UNCHANGED <<event, nmsgs>>
      PROVE  ZInv'
  <2>1. f \in Fd \ HeldBy(ctx) /\ f # c
    BY <1>5, <1>8, FreeFacts
  <2>2. PICK d : d = add_(ctx, f, "IPC")
    OBVIOUS
  <2>3. PICK type \in ConnType \ {"SWITCHED"} : type = "IPC"
    BY DEF ConnType
  <2>4. d = add_(ctx, f, type)
    BY <2>2, <2>3
  <2>5. /\ CtxOK(d) /\ HeldBy(d) = HeldBy(ctx) \cup {f} /\ Len(d.conns) = Len(ctx.conns) + 1
        /\ \A i \in 1 .. Len(ctx.conns) : d.conns[i] = ctx.conns[i]
    BY <1>1, <2>1, <2>4, AddOK
  <2>6. Listening(d) = Listening(ctx) /\ Of(d, "IPC") = Of(ctx, "IPC") \cup {f}
    BY <1>1, <2>1, <2>2, AddListening
  <2>7. PICK u : u = Opened(f)
    OBVIOUS
  <2>8. Table(u, OpenIn(files) \cup {f}, files, {f})
    BY <1>8, <2>7, OpenedFacts
  <2>9. HeldBy(d) \cup {} = OpenIn(files) \cup {f}
    BY <1>2, <2>5
  <2>10. Listening(d) \subseteq Listening(ctx) \ {f}
    BY <1>2, <2>1, <2>6, OfHeld DEF Listening
  <2>11. Owned(d, u, {}) /\ FilesOK(u)
    BY <1>2, <2>8, <2>9, <2>10, OwnedStep DEF Table
  <2>12. at'.pc = "daemon" /\ at'.fd = f
    BY <1>8 DEF Block
  <2>13. Len(ctx.conns) \in Nat
    BY <1>2, ShapeFields
  <2>14. event.index \in 1 .. Len(ctx.conns) /\ event.index \in 1 .. Len(d.conns)
    BY <1>4, <2>5, <2>13 DEF Entry
  <2>15. Entry(d, event.index, c, "IPC")
    BY <1>4, <2>5, <2>14 DEF Entry
  <2>16. HandlerOK(d, u, at', event)
    BY <1>3, <1>4, <2>1, <2>6, <2>12, <2>15 DEF HandlerOK
  <2>17. Aside(at') = {} /\ Reported(d, u, at')
    BY <2>12 DEF Aside, Reported, ConnType
  <2>18. ZOK(d, u, at', event)
    BY <2>5, <2>11, <2>16, <2>17 DEF ZOK
  <2> QED
    BY <1>1, <1>8, <2>2, <2>7, <2>18 DEF ZInv, Fresh
<1> QED
  BY <1>3, <1>6, <1>7, <1>8 DEF Lookup, CanOpen

LEMMA LookupAnswerOK ==
  ASSUME ZInv, LookupAnswer
  PROVE  ZInv'
<1>1. /\ CtxOK(ctx) /\ FilesOK(files) /\ Owned(ctx, files, Aside(at)) /\ at.pc = "daemon"
      /\ HandlerOK(ctx, files, at, event) /\ nfiles \in Nat /\ nmsgs \in Nat
  BY DEF ZInv, ZOK, LookupAnswer
<1>2. Shape(ctx) /\ Owned(ctx, files, {}) /\ OpenIn(files) = HeldBy(ctx)
  BY <1>1 DEF CtxOK, Aside, Owned
<1>3. PICK c : c = event.origin
  OBVIOUS
<1>4. PICK f : f = at.fd
  OBVIOUS
<1>5. Entry(ctx, event.index, c, "IPC") /\ f \in Of(ctx, "IPC") /\ f # c
  BY <1>1, <1>3, <1>4 DEF HandlerOK
<1>6. c \in Of(ctx, "IPC") /\ c \in Fd /\ f \in Fd
  BY <1>2, <1>5, EntryFacts DEF Of
<1>7. CASE End
  BY <1>7, EndOK
<1>8. ASSUME ctx' = close_fd(close_fd(ctx, f), c), files' = CloseFiles(files, {f, c}), Wait,
             UNCHANGED <<event, nfiles, nmsgs>>
      PROVE  ZInv'
  <2>1. PICK b : b = close_fd(ctx, f)
    OBVIOUS
  <2>2. /\ CtxOK(b) /\ HeldBy(b) = HeldBy(ctx) \ {f} /\ Listening(b) \subseteq Listening(ctx) \ {f}
        /\ Of(b, "IPC") = Of(ctx, "IPC") \ {f}
    BY <1>1, <1>5, <2>1, CloseFdOK
  <2>3. PICK d : d = close_fd(b, c)
    OBVIOUS
  <2>4. c \in Of(b, "IPC")
    BY <1>5, <1>6, <2>2
  <2>5. CtxOK(d) /\ HeldBy(d) = HeldBy(b) \ {c} /\ Listening(d) \subseteq Listening(b) \ {c}
    BY <2>2, <2>3, <2>4, CloseFdOK
  <2>6. PICK F \in SUBSET Fd : F = {f, c}
    BY <1>6
  <2>7. PICK u : u = CloseFiles(files, F)
    OBVIOUS
  <2>8. Table(u, OpenIn(files) \ F, files, F)
    BY <1>1, <2>7, ShutFacts
  <2>9. HeldBy(d) \cup {} = OpenIn(files) \ F /\ Listening(d) \subseteq Listening(ctx) \ F
    BY <1>2, <2>2, <2>5, <2>6
  <2>10. Owned(d, u, {}) /\ FilesOK(u)
    BY <1>2, <2>8, <2>9, OwnedStep DEF Table
  <2>11. Quiet(at', event)
    BY <1>8 DEF Quiet, Wait
  <2>12. ZOK(d, u, at', event)
    BY <2>5, <2>10, <2>11, QuietOK
  <2> QED
    BY <1>1, <1>8, <2>1, <2>3, <2>6, <2>7, <2>12 DEF ZInv
<1> QED
  BY <1>3, <1>4, <1>7, <1>8 DEF LookupAnswer

-----------------------------------------------------------------------------
(* The theorems.                                                           *)

(* The two descriptors that listen.                                        *)
LEMMA Ports ==
  \E s \in Fd : /\ s = CHOOSE f \in Fd : \A g \in Fd : f <= g
                /\ \E p \in Fd \ {s} : p = CHOOSE f \in Fd \ {s} : \A g \in Fd \ {s} : f <= g
<1>1. PICK s \in Fd : s = CHOOSE f \in Fd : \A g \in Fd : f <= g
  <2>1. \E f \in Fd : \A g \in Fd : f <= g
    BY FdAssumption, PortAssumption, LeastElement
  <2> QED
    BY <2>1
<1>2. PICK p \in Fd \ {s} : p = CHOOSE f \in Fd \ {s} : \A g \in Fd \ {s} : f <= g
  <2>1. Fd \ {s} # {} /\ Fd \ {s} \in SUBSET Nat
    BY FdAssumption, PortAssumption
  <2>2. PICK R \in SUBSET Nat : R = Fd \ {s} /\ R # {}
    BY <2>1
  <2>3. \E f \in R : \A g \in R : f <= g
    BY <2>2, LeastElement
  <2>4. \E f \in Fd \ {s} : \A g \in Fd \ {s} : f <= g
    BY <2>2, <2>3
  <2> QED
    BY <2>4
<1> QED
  BY <1>1, <1>2

LEMMA ZInvInit == Init => ZInv
<1> SUFFICES ASSUME Init PROVE ZInv
  OBVIOUS
<1>1. PICK s \in Fd : /\ s = CHOOSE f \in Fd : \A g \in Fd : f <= g
                      /\ \E p \in Fd \ {s} : p = CHOOSE f \in Fd \ {s} : \A g \in Fd \ {s} : f <= g
  BY Ports
<1>2. PICK p \in Fd \ {s} : p = CHOOSE f \in Fd \ {s} : \A g \in Fd \ {s} : f <= g
  BY <1>1
<1>3. PICK c0 : c0 = [conns |-> <<>>, tx |-> <<>>, switchdb |-> <<>>]
  OBVIOUS
<1>4. PICK t0 : t0 = [f \in Fd |-> ClosedFile]
  OBVIOUS
<1>5. PICK c : c = add_(c0, s, "SERVER")
  OBVIOUS
<1>6. PICK t : t = OpenFile(t0, s, 1, "listen")
  OBVIOUS
<1>7. PICK d : d = add_(c, p, "EXTERNAL")
  OBVIOUS
<1>8. PICK u : u = OpenFile(t, p, 2, "listen")
  OBVIOUS
<1>9. /\ (ctx = c /\ files = t) \/ (ctx = d /\ files = u)
      /\ nfiles \in Nat /\ nmsgs \in Nat /\ at.pc = "wait"
  BY <1>1, <1>2, <1>3, <1>4, <1>5, <1>6, <1>7, <1>8 DEF Init
<1>10. Shape(c0) /\ HeldBy(c0) = {} /\ Asked(c0) = {} /\ Waiting(c0) = {} /\ \A x : Of(c0, x) = {}
  BY <1>3, EmptyContext
<1>11. DOMAIN c0.switchdb = {}
  BY <1>3
<1>12. CtxOK(c0)
  BY <1>10, <1>11 DEF CtxOK, Paired
<1>13. FilesOK(t0) /\ OpenIn(t0) = {}
  BY <1>4 DEF FilesOK, OpenIn, IsOpen, ClosedFile, ZFile
<1>14. PICK ty \in ConnType \ {"SWITCHED"} : ty = "SERVER"
  BY DEF ConnType
<1>15. s \in Fd \ HeldBy(c0) /\ c = add_(c0, s, ty)
  BY <1>5, <1>10, <1>14
<1>16. CtxOK(c) /\ HeldBy(c) = {s}
  BY <1>10, <1>12, <1>15, AddOK
<1>17. PICK tx \in ConnType \ {"SWITCHED"} : tx = "EXTERNAL"
  BY DEF ConnType
<1>18. p \in Fd \ HeldBy(c) /\ d = add_(c, p, tx)
  BY <1>2, <1>7, <1>16, <1>17
<1>19. CtxOK(d) /\ HeldBy(d) = {s, p}
  BY <1>16, <1>18, AddOK
<1>20. PICK sort \in {"listen", "sock"} : sort = "listen"
  OBVIOUS
<1>21. PICK one \in Nat : one = 1
  OBVIOUS
<1>22. PICK two \in Nat : two = 2
  OBVIOUS
<1>23. t = OpenFile(t0, s, one, sort) /\ u = OpenFile(t, p, two, sort)
  BY <1>6, <1>8, <1>20, <1>21, <1>22
<1>24. Table(t, OpenIn(t0) \cup {s}, t0, {s})
  BY <1>13, <1>23, OpenFacts
<1>25. FilesOK(t) /\ OpenIn(t) = {s}
  BY <1>13, <1>24 DEF Table
<1>26. Table(u, OpenIn(t) \cup {p}, t, {p})
  <2>1. p \in Fd /\ FilesOK(t) /\ u = OpenFile(t, p, two, sort)
    BY <1>2, <1>23, <1>25
  <2> QED
    BY <2>1, OpenFacts
<1>27. FilesOK(u) /\ OpenIn(u) = {s, p}
  BY <1>25, <1>26 DEF Table
<1>28. t[s].sort = "listen" /\ u[s].sort = "listen" /\ u[p].sort = "listen"
  <2>1. t[s].sort = "listen"
    BY <1>6, <1>13 DEF OpenFile, FilesOK
  <2>2. u[p].sort = "listen"
    BY <1>2, <1>8, <1>25 DEF OpenFile, FilesOK
  <2>3. u[s].sort = "listen"
    BY <1>2, <1>26, <2>1 DEF Table
  <2> QED
    BY <2>1, <2>2, <2>3
<1>29. Listening(c) \subseteq HeldBy(c) /\ Listening(d) \subseteq HeldBy(d)
  BY <1>16, <1>19, OfHeld DEF Listening, CtxOK
<1>30. Owned(c, t, {}) /\ Owned(d, u, {})
  BY <1>16, <1>19, <1>25, <1>27, <1>28, <1>29 DEF Owned
<1>31. Quiet(at, event)
  BY <1>9 DEF Quiet
<1>32. ZOK(c, t, at, event) /\ ZOK(d, u, at, event)
  BY <1>16, <1>19, <1>25, <1>27, <1>30, <1>31, QuietOK
<1> QED
  BY <1>9, <1>32 DEF ZInv

LEMMA ZInvNext == ZInv /\ [Next]_vars => ZInv'
<1> SUFFICES ASSUME ZInv, [Next]_vars PROVE ZInv'
  OBVIOUS
<1>1. CASE wait_event
  BY <1>1, PollsOK, AcceptOK, ExternalOK, ReadOK, WrongLengthOK, HandleReadOK, WriteOKInv
     DEF wait_event
<1>2. CASE Handlers
  BY <1>2, PrintedOK, EndOK, EchoOK, TcpAcceptOK, TcpNameOK, TcpRequestOK, TcpAnswerOK, LookupOK,
     LookupAnswerOK DEF Handlers, Suicide
<1>3. CASE Quit
  BY <1>3, EndOK DEF Quit
<1>4. CASE Peers
  BY <1>4, PeersOK
<1>5. CASE UNCHANGED vars
  BY <1>5 DEF ZInv, vars
<1> QED
  BY <1>1, <1>2, <1>3, <1>4, <1>5 DEF Next, Loop

LEMMA ZInvAlways == Spec => []ZInv
BY ZInvInit, ZInvNext, PTL DEF Spec

LEMMA HeldByHeld ==
  ASSUME Shape(ctx)
  PROVE  HeldBy(ctx) = Held
BY ShapeFields DEF HeldBy, Held, Registered

(* No descriptor leaks (context.zig, close and deinit; tcpd.zig and        *)
(* ipcd.zig, the deferred calls that close): what the process has open is  *)
(* what its context holds, each once, and the connection a handler of tcpd *)
(* is about to add.                                                        *)
THEOREM DescriptorsOwnedAlways == Spec => []DescriptorsOwned
<1>1. ZInv => DescriptorsOwned
  <2> SUFFICES ASSUME ZInv PROVE DescriptorsOwned
    OBVIOUS
  <2>1. Shape(ctx) /\ OpenIn(files) = HeldBy(ctx) \cup Aside(at)
    BY DEF ZInv, ZOK, CtxOK, Owned
  <2>2. HeldBy(ctx) = Held
    BY <2>1, HeldByHeld
  <2>3. {f \in Fd : IsOpen(files, f)} = Held \cup (IF at.pc \in {"name", "ok"} THEN {at.fd} ELSE {})
    BY <2>1, <2>2 DEF OpenIn, Aside
  <2>4. \A i, j \in 1 .. Len(ctx.conns) : i # j => ctx.conns[i].fd # ctx.conns[j].fd
    BY <2>1 DEF Shape
  <2> QED
    BY <2>3, <2>4 DEF DescriptorsOwned
<1> QED
  BY <1>1, ZInvAlways, PTL

(* getDest never meets a descriptor without an entry (switch.zig), which   *)
(* would be a panic: the switched connections and the entries go together, *)
(* and each entry leads to one that leads back.                            *)
THEOREM SwitchesPairedAlways == Spec => []SwitchesPaired
<1>1. ZInv => SwitchesPaired
  <2> SUFFICES ASSUME ZInv PROVE SwitchesPaired
    OBVIOUS
  <2>1. Shape(ctx) /\ Paired(ctx)
    BY DEF ZInv, ZOK, CtxOK
  <2>2. \A i \in 1 .. Len(ctx.conns) : ctx.conns[i].fd \in Fd
    BY <2>1, ShapeFields
  <2>3. Of(ctx, "SWITCHED") =
          {ctx.conns[i].fd : i \in {j \in 1 .. Len(ctx.conns) : ctx.conns[j].t = "SWITCHED"}}
    BY <2>2 DEF Of
  <2> QED
    BY <2>1, <2>3 DEF Paired, SwitchesPaired
<1> QED
  BY <1>1, ZInvAlways, PTL

(* POLLOUT, which stays in the field events from one call of poll(2) to    *)
(* the next (context.zig, wait_event), is only asked for a connection that *)
(* has a message to write.                                                 *)
THEOREM OutHasMessageAlways == Spec => []OutHasMessage
<1>1. ZInv => OutHasMessage
  <2> SUFFICES ASSUME ZInv, NEW i \in 1 .. Len(ctx.conns), ctx.conns[i].out
               PROVE  HasMessage(ctx.tx, ctx.conns[i].fd)
    BY DEF OutHasMessage
  <2>1. Shape(ctx) /\ Asked(ctx) \subseteq Waiting(ctx)
    BY DEF ZInv, ZOK, CtxOK
  <2>2. ctx.conns[i].fd \in Fd
    BY <2>1, ShapeFields
  <2>3. ctx.conns[i].fd \in Asked(ctx)
    BY <2>2 DEF Asked
  <2> QED
    BY <2>1, <2>3 DEF Waiting
<1> QED
  BY <1>1, ZInvAlways, PTL

-----------------------------------------------------------------------------
(* The Zig context implements Outbox: every step is one of Outbox or       *)
(* leaves what Outbox sees unchanged.                                      *)
(*                                                                         *)
(* Beside ZInv, four facts are needed:                                     *)
(*   - a connection that is not for listening only is a socket with a      *)
(*     peer (Talks);                                                       *)
(*   - a message to send is for the file its descriptor was when it was    *)
(*     scheduled (Addressed);                                              *)
(*   - a connection exists in one place: one descriptor, or the queue of   *)
(*     one listening socket (Names);                                       *)
(*   - a message exists in one place: the input of one descriptor, the     *)
(*     event that is handled, or what was scheduled (Letters).             *)

Ends(c) == HeldBy(c) \ Listening(c)
Entries(s) == {s[k] : k \in 1 .. Len(s)}
Mail(c) == Entries(c.tx)

Talks(c, t, X) == \A f \in Ends(c) \cup X : t[f].sort = "sock"
Addressed(c, t) == \A m \in Mail(c) : m.fd \in Ends(c) /\ m.file = t[m.fd].id

Line(t, f) == {t[f].rx[k].id : k \in 1 .. Len(t[f].rx)}
Inbox(t, f) == IF t[f].sort = "sock" THEN Line(t, f) ELSE {}
Backlog(t, f) == IF t[f].sort = "listen" THEN Line(t, f) ELSE {}

InOrder(t, f) ==
  t[f].sort = "listen" =>
    \A j, k \in 1 .. Len(t[f].rx) : t[f].rx[j].id = t[f].rx[k].id => j = k

Names(t, n) ==
  /\ \A f \in OpenIn(t) : t[f].id \in 1 .. n
  /\ \A f, g \in OpenIn(t) : t[f].id = t[g].id => f = g
  /\ \A f \in Fd : Backlog(t, f) \subseteq 1 .. n /\ InOrder(t, f)
  /\ \A f \in Fd : \A g \in OpenIn(t) : t[g].id \notin Backlog(t, f)
  /\ \A f, g \in Fd : f # g => Backlog(t, f) \cap Backlog(t, g) = {}

Distinct(s) == \A j, k \in 1 .. Len(s) : s[j].id = s[k].id => j = k
Spent(c, S) == {m.id : m \in Mail(c)} \cup {d.id : d \in S}

Letters(t, spent, E, n) ==
  /\ spent \cup E \subseteq 1 .. n /\ spent \cap E = {}
  /\ \A f \in Fd : Inbox(t, f) \subseteq 1 .. n /\ Inbox(t, f) \cap (spent \cup E) = {}
  /\ \A f, g \in Fd : f # g => Inbox(t, f) \cap Inbox(t, g) = {}

(* The message of an event that is handled.                                *)
Carried(a, e) == IF a.pc = "event" /\ e.t = "MESSAGE_RX" THEN {e.m.id} ELSE {}

GOK(c, t, a, e, S, n, k) ==
  /\ Talks(c, t, Aside(a)) /\ Addressed(c, t) /\ Distinct(c.tx)
  /\ Names(t, n) /\ Letters(t, Spent(c, S), Carried(a, e), k)

GInv == GOK(ctx, files, at, event, sent, nfiles, nmsgs)

-----------------------------------------------------------------------------
(* What the identities become when the descriptor table changes.           *)

(* u is t with some files closed and some queues emptied.                  *)
Less(u, t) ==
  \A f \in Fd : \/ u[f].sort = "closed"
                \/ /\ u[f].id = t[f].id /\ u[f].sort = t[f].sort
                   /\ u[f].rx \in {t[f].rx, <<>>}

(* Outbox sees the same of these files.                                    *)
SameFiles(u, t, F) ==
  \A f \in F : u[f].id = t[f].id /\ u[f].sort = t[f].sort /\ u[f].peer = t[f].peer

LEMMA NamesLess ==
  ASSUME NEW t, NEW u, NEW n, Names(t, n), Less(u, t)
  PROVE  Names(u, n) /\ \A f \in Fd : Inbox(u, f) \subseteq Inbox(t, f)
<1>1. \A f \in OpenIn(u) : f \in OpenIn(t) /\ u[f].id = t[f].id
  BY DEF Less, OpenIn, IsOpen
<1>2. \A f \in Fd : u[f].rx = t[f].rx => Line(u, f) = Line(t, f)
  BY DEF Line
<1>3. \A f \in Fd : u[f].rx = <<>> => Line(u, f) = {}
  BY DEF Line
<1>4. \A f \in Fd : Backlog(u, f) \subseteq Backlog(t, f) /\ Inbox(u, f) \subseteq Inbox(t, f)
  BY <1>2, <1>3 DEF Less, Backlog, Inbox
<1>5. \A f \in Fd : InOrder(u, f)
  <2> SUFFICES ASSUME NEW f \in Fd, u[f].sort = "listen"
               PROVE  \A j, k \in 1 .. Len(u[f].rx) : u[f].rx[j].id = u[f].rx[k].id => j = k
    BY DEF InOrder
  <2>1. t[f].sort = "listen" /\ u[f].rx \in {t[f].rx, <<>>}
    BY DEF Less
  <2>2. CASE u[f].rx = t[f].rx
    BY <2>1, <2>2 DEF Names, InOrder
  <2>3. CASE u[f].rx = <<>>
    BY <2>3
  <2> QED
    BY <2>1, <2>2, <2>3
<1>6. /\ \A f \in OpenIn(t) : t[f].id \in 1 .. n
      /\ \A f, g \in OpenIn(t) : t[f].id = t[g].id => f = g
      /\ \A f \in Fd : Backlog(t, f) \subseteq 1 .. n
      /\ \A f \in Fd : \A g \in OpenIn(t) : t[g].id \notin Backlog(t, f)
      /\ \A f, g \in Fd : f # g => Backlog(t, f) \cap Backlog(t, g) = {}
  BY DEF Names
<1>7. /\ \A f \in OpenIn(u) : u[f].id \in 1 .. n
      /\ \A f, g \in OpenIn(u) : u[f].id = u[g].id => f = g
  BY <1>1, <1>6
<1>8. \A f \in Fd : Backlog(u, f) \subseteq 1 .. n
  BY <1>4, <1>6
<1>9. \A f \in Fd : \A g \in OpenIn(u) : u[g].id \notin Backlog(u, f)
  BY <1>1, <1>4, <1>6
<1>10. \A f, g \in Fd : f # g => Backlog(u, f) \cap Backlog(u, g) = {}
  BY <1>4, <1>6
<1> QED
  BY <1>4, <1>5, <1>7, <1>8, <1>9, <1>10 DEF Names

(* Messages that were read or scheduled change hands.                      *)
LEMMA LettersLess ==
  ASSUME NEW t, NEW u, NEW s, NEW E, NEW n, Letters(t, s, E, n),
         \A f \in Fd : Inbox(u, f) \subseteq Inbox(t, f),
         NEW s2, NEW E2, s2 \cup E2 \subseteq s \cup E, s2 \cap E2 = {}
  PROVE  Letters(u, s2, E2, n)
BY DEF Letters

(* The first message of f is read, and the rest of its queue lost.         *)
LEMMA LettersRead ==
  ASSUME NEW t, NEW u, NEW s, NEW E, NEW n, Letters(t, s, E, n),
         \A g \in Fd : Inbox(u, g) \subseteq Inbox(t, g),
         NEW f \in Fd, Inbox(u, f) = {}, NEW x \in Inbox(t, f),
         NEW s2, NEW E2, s2 \cup E2 \subseteq s \cup E \cup {x}, s2 \cap E2 = {}
  PROVE  Letters(u, s2, E2, n)
<1>1. /\ s \cup E \subseteq 1 .. n
      /\ \A g \in Fd : Inbox(t, g) \subseteq 1 .. n /\ Inbox(t, g) \cap (s \cup E) = {}
      /\ \A g, h \in Fd : g # h => Inbox(t, g) \cap Inbox(t, h) = {}
  BY DEF Letters
<1>2. x \in 1 .. n /\ \A g \in Fd \ {f} : x \notin Inbox(t, g)
  BY <1>1
<1>3. s2 \cup E2 \subseteq 1 .. n
  BY <1>1, <1>2
<1>4. ASSUME NEW g \in Fd PROVE Inbox(u, g) \subseteq 1 .. n /\ Inbox(u, g) \cap (s2 \cup E2) = {}
  <2>1. CASE g = f
    BY <2>1
  <2>2. CASE g # f
    BY <1>1, <1>2, <2>2
  <2> QED
    BY <2>1, <2>2
<1>5. \A g, h \in Fd : g # h => Inbox(u, g) \cap Inbox(u, h) = {}
  BY <1>1
<1> QED
  BY <1>3, <1>4, <1>5 DEF Letters

LEMMA ShutTable ==
  ASSUME NEW t, FilesOK(t), NEW F \in SUBSET Fd, NEW u, u = CloseFiles(t, F)
  PROVE  Less(u, t) /\ \A g \in Fd \ F : u[g] = t[g]
<1>1. ClosedFile.sort = "closed"
  BY DEF ClosedFile
<1>2. (\A g \in Fd \ F : u[g] = t[g]) /\ \A g \in F : u[g] = ClosedFile
  BY DEF CloseFiles
<1> QED
  BY <1>1, <1>2 DEF Less

LEMMA ShutTableOne ==
  ASSUME NEW t, FilesOK(t), NEW f \in Fd, NEW u, u = CloseFile(t, f)
  PROVE  Less(u, t) /\ \A g \in Fd \ {f} : u[g] = t[g]
<1>1. ClosedFile.sort = "closed"
  BY DEF ClosedFile
<1>2. (\A g \in Fd \ {f} : u[g] = t[g]) /\ u[f] = ClosedFile
  BY DEF CloseFile, FilesOK
<1> QED
  BY <1>1, <1>2 DEF Less

(* The queue of f becomes q.                                               *)
LEMMA QueueTable ==
  ASSUME NEW t, FilesOK(t), NEW f \in Fd, NEW q, NEW u, u = SetQueue(t, f, q)
  PROVE  /\ SameFiles(u, t, Fd) /\ u[f].rx = q /\ \A g \in Fd \ {f} : u[g] = t[g]
<1> DEFINE new == [t[f] EXCEPT !.rx = q]
<1>1. new.rx = q /\ new.id = t[f].id /\ new.sort = t[f].sort /\ new.peer = t[f].peer
  BY FileFields DEF ZFile
<1>2. u = [t EXCEPT ![f] = new]
  BY DEF FilesOK, SetQueue
<1> HIDE DEF new
<1>3. u[f] = new /\ \A g \in Fd \ {f} : u[g] = t[g]
  BY <1>2 DEF FilesOK
<1> QED
  BY <1>1, <1>3 DEF SameFiles

LEMMA DrainTable ==
  ASSUME NEW t, FilesOK(t), NEW f \in Fd, NEW u, u = Drain(t, f)
  PROVE  Less(u, t) /\ SameFiles(u, t, Fd) /\ Inbox(u, f) = {}
<1>1. SameFiles(u, t, Fd) /\ u[f].rx = <<>> /\ \A g \in Fd \ {f} : u[g] = t[g]
  <2>1. u = SetQueue(t, f, <<>>)
    BY DEF Drain, SetQueue
  <2> QED
    BY <2>1, QueueTable
<1>2. Less(u, t)
  BY <1>1 DEF Less, SameFiles
<1>3. Inbox(u, f) = {}
  BY <1>1 DEF Inbox, Line
<1> QED
  BY <1>1, <1>2, <1>3

LEMMA SameFilesOpen ==
  ASSUME NEW t, NEW u, SameFiles(u, t, Fd)
  PROVE  OpenIn(u) = OpenIn(t) /\ \A f \in OpenIn(t) : u[f].id = t[f].id /\ f \in Fd
BY DEF SameFiles, OpenIn, IsOpen

(* A connection is opened with an identity x that no other has.            *)
LEMMA NamesOpen ==
  ASSUME NEW t, NEW u, NEW n \in Nat, NEW m \in Nat, n <= m, Names(t, n), NEW f \in Fd,
         f \notin OpenIn(t), u[f].sort = "sock", u[f].rx = <<>>, u[f].id \in 1 .. m,
         \A g \in OpenIn(t) : t[g].id # u[f].id,
         \A g \in Fd : u[f].id \notin Backlog(u, g),
         \A g \in Fd \ {f} : /\ u[g].id = t[g].id /\ u[g].sort = t[g].sort
                             /\ Backlog(u, g) \subseteq Backlog(t, g) /\ InOrder(u, g)
                             /\ Inbox(u, g) = Inbox(t, g)
  PROVE  Names(u, m) /\ \A g \in Fd : Inbox(u, g) \subseteq Inbox(t, g)
<1>1. OpenIn(u) = OpenIn(t) \cup {f} /\ \A g \in OpenIn(t) : u[g].id = t[g].id /\ g # f
  BY DEF OpenIn, IsOpen
<1>2. Backlog(u, f) = {} /\ Inbox(u, f) = {} /\ InOrder(u, f)
  BY DEF Backlog, Inbox, Line, InOrder
<1>3. /\ \A g \in OpenIn(t) : t[g].id \in 1 .. n
      /\ \A g, h \in OpenIn(t) : t[g].id = t[h].id => g = h
      /\ \A g \in Fd : Backlog(t, g) \subseteq 1 .. n
      /\ \A g \in Fd : \A h \in OpenIn(t) : t[h].id \notin Backlog(t, g)
      /\ \A g, h \in Fd : g # h => Backlog(t, g) \cap Backlog(t, h) = {}
  BY DEF Names
<1>4. \A x \in 1 .. n : x \in 1 .. m
  OBVIOUS
<1>5. \A g \in OpenIn(u) : u[g].id \in 1 .. m
  BY <1>1, <1>3, <1>4
<1>6. \A g, h \in OpenIn(u) : u[g].id = u[h].id => g = h
  BY <1>1, <1>3
<1>7. \A g \in Fd : Backlog(u, g) \subseteq 1 .. m /\ InOrder(u, g)
  <2> SUFFICES ASSUME NEW g \in Fd PROVE Backlog(u, g) \subseteq 1 .. m /\ InOrder(u, g)
    OBVIOUS
  <2>1. CASE g = f
    BY <1>2, <2>1
  <2>2. CASE g # f
    BY <1>3, <1>4, <2>2
  <2> QED
    BY <2>1, <2>2
<1>8. \A g \in Fd : \A h \in OpenIn(u) : u[h].id \notin Backlog(u, g)
  <2> SUFFICES ASSUME NEW g \in Fd, NEW h \in OpenIn(t) PROVE u[h].id \notin Backlog(u, g)
    BY <1>1
  <2>1. CASE g = f
    BY <1>2, <2>1
  <2>2. CASE g # f
    BY <1>1, <1>3, <2>2
  <2> QED
    BY <2>1, <2>2
<1>9. ASSUME NEW g \in Fd, NEW h \in Fd, g # h PROVE Backlog(u, g) \cap Backlog(u, h) = {}
  <2>1. CASE g = f \/ h = f
    BY <1>2, <2>1
  <2>2. CASE g # f /\ h # f
    BY <1>3, <1>9, <2>2
  <2> QED
    BY <2>1, <2>2
<1>10. \A g \in Fd : Inbox(u, g) \subseteq Inbox(t, g)
  BY <1>2
<1> QED
  BY <1>5, <1>6, <1>7, <1>8, <1>9, <1>10 DEF Names

LEMMA OpenTable ==
  ASSUME NEW t, FilesOK(t), NEW f \in Fd, NEW id, NEW u, u = OpenFile(t, f, id, "sock")
  PROVE  /\ u[f].sort = "sock" /\ u[f].rx = <<>> /\ u[f].id = id /\ u[f].peer = "up"
         /\ \A g \in Fd \ {f} : u[g] = t[g]
<1> DEFINE new == [id |-> id, sort |-> "sock", rx |-> <<>>, peer |-> "up"]
<1>1. new.sort = "sock" /\ new.rx = <<>> /\ new.id = id /\ new.peer = "up"
  OBVIOUS
<1> HIDE DEF new
<1>2. u = [t EXCEPT ![f] = new]
  BY DEF OpenFile, new
<1>3. u[f] = new /\ \A g \in Fd \ {f} : u[g] = t[g]
  BY <1>2 DEF FilesOK
<1> QED
  BY <1>1, <1>3

LEMMA SameQueue ==
  ASSUME NEW t, NEW u, NEW g, u[g] = t[g]
  PROVE  Backlog(u, g) = Backlog(t, g) /\ Inbox(u, g) = Inbox(t, g) /\ (InOrder(t, g) => InOrder(u, g))
<1>1. Line(u, g) = Line(t, g)
  BY DEF Line
<1> QED
  BY <1>1 DEF Backlog, Inbox, InOrder

LEMMA NamesOpened ==
  ASSUME NEW t, FilesOK(t), NEW n \in Nat, Names(t, n), NEW f \in Fd, f \notin OpenIn(t),
         NEW u, u = OpenFile(t, f, n + 1, "sock")
  PROVE  Names(u, n + 1) /\ \A g \in Fd : Inbox(u, g) \subseteq Inbox(t, g)
<1>1. /\ u[f].sort = "sock" /\ u[f].rx = <<>> /\ u[f].id = n + 1
      /\ \A g \in Fd \ {f} : u[g] = t[g]
  BY OpenTable
<1>2. \A g \in Fd \ {f} : /\ u[g].id = t[g].id /\ u[g].sort = t[g].sort
                          /\ Backlog(u, g) = Backlog(t, g) /\ (InOrder(t, g) => InOrder(u, g))
                          /\ Inbox(u, g) = Inbox(t, g)
  BY <1>1, SameQueue
<1>3. /\ \A g \in OpenIn(t) : t[g].id \in 1 .. n
      /\ \A g \in Fd : Backlog(t, g) \subseteq 1 .. n /\ InOrder(t, g)
  BY DEF Names
<1>4. n + 1 \notin 1 .. n /\ n + 1 \in 1 .. n + 1 /\ n + 1 \in Nat /\ n <= n + 1
  OBVIOUS
<1>5. Backlog(u, f) = {}
  BY <1>1 DEF Backlog
<1>6. \A g \in Fd : u[f].id \notin Backlog(u, g)
  <2> SUFFICES ASSUME NEW g \in Fd PROVE u[f].id \notin Backlog(u, g)
    OBVIOUS
  <2>1. CASE g = f
    BY <1>5, <2>1
  <2>2. CASE g # f
    BY <1>1, <1>2, <1>3, <1>4, <2>2
  <2> QED
    BY <2>1, <2>2
<1>7. PICK m \in Nat : m = n + 1 /\ n <= m
  BY <1>4
<1>8. u[f].id \in 1 .. m /\ \A g \in OpenIn(t) : t[g].id # u[f].id
  BY <1>1, <1>3, <1>4, <1>7
<1>9. Names(u, m) /\ \A g \in Fd : Inbox(u, g) \subseteq Inbox(t, g)
  BY <1>1, <1>2, <1>3, <1>6, <1>7, <1>8, NamesOpen
<1> QED
  BY <1>7, <1>9

(* accept(2): the identity that waited is now that of f.                   *)
LEMMA NamesAccept ==
  ASSUME NEW t, FilesOK(t), NEW n \in Nat, Names(t, n), NEW s \in Fd, t[s].sort = "listen",
         NEW f \in Fd, f \notin OpenIn(t), t[s].rx # <<>>, NEW u, u = AcceptFile(t, s, f)
  PROVE  /\ Names(u, n) /\ \A g \in Fd : Inbox(u, g) \subseteq Inbox(t, g)
         /\ u[f].sort = "sock" /\ SameFiles(u, t, Fd \ {f})
<1>1. PICK r \in Seq(Body) : r = t[s].rx /\ r # <<>>
  BY FileFields
<1>2. Tail(r) \in Seq(Body) /\ Len(r) \in Nat /\ Len(r) >= 1 /\ Head(r) = r[1]
  BY <1>1
<1>3. s # f
  BY DEF OpenIn, IsOpen
<1>4. PICK x : x = Head(r).id
  OBVIOUS
<1>5. PICK v : v = OpenFile(t, f, x, "sock")
  OBVIOUS
<1>6. /\ v[f].sort = "sock" /\ v[f].rx = <<>> /\ v[f].id = x
      /\ \A g \in Fd \ {f} : v[g] = t[g]
  BY <1>5, OpenTable
<1>7. x \in Nat
  <2>1. r[1] \in Body
    BY <1>1, <1>2
  <2> QED
    BY <1>2, <1>4, <2>1 DEF Body
<1>8. FilesOK(v)
  <2>1. PICK sort \in {"listen", "sock"} : sort = "sock"
    OBVIOUS
  <2>2. v = OpenFile(t, f, x, sort)
    BY <1>5, <2>1
  <2>3. Table(v, OpenIn(t) \cup {f}, t, {f})
    BY <1>7, <2>2, OpenFacts
  <2> QED
    BY <2>3 DEF Table
<1>9. u = SetQueue(v, s, Tail(r))
  BY <1>1, <1>3, <1>4, <1>5, <1>6 DEF AcceptFile, SetQueue
<1>10. SameFiles(u, v, Fd) /\ u[s].rx = Tail(r) /\ \A g \in Fd \ {s} : u[g] = v[g]
  <2>1. PICK q : q = Tail(r)
    OBVIOUS
  <2>2. PICK w : w = SetQueue(v, s, q)
    OBVIOUS
  <2>3. SameFiles(w, v, Fd) /\ w[s].rx = q /\ \A g \in Fd \ {s} : w[g] = v[g]
    BY <1>8, <2>2, QueueTable
  <2>4. u = w
    BY <1>9, <2>1, <2>2
  <2> QED
    BY <2>1, <2>3, <2>4
<1>11. u[f].sort = "sock" /\ u[f].rx = <<>> /\ u[f].id = x
  BY <1>3, <1>6, <1>10
<1>12. \A g \in Fd \ {f, s} : u[g] = t[g]
  BY <1>6, <1>10
<1>13. u[s].id = t[s].id /\ u[s].sort = "listen" /\ u[s].peer = t[s].peer
  BY <1>3, <1>6, <1>10 DEF SameFiles
<1>14. SameFiles(u, t, Fd \ {f})
  BY <1>3, <1>12, <1>13 DEF SameFiles
<1>15. /\ \A g \in OpenIn(t) : t[g].id \in 1 .. n
       /\ \A g \in Fd : Backlog(t, g) \subseteq 1 .. n /\ InOrder(t, g)
       /\ \A g \in Fd : \A h \in OpenIn(t) : t[h].id \notin Backlog(t, g)
       /\ \A g, h \in Fd : g # h => Backlog(t, g) \cap Backlog(t, h) = {}
  BY DEF Names
<1>16. \A j, k \in 1 .. Len(r) : r[j].id = r[k].id => j = k
  BY <1>1, <1>15 DEF InOrder
<1>17. \A k \in 1 .. Len(Tail(r)) : Tail(r)[k] = r[k + 1] /\ k + 1 \in 2 .. Len(r)
  BY <1>1, <1>2
<1>18. Backlog(t, s) = {r[k].id : k \in 1 .. Len(r)}
  BY <1>1 DEF Backlog, Line
<1>19. Backlog(u, s) = {Tail(r)[k].id : k \in 1 .. Len(Tail(r))}
  BY <1>10, <1>13 DEF Backlog, Line
<1>20. x \in Backlog(t, s)
  BY <1>2, <1>4, <1>18
<1>21. Backlog(u, s) \subseteq Backlog(t, s) /\ x \notin Backlog(u, s)
  <2>1. ASSUME NEW y \in Backlog(u, s) PROVE y \in Backlog(t, s) /\ y # x
    <3>1. PICK k \in 1 .. Len(Tail(r)) : y = Tail(r)[k].id
      BY <1>19
    <3>2. y = r[k + 1].id /\ k + 1 \in 2 .. Len(r)
      BY <1>17, <3>1
    <3>3. k + 1 \in 1 .. Len(r) /\ 1 \in 1 .. Len(r) /\ k + 1 # 1
      BY <1>2, <3>2
    <3> QED
      BY <1>2, <1>4, <1>16, <1>18, <3>2, <3>3
  <2> QED
    BY <2>1
<1>22. InOrder(u, s)
  <2> SUFFICES ASSUME NEW j \in 1 .. Len(Tail(r)), NEW k \in 1 .. Len(Tail(r)),
                      Tail(r)[j].id = Tail(r)[k].id
               PROVE  j = k
    BY <1>10, <1>13 DEF InOrder
  <2>1. j + 1 \in 1 .. Len(r) /\ k + 1 \in 1 .. Len(r)
    BY <1>2, <1>17
  <2>2. j + 1 = k + 1
    BY <1>16, <1>17, <2>1
  <2> QED
    BY <2>2
<1>23. \A g \in Fd \ {f} : /\ u[g].id = t[g].id /\ u[g].sort = t[g].sort
                           /\ Backlog(u, g) \subseteq Backlog(t, g) /\ InOrder(u, g)
                           /\ Inbox(u, g) = Inbox(t, g)
  <2> SUFFICES ASSUME NEW g \in Fd \ {f}
               PROVE  /\ u[g].id = t[g].id /\ u[g].sort = t[g].sort
                      /\ Backlog(u, g) \subseteq Backlog(t, g) /\ InOrder(u, g)
                      /\ Inbox(u, g) = Inbox(t, g)
    OBVIOUS
  <2>1. CASE g = s
    BY <1>13, <1>21, <1>22, <2>1 DEF Inbox
  <2>2. CASE g # s
    BY <1>12, <1>15, <2>2, SameQueue
  <2> QED
    BY <2>1, <2>2
<1>24. \A g \in Fd : x \notin Backlog(u, g)
  <2> SUFFICES ASSUME NEW g \in Fd PROVE x \notin Backlog(u, g)
    OBVIOUS
  <2>1. CASE g = f
    BY <1>11, <2>1 DEF Backlog
  <2>2. CASE g = s
    BY <1>21, <2>2
  <2>3. CASE g # s /\ g # f
    BY <1>15, <1>20, <1>23, <2>3
  <2> QED
    BY <2>1, <2>2, <2>3
<1>25. x \in 1 .. n /\ \A g \in OpenIn(t) : t[g].id # x
  BY <1>15, <1>20
<1>26. n <= n
  OBVIOUS
<1>27. Names(u, n) /\ \A g \in Fd : Inbox(u, g) \subseteq Inbox(t, g)
  BY <1>11, <1>23, <1>24, <1>25, <1>26, NamesOpen
<1> QED
  BY <1>11, <1>14, <1>27

(* A message or a connection arrives at the end of a queue.                *)
Enqueued(t, f, m) == [t EXCEPT ![f].rx = Append(@, m)]

LEMMA Arrives ==
  ASSUME NEW t, FilesOK(t), NEW f \in Fd, NEW m \in Body,
         NEW u, u = Enqueued(t, f, m)
  PROVE  /\ SameFiles(u, t, Fd) /\ \A g \in Fd \ {f} : u[g] = t[g]
         /\ Line(u, f) = Line(t, f) \cup {m.id}
         /\ m.id \notin Line(t, f) /\ InOrder(t, f) => InOrder(u, f)
<1>1. PICK r \in Seq(Body) : r = t[f].rx
  BY FileFields
<1>2. PICK q : q = Append(r, m)
  OBVIOUS
<1>3. u = SetQueue(t, f, q)
  BY <1>1, <1>2 DEF Enqueued, SetQueue
<1>4. SameFiles(u, t, Fd) /\ u[f].rx = q /\ \A g \in Fd \ {f} : u[g] = t[g]
  BY <1>3, QueueTable
<1>5. PICK n \in Nat : n = Len(r)
  BY <1>1
<1>6. /\ Len(q) = n + 1 /\ q[n + 1] = m
      /\ \A k \in 1 .. n : q[k] = r[k]
  BY <1>2, <1>5
<1>7. Line(t, f) = {r[k].id : k \in 1 .. n} /\ Line(u, f) = {q[k].id : k \in 1 .. n + 1}
  BY <1>1, <1>4, <1>5, <1>6 DEF Line
<1>8. \A k \in 1 .. n + 1 : k \in 1 .. n \/ k = n + 1
  BY <1>5
<1>9. n + 1 \in 1 .. n + 1 /\ \A k \in 1 .. n : k \in 1 .. n + 1
  BY <1>5
<1>10. Line(u, f) = Line(t, f) \cup {m.id}
  <2>1. \A y \in Line(u, f) : y \in Line(t, f) \cup {m.id}
    BY <1>6, <1>7, <1>8
  <2>2. \A y \in Line(t, f) \cup {m.id} : y \in Line(u, f)
    BY <1>6, <1>7, <1>9
  <2> QED
    BY <2>1, <2>2
<1>11. ASSUME m.id \notin Line(t, f), InOrder(t, f) PROVE InOrder(u, f)
  <2> SUFFICES ASSUME u[f].sort = "listen", NEW j \in 1 .. n + 1, NEW k \in 1 .. n + 1,
                      q[j].id = q[k].id
               PROVE  j = k
    BY <1>4, <1>6 DEF InOrder
  <2>1. \A a, b \in 1 .. n : r[a].id = r[b].id => a = b
    BY <1>1, <1>4, <1>5, <1>11 DEF InOrder, SameFiles
  <2>2. \A a \in 1 .. n : r[a].id # m.id
    BY <1>7, <1>11
  <2> QED
    BY <1>6, <1>8, <2>1, <2>2
<1> QED
  BY <1>4, <1>10, <1>11

LEMMA NamesConnect ==
  ASSUME NEW t, FilesOK(t), NEW n \in Nat, Names(t, n), NEW f \in Fd, t[f].sort = "listen",
         NEW m \in Body, m.id = n + 1, NEW u, u = Enqueued(t, f, m)
  PROVE  Names(u, n + 1) /\ SameFiles(u, t, Fd) /\ \A g \in Fd : Inbox(u, g) = Inbox(t, g)
<1>1. /\ SameFiles(u, t, Fd) /\ (\A g \in Fd \ {f} : u[g] = t[g])
      /\ Line(u, f) = Line(t, f) \cup {m.id}
      /\ m.id \notin Line(t, f) /\ InOrder(t, f) => InOrder(u, f)
  BY Arrives
<1>2. /\ \A g \in OpenIn(t) : t[g].id \in 1 .. n
      /\ \A g, h \in OpenIn(t) : t[g].id = t[h].id => g = h
      /\ \A g \in Fd : Backlog(t, g) \subseteq 1 .. n /\ InOrder(t, g)
      /\ \A g \in Fd : \A h \in OpenIn(t) : t[h].id \notin Backlog(t, g)
      /\ \A g, h \in Fd : g # h => Backlog(t, g) \cap Backlog(t, h) = {}
  BY DEF Names
<1>3. m.id \notin 1 .. n /\ m.id \in 1 .. n + 1 /\ \A x \in 1 .. n : x \in 1 .. n + 1
  OBVIOUS
<1>4. u[f].sort = "listen"
  BY <1>1 DEF SameFiles
<1>5. Backlog(u, f) = Backlog(t, f) \cup {m.id} /\ Inbox(u, f) = {} /\ Inbox(t, f) = {}
      /\ Backlog(t, f) = Line(t, f)
  BY <1>1, <1>4 DEF Backlog, Inbox
<1>6. \A g \in Fd \ {f} : Backlog(u, g) = Backlog(t, g) /\ Inbox(u, g) = Inbox(t, g) /\ InOrder(u, g)
  BY <1>1, <1>2, SameQueue
<1>7. InOrder(u, f)
  BY <1>1, <1>2, <1>3, <1>5
<1>8. OpenIn(u) = OpenIn(t) /\ \A g \in OpenIn(t) : u[g].id = t[g].id
  BY <1>1, SameFilesOpen
<1>9. /\ \A g \in OpenIn(u) : u[g].id \in 1 .. n + 1
      /\ \A g, h \in OpenIn(u) : u[g].id = u[h].id => g = h
  BY <1>2, <1>3, <1>8
<1>10. ASSUME NEW g \in Fd PROVE Backlog(u, g) \subseteq 1 .. n + 1 /\ InOrder(u, g)
  <2>1. CASE g = f
    BY <1>2, <1>3, <1>5, <1>7, <2>1
  <2>2. CASE g # f
    BY <1>2, <1>3, <1>6, <2>2
  <2> QED
    BY <2>1, <2>2
<1>11. ASSUME NEW g \in Fd, NEW h \in OpenIn(u) PROVE u[h].id \notin Backlog(u, g)
  <2>1. CASE g = f
    BY <1>2, <1>3, <1>5, <1>8, <2>1
  <2>2. CASE g # f
    BY <1>2, <1>6, <1>8, <2>2
  <2> QED
    BY <2>1, <2>2
<1>12. \A g \in Fd : Backlog(u, g) \subseteq Backlog(t, g) \cup {m.id} /\ m.id \notin Backlog(t, g)
  BY <1>2, <1>3, <1>5, <1>6
<1>13. ASSUME NEW g \in Fd, NEW h \in Fd, g # h PROVE Backlog(u, g) \cap Backlog(u, h) = {}
  <2>1. CASE g = f
    <3>1. Backlog(u, h) = Backlog(t, h) /\ Backlog(u, f) = Backlog(t, f) \cup {m.id}
      BY <1>2, <1>5, <1>6, <1>12, <1>13, <2>1
    <3>2. m.id \notin Backlog(t, h) /\ Backlog(t, f) \cap Backlog(t, h) = {}
      BY <1>2, <1>5, <1>6, <1>12, <1>13, <2>1
    <3> QED
      BY <3>1, <3>2, <2>1
  <2>2. CASE h = f
    <3>1. Backlog(u, g) = Backlog(t, g) /\ Backlog(u, f) = Backlog(t, f) \cup {m.id}
      BY <1>2, <1>5, <1>6, <1>12, <1>13, <2>2
    <3>2. m.id \notin Backlog(t, g) /\ Backlog(t, f) \cap Backlog(t, g) = {}
      BY <1>2, <1>5, <1>6, <1>12, <1>13, <2>2
    <3> QED
      BY <3>1, <3>2, <2>2
  <2>3. CASE g # f /\ h # f
    BY <1>2, <1>6, <1>13, <2>3
  <2> QED
    BY <2>1, <2>2, <2>3
<1>14. \A g \in Fd : Inbox(u, g) = Inbox(t, g)
  BY <1>5, <1>6
<1> QED
  BY <1>1, <1>9, <1>10, <1>11, <1>13, <1>14 DEF Names

LEMMA LettersArrive ==
  ASSUME NEW t, FilesOK(t), NEW n, Names(t, n), NEW s, NEW E, NEW k \in Nat, Letters(t, s, E, k),
         NEW f \in Fd, t[f].sort = "sock",
         NEW m \in Body, m.id = k + 1, NEW u, u = Enqueued(t, f, m)
  PROVE  Names(u, n) /\ SameFiles(u, t, Fd) /\ Letters(u, s, E, k + 1)
<1>1. /\ SameFiles(u, t, Fd) /\ (\A g \in Fd \ {f} : u[g] = t[g])
      /\ Line(u, f) = Line(t, f) \cup {m.id}
  BY Arrives
<1>2. u[f].sort = "sock"
  BY <1>1 DEF SameFiles
<1>3. /\ Inbox(u, f) = Inbox(t, f) \cup {m.id} /\ Backlog(u, f) = {} /\ Backlog(t, f) = {}
      /\ InOrder(u, f)
  BY <1>1, <1>2 DEF Backlog, Inbox, InOrder
<1>4. \A g \in Fd \ {f} : /\ Backlog(u, g) = Backlog(t, g) /\ Inbox(u, g) = Inbox(t, g)
                          /\ (InOrder(t, g) => InOrder(u, g))
  BY <1>1, SameQueue
<1>5. OpenIn(u) = OpenIn(t) /\ \A g \in OpenIn(t) : u[g].id = t[g].id
  BY <1>1, SameFilesOpen
<1>6. \A g \in Fd : Backlog(u, g) = Backlog(t, g)
  BY <1>3, <1>4
<1>7. \A g \in Fd : InOrder(u, g)
  BY <1>3, <1>4 DEF Names
<1>8. Names(u, n)
  BY <1>5, <1>6, <1>7 DEF Names
<1>9. /\ s \cup E \subseteq 1 .. k /\ s \cap E = {}
      /\ \A g \in Fd : Inbox(t, g) \subseteq 1 .. k /\ Inbox(t, g) \cap (s \cup E) = {}
      /\ \A g, h \in Fd : g # h => Inbox(t, g) \cap Inbox(t, h) = {}
  BY DEF Letters
<1>10. m.id \notin 1 .. k /\ m.id \in 1 .. k + 1 /\ \A x \in 1 .. k : x \in 1 .. k + 1
  OBVIOUS
<1>11. \A g \in Fd : /\ Inbox(u, g) \subseteq Inbox(t, g) \cup {m.id}
                     /\ m.id \notin Inbox(t, g)
  <2> SUFFICES ASSUME NEW g \in Fd
               PROVE  Inbox(u, g) \subseteq Inbox(t, g) \cup {m.id} /\ m.id \notin Inbox(t, g)
    OBVIOUS
  <2>1. m.id \notin Inbox(t, g)
    BY <1>9, <1>10
  <2>2. CASE g = f
    BY <1>3, <2>1, <2>2
  <2>3. CASE g # f
    BY <1>4, <2>1, <2>3
  <2> QED
    BY <2>2, <2>3
<1>12. \A g \in Fd : Inbox(u, g) \subseteq 1 .. k + 1 /\ Inbox(u, g) \cap (s \cup E) = {}
  BY <1>9, <1>10, <1>11
<1>13. ASSUME NEW g \in Fd, NEW h \in Fd, g # h PROVE Inbox(u, g) \cap Inbox(u, h) = {}
  <2>1. CASE g = f
    <3>1. Inbox(u, h) = Inbox(t, h) /\ Inbox(u, f) = Inbox(t, f) \cup {m.id}
      BY <1>3, <1>4, <1>9, <1>11, <1>13, <2>1
    <3>2. m.id \notin Inbox(t, h) /\ Inbox(t, f) \cap Inbox(t, h) = {}
      BY <1>3, <1>4, <1>9, <1>11, <1>13, <2>1
    <3> QED
      BY <3>1, <3>2, <2>1
  <2>2. CASE h = f
    <3>1. Inbox(u, g) = Inbox(t, g) /\ Inbox(u, f) = Inbox(t, f) \cup {m.id}
      BY <1>3, <1>4, <1>9, <1>11, <1>13, <2>2
    <3>2. m.id \notin Inbox(t, g) /\ Inbox(t, f) \cap Inbox(t, g) = {}
      BY <1>3, <1>4, <1>9, <1>11, <1>13, <2>2
    <3> QED
      BY <3>1, <3>2, <2>2
  <2>3. CASE g # f /\ h # f
    BY <1>4, <1>9, <1>13, <2>3
  <2> QED
    BY <2>1, <2>2, <2>3
<1>14. s \cup E \subseteq 1 .. k + 1
  BY <1>9, <1>10
<1>15. Letters(u, s, E, k + 1)
  BY <1>9, <1>12, <1>13, <1>14 DEF Letters
<1> QED
  BY <1>1, <1>8, <1>15

-----------------------------------------------------------------------------
(* What the operations do to the messages to send.                         *)

LEMMA RemoveMail ==
  ASSUME NEW s \in Seq(Msg), NEW f, NEW r, r = ipc_remove_messages_for_fd(s, f)
  PROVE  /\ Distinct(s) => Distinct(r)
         /\ Entries(r) = {m \in Entries(s) : m.fd # f}
<1>1. PICK p : Rearranges(p, r, s, Kept(s, {f}))
  BY RemoveForExact DEF ipc_remove_messages_for_fd
<1>2. /\ p \in [1 .. Len(r) -> Kept(s, {f})]
      /\ \A j, k \in 1 .. Len(r) : p[j] = p[k] => j = k
      /\ \A k \in Kept(s, {f}) : \E j \in 1 .. Len(r) : p[j] = k
      /\ \A j \in 1 .. Len(r) : r[j] = s[p[j]]
  BY <1>1 DEF Rearranges
<1>3. \A j \in 1 .. Len(r) : p[j] \in 1 .. Len(s) /\ s[p[j]].fd # f
  BY <1>2 DEF Kept
<1>4. Distinct(s) => Distinct(r)
  BY <1>2, <1>3 DEF Distinct
<1>5. \A k \in 1 .. Len(s) : s[k].fd # f => \E j \in 1 .. Len(r) : r[j] = s[k]
  BY <1>2 DEF Kept
<1>6. \A x \in Entries(r) : x \in Entries(s) /\ x.fd # f
  BY <1>2, <1>3 DEF Entries
<1>7. \A x \in Entries(s) : x.fd # f => x \in Entries(r)
  BY <1>5 DEF Entries
<1> QED
  BY <1>4, <1>6, <1>7

(* F is forgotten: its ends, and its messages.                             *)
Forgets(d, c, F) ==
  /\ Ends(d) = Ends(c) \ F
  /\ Mail(d) = {m \in Mail(c) : m.fd \notin F}
  /\ Distinct(c.tx) => Distinct(d.tx)

LEMMA ForgetsTwice ==
  ASSUME NEW c, NEW d, NEW e, NEW f, NEW g, Forgets(d, c, {f}), Forgets(e, d, {g})
  PROVE  Forgets(e, c, {f, g})
BY DEF Forgets

LEMMA CloseForgets ==
  ASSUME NEW c, Shape(c), NEW i \in 1 .. Len(c.conns), NEW f, f = c.conns[i].fd,
         NEW d, d = close(c, i)
  PROVE  Forgets(d, c, {f})
<1>1. HeldBy(d) = HeldBy(c) \ {f} /\ \A t : Of(d, t) = Of(c, t) \ {f}
  BY CloseFacts
<1>2. Ends(d) = Ends(c) \ {f}
  BY <1>1 DEF Ends, Listening
<1>3. PICK s \in Seq(Msg) : s = c.tx
  BY DEF Shape
<1>4. d.tx = ipc_remove_messages_for_fd(s, f)
  BY <1>3 DEF close, Shape
<1>5. PICK r : r = d.tx
  OBVIOUS
<1>6. /\ Distinct(s) => Distinct(r)
      /\ Entries(r) = {m \in Entries(s) : m.fd # f}
  <2>1. r = ipc_remove_messages_for_fd(s, f)
    BY <1>4, <1>5
  <2> QED
    BY <2>1, RemoveMail
<1>7. Mail(d) = {m \in Mail(c) : m.fd # f}
  BY <1>3, <1>5, <1>6 DEF Mail
<1> QED
  BY <1>2, <1>3, <1>5, <1>6, <1>7 DEF Forgets

LEMMA CloseFdForgets ==
  ASSUME NEW c, Shape(c), NEW f \in HeldBy(c), NEW d, d = close_fd(c, f)
  PROVE  Forgets(d, c, {f})
<1>1. PICK i \in 1 .. Len(c.conns) : i = fd_to_index(c, f) /\ c.conns[i].fd = f
  BY IndexFacts
<1>2. d = close(c, i)
  BY <1>1 DEF close_fd, HeldBy
<1> QED
  BY <1>1, <1>2, CloseForgets

LEMMA DropPairForgets ==
  ASSUME NEW c, Shape(c), Paired(c), NEW f \in DOMAIN c.switchdb, NEW d, d = DropPair(c, f),
         NEW g, g = getDest(c, f)
  PROVE  Forgets(d, c, {f, g})
<1>1. PICK b : b = nuke(c, f)
  OBVIOUS
<1>2. Shape(b) /\ b.tx = c.tx /\ b.conns = c.conns
  BY <1>1, NukeFacts
<1>3. f \in Of(c, "SWITCHED") /\ g \in Of(c, "SWITCHED") /\ g # f
  BY DEF Paired, getDest
<1>4. f \in HeldBy(c) /\ g \in HeldBy(c)
  BY <1>3, OfHeld
<1>5. HeldBy(b) = HeldBy(c) /\ Ends(b) = Ends(c) /\ Mail(b) = Mail(c)
  BY <1>2 DEF HeldBy, Registered, Ends, Listening, Of, Mail
<1>6. PICK e : e = close_fd(b, f)
  OBVIOUS
<1>7. f \in HeldBy(b) /\ f \in Fd
  BY <1>4, <1>5 DEF HeldBy
<1>8. Forgets(e, b, {f})
  BY <1>2, <1>6, <1>7, CloseFdForgets
<1>9. Shape(e) /\ HeldBy(e) = HeldBy(b) \ {f}
  BY <1>2, <1>6, <1>7, CloseFdFacts
<1>10. g \in HeldBy(e)
  BY <1>3, <1>4, <1>5, <1>9
<1>11. d = close_fd(e, g)
  BY <1>1, <1>6 DEF DropPair
<1>12. Forgets(d, e, {g})
  BY <1>9, <1>10, <1>11, CloseFdForgets
<1>13. Forgets(d, b, {f, g})
  BY <1>8, <1>12, ForgetsTwice
<1> QED
  BY <1>2, <1>5, <1>13 DEF Forgets

LEMMA ScheduleMail ==
  ASSUME NEW c, Shape(c), NEW m \in Msg, NEW d, d = schedule(c, m)
  PROVE  /\ Ends(d) = Ends(c) /\ Mail(d) = Mail(c) \cup {m}
         /\ Distinct(c.tx) /\ (\A e \in Mail(c) : e.id # m.id) => Distinct(d.tx)
<1>1. HeldBy(d) = HeldBy(c) /\ \A t : Of(d, t) = Of(c, t)
  BY ScheduleFacts
<1>2. PICK s \in Seq(Msg) : s = c.tx
  BY DEF Shape
<1>3. d.tx = Append(s, m)
  BY <1>2 DEF schedule, Shape
<1>4. PICK n \in Nat : n = Len(s)
  BY <1>2
<1>5. PICK r : r = Append(s, m)
  OBVIOUS
<1>6. Len(r) = n + 1 /\ r[n + 1] = m /\ \A k \in 1 .. n : r[k] = s[k]
  BY <1>2, <1>4, <1>5
<1>7. \A k \in 1 .. n + 1 : k \in 1 .. n \/ k = n + 1
  BY <1>4
<1>8. n + 1 \in 1 .. n + 1 /\ \A k \in 1 .. n : k \in 1 .. n + 1
  BY <1>4
<1>9. Mail(c) = {s[k] : k \in 1 .. n} /\ Mail(d) = {r[k] : k \in 1 .. n + 1}
  BY <1>2, <1>3, <1>4, <1>5, <1>6 DEF Mail, Entries
<1>10. Mail(d) = Mail(c) \cup {m}
  <2>1. \A y \in Mail(d) : y \in Mail(c) \cup {m}
    BY <1>6, <1>7, <1>9
  <2>2. \A y \in Mail(c) \cup {m} : y \in Mail(d)
    BY <1>6, <1>8, <1>9
  <2> QED
    BY <2>1, <2>2
<1>11. ASSUME Distinct(c.tx), \A e \in Mail(c) : e.id # m.id PROVE Distinct(d.tx)
  <2>1. \A j, k \in 1 .. n : s[j].id = s[k].id => j = k
    BY <1>2, <1>4, <1>11 DEF Distinct
  <2>2. \A j \in 1 .. n : s[j].id # m.id
    BY <1>9, <1>11
  <2>3. \A j, k \in 1 .. n + 1 : r[j].id = r[k].id => j = k
    BY <1>6, <1>7, <2>1, <2>2
  <2> QED
    BY <1>3, <1>5, <1>6, <2>3 DEF Distinct
<1> QED
  BY <1>1, <1>10, <1>11 DEF Ends, Listening

LEMMA TakeMail ==
  ASSUME NEW c, Shape(c), NEW i \in 1 .. Len(c.conns), NEW k \in 1 .. Len(c.tx),
         NEW f, c.conns[i].fd = f, c.tx[k].fd = f, NEW d, d = Taken(c, i, k)
  PROVE  /\ Ends(d) = Ends(c)
         /\ Distinct(c.tx) => Distinct(d.tx) /\ Mail(d) = Mail(c) \ {c.tx[k]}
<1>1. Lighter(d, c, f)
  BY TakeFacts
<1>2. Ends(d) = Ends(c)
  BY <1>1 DEF Lighter, Ends, Listening
<1>3. PICK s \in Seq(Msg) : s = c.tx
  BY DEF Shape
<1>4. PICK n \in Nat : n = Len(s) /\ k \in 1 .. n
  BY <1>3
<1>5. PICK r : r = SwapRemove(s, k)
  OBVIOUS
<1>6. k \in 1 .. Len(s)
  BY <1>4
<1>7. Len(r) = n - 1 /\ \A j \in 1 .. n - 1 : r[j] = IF j = k THEN s[n] ELSE s[j]
  BY <1>4, <1>5, <1>6, SwapRemoveFacts
<1>8. d.tx = r
  BY <1>3, <1>5, <1>6 DEF Taken, ClearOut, ipc_messages_del, Shape
<1> DEFINE from(j) == IF j = k THEN n ELSE j
<1>9. \A j \in 1 .. n - 1 : from(j) \in 1 .. n /\ from(j) # k /\ r[j] = s[from(j)]
  BY <1>4, <1>7
<1>10. \A j, l \in 1 .. n - 1 : from(j) = from(l) => j = l
  BY <1>4
<1>11. \A l \in 1 .. n : l # k => \E j \in 1 .. n - 1 : from(j) = l
  <2> SUFFICES ASSUME NEW l \in 1 .. n, l # k PROVE \E j \in 1 .. n - 1 : from(j) = l
    OBVIOUS
  <2>1. CASE l = n
    <3>1. k \in 1 .. n - 1 /\ from(k) = l
      BY <1>4, <2>1
    <3> QED
      BY <3>1
  <2>2. CASE l # n
    <3>1. l \in 1 .. n - 1 /\ from(l) = l
      BY <1>4, <2>2
    <3> QED
      BY <3>1
  <2> QED
    BY <2>1, <2>2
<1> HIDE DEF from
<1>12. ASSUME Distinct(c.tx) PROVE Distinct(d.tx) /\ Mail(d) = Mail(c) \ {c.tx[k]}
  <2>1. \A j, l \in 1 .. n : s[j].id = s[l].id => j = l
    BY <1>3, <1>4, <1>12 DEF Distinct
  <2>2. Distinct(d.tx)
    <3> SUFFICES ASSUME NEW j \in 1 .. n - 1, NEW l \in 1 .. n - 1, r[j].id = r[l].id PROVE j = l
      BY <1>7, <1>8 DEF Distinct
    <3>1. s[from(j)].id = s[from(l)].id
      BY <1>9
    <3>2. from(j) = from(l)
      BY <1>9, <2>1, <3>1
    <3> QED
      BY <1>10, <3>2
  <2>3. Mail(c) = {s[j] : j \in 1 .. n} /\ Mail(d) = {r[j] : j \in 1 .. n - 1}
    BY <1>3, <1>4, <1>7, <1>8 DEF Mail, Entries
  <2>4. \A l \in 1 .. n : s[l] = s[k] => l = k
    BY <1>4, <2>1
  <2>5. \A y \in Mail(d) : y \in Mail(c) \ {s[k]}
    BY <1>9, <2>3, <2>4
  <2>6. \A y \in Mail(c) \ {s[k]} : y \in Mail(d)
    <3> SUFFICES ASSUME NEW l \in 1 .. n, s[l] # s[k] PROVE s[l] \in Mail(d)
      BY <2>3
    <3>1. PICK j \in 1 .. n - 1 : from(j) = l
      BY <1>11
    <3> QED
      BY <1>9, <2>3, <3>1
  <2> QED
    BY <1>3, <2>2, <2>5, <2>6
<1> QED
  BY <1>2, <1>12

-----------------------------------------------------------------------------
(* What Outbox sees, in terms of the ends and of the messages to send.     *)

OpenIds(c, t) == {t[f].id : f \in Ends(c)}
BrokenIds(c, t) == {t[f].id : f \in {g \in Ends(c) : t[g].peer # "up"}}
Seen(m) == [id |-> m.id, conn |-> m.file]
Pending(c) == {Seen(m) : m \in Mail(c)}
Written(S) == {Seen(d) : d \in S}

LEMMA EndsTalk ==
  ASSUME NEW c, NEW t, NEW X, NEW Y, Owned(c, t, X), Talks(c, t, Y)
  PROVE  Ends(c) = {f \in HeldBy(c) : t[f].sort = "sock"} /\ Ends(c) \subseteq OpenIn(t)
<1>1. \A f \in Ends(c) : t[f].sort = "sock" /\ f \in HeldBy(c)
  BY DEF Talks, Ends
<1>2. \A f \in HeldBy(c) : t[f].sort = "sock" => f \in Ends(c)
  BY DEF Ends, Owned
<1>3. HeldBy(c) \subseteq OpenIn(t)
  BY DEF Owned
<1> QED
  BY <1>1, <1>2, <1>3

LEMMA MappedVars ==
  ASSUME ZInv, GInv
  PROVE  /\ {files[f].id : f \in Talking} = OpenIds(ctx, files)
         /\ {files[f].id : f \in {g \in Talking : files[g].peer # "up"}} = BrokenIds(ctx, files)
         /\ {[id |-> m.id, conn |-> m.file] : m \in Listed} = Pending(ctx)
         /\ {[id |-> d.id, conn |-> d.file] : d \in sent} = Written(sent)
<1>1. Shape(ctx) /\ Owned(ctx, files, Aside(at)) /\ Talks(ctx, files, Aside(at))
  BY DEF ZInv, ZOK, CtxOK, GInv, GOK
<1>2. \A i \in 1 .. Len(ctx.conns) : ctx.conns[i].fd \in Fd
  BY <1>1, ShapeFields
<1>3. Held = HeldBy(ctx)
  BY <1>2 DEF HeldBy, Held, Registered
<1>4. Ends(ctx) = {f \in HeldBy(ctx) : files[f].sort = "sock"}
  BY <1>1, EndsTalk
<1>5. Talking = Ends(ctx)
  BY <1>3, <1>4 DEF Talking
<1>6. Listed = Mail(ctx)
  BY DEF Listed, Mail, Entries
<1> QED
  BY <1>5, <1>6 DEF OpenIds, BrokenIds, Pending, Written, Seen

LEMMA MappedVarsNext ==
  ASSUME ZInv', GInv'
  PROVE  /\ {files'[f].id : f \in Talking'} = OpenIds(ctx', files')
         /\ {files'[f].id : f \in {g \in Talking' : files'[g].peer # "up"}} = BrokenIds(ctx', files')
         /\ {[id |-> m.id, conn |-> m.file] : m \in Listed'} = Pending(ctx')
         /\ {[id |-> d.id, conn |-> d.file] : d \in sent'} = Written(sent')
<1>1. Shape(ctx') /\ Owned(ctx', files', Aside(at')) /\ Talks(ctx', files', Aside(at'))
  BY DEF ZInv, ZOK, CtxOK, GInv, GOK
<1>2. \A i \in 1 .. Len(ctx'.conns) : ctx'.conns[i].fd \in Fd
  BY <1>1, ShapeFields
<1>3. Held' = HeldBy(ctx')
  BY <1>2 DEF HeldBy, Held, Registered
<1>4. Ends(ctx') = {f \in HeldBy(ctx') : files'[f].sort = "sock"}
  BY <1>1, EndsTalk
<1>5. Talking' = Ends(ctx')
  BY <1>3, <1>4 DEF Talking
<1>6. Listed' = Mail(ctx')
  BY DEF Listed, Mail, Entries
<1> QED
  BY <1>5, <1>6 DEF OpenIds, BrokenIds, Pending, Written, Seen

(* The step is one of Outbox, or Outbox sees nothing.                      *)
Maps == Promise!Next \/ UNCHANGED Promise!vars

GInvs == ZInv /\ ZInv' /\ GInv /\ GInv'

LEMMA StutterMaps ==
  ASSUME GInvs, Ends(ctx') = Ends(ctx), SameFiles(files', files, Ends(ctx)),
         Mail(ctx') = Mail(ctx), sent' = sent
  PROVE  Maps
<1>1. OpenIds(ctx', files') = OpenIds(ctx, files)
  BY DEF OpenIds, SameFiles
<1>2. BrokenIds(ctx', files') = BrokenIds(ctx, files)
  BY DEF BrokenIds, SameFiles
<1>3. Pending(ctx') = Pending(ctx) /\ Written(sent') = Written(sent)
  BY DEF Pending
<1>4. UNCHANGED Promise!vars
  BY <1>1, <1>2, <1>3, MappedVars, MappedVarsNext DEF Promise!vars, GInvs
<1> QED
  BY <1>4 DEF Maps

LEMMA OpenMaps ==
  ASSUME GInvs, NEW K \in SUBSET Fd, K # {}, K \cap Ends(ctx) = {}, Ends(ctx') = Ends(ctx) \cup K,
         SameFiles(files', files, Ends(ctx)), Mail(ctx') = Mail(ctx), sent' = sent
  PROVE  Maps
<1> DEFINE L == {files'[f].id : f \in K}
           Lost == {files'[f].id : f \in {g \in K : files'[g].peer # "up"}}
<1>1. OpenIds(ctx', files') = OpenIds(ctx, files) \cup L
  BY DEF OpenIds, SameFiles
<1>2. BrokenIds(ctx', files') = BrokenIds(ctx, files) \cup Lost
  <2>1. \A x \in BrokenIds(ctx', files') : x \in BrokenIds(ctx, files) \cup Lost
    BY DEF BrokenIds, SameFiles
  <2>2. \A x \in BrokenIds(ctx, files) \cup Lost : x \in BrokenIds(ctx', files')
    BY DEF BrokenIds, SameFiles
  <2> QED
    BY <2>1, <2>2
<1>3. Pending(ctx') = Pending(ctx) /\ Written(sent') = Written(sent)
  BY DEF Pending
<1>4. Ends(ctx') \subseteq OpenIn(files') /\ Names(files', nfiles')
  <2>1. Owned(ctx', files', Aside(at')) /\ Talks(ctx', files', Aside(at'))
    BY DEF GInvs, ZInv, ZOK, GInv, GOK
  <2> QED
    BY <2>1, EndsTalk DEF GInvs, GInv, GOK
<1>5. \A f, g \in Ends(ctx') : files'[f].id = files'[g].id => f = g
  BY <1>4 DEF Names
<1>6. L # {} /\ L \cap OpenIds(ctx, files) = {} /\ L \in SUBSET OpenIds(ctx', files')
  BY <1>1, <1>5 DEF OpenIds, SameFiles
<1>7. Lost \in SUBSET L
  OBVIOUS
<1> HIDE DEF L, Lost
<1>8. BrokenIds(ctx', files') \in {BrokenIds(ctx, files) \cup B : B \in SUBSET L}
  BY <1>2, <1>7
<1>9. PICK J : J = L
  OBVIOUS
<1>10. Promise!Open(J)
  <2> DEFINE O == {files[f].id : f \in Talking}
             B == {files[f].id : f \in {g \in Talking : files[g].peer # "up"}}
             P == {[id |-> m.id, conn |-> m.file] : m \in Listed}
             W == {[id |-> d.id, conn |-> d.file] : d \in sent}
  <2>1. O' = O \cup L /\ P' = P /\ W' = W /\ L \cap O = {}
    BY <1>1, <1>3, <1>6, MappedVars, MappedVarsNext DEF GInvs
  <2>2. B' \in {B \cup C : C \in SUBSET L}
    BY <1>8, MappedVars, MappedVarsNext DEF GInvs
  <2> HIDE DEF O, B, P, W
  <2>3. /\ J # {} /\ J \cap O = {} /\ O' = O \cup J
        /\ B' \in {B \cup C : C \in SUBSET J} /\ P' = P /\ W' = W
    BY <1>6, <1>9, <2>1, <2>2
  <2> QED
    BY <2>3 DEF Promise!Open, O, B, P, W
<1>11. J \in SUBSET {files'[f].id : f \in Talking'}
  BY <1>6, <1>9, MappedVarsNext DEF GInvs
<1>12. Promise!Next
  BY <1>10, <1>11 DEF Promise!Next
<1> QED
  BY <1>12 DEF Maps

LEMMA CloseMaps ==
  ASSUME GInvs, NEW K \in SUBSET Fd, Ends(ctx') = Ends(ctx) \ K,
         SameFiles(files', files, Ends(ctx) \ K),
         Mail(ctx') = {m \in Mail(ctx) : m.fd \notin K}, sent' = sent
  PROVE  Maps
<1> DEFINE L == {files[f].id : f \in K \cap Ends(ctx)}
<1>1. Ends(ctx) \subseteq OpenIn(files) /\ Names(files, nfiles) /\ Addressed(ctx, files)
  <2>1. Owned(ctx, files, Aside(at)) /\ Talks(ctx, files, Aside(at))
    BY DEF GInvs, ZInv, ZOK, GInv, GOK
  <2> QED
    BY <2>1, EndsTalk DEF GInvs, GInv, GOK
<1>2. /\ \A f, g \in Ends(ctx) : files[f].id = files[g].id => f = g
      /\ \A m \in Mail(ctx) : m.fd \in Ends(ctx) /\ m.file = files[m.fd].id
  BY <1>1 DEF Names, Addressed
<1>3. \A f \in Ends(ctx) : files[f].id \in L <=> f \in K
  BY <1>2
<1>4. OpenIds(ctx', files') = OpenIds(ctx, files) \ L
  <2>1. \A x \in OpenIds(ctx', files') : x \in OpenIds(ctx, files) \ L
    BY <1>3 DEF OpenIds, SameFiles
  <2>2. \A x \in OpenIds(ctx, files) \ L : x \in OpenIds(ctx', files')
    BY <1>3 DEF OpenIds, SameFiles
  <2> QED
    BY <2>1, <2>2
<1>5. BrokenIds(ctx', files') = BrokenIds(ctx, files) \ L
  <2>1. \A x \in BrokenIds(ctx', files') : x \in BrokenIds(ctx, files) \ L
    BY <1>3 DEF BrokenIds, SameFiles
  <2>2. \A x \in BrokenIds(ctx, files) \ L : x \in BrokenIds(ctx', files')
    BY <1>3 DEF BrokenIds, SameFiles
  <2> QED
    BY <2>1, <2>2
<1>6. L \in SUBSET OpenIds(ctx, files)
  BY DEF OpenIds
<1> HIDE DEF L
<1>7. Pending(ctx') = {p \in Pending(ctx) : p.conn \notin L}
  <2>1. \A m \in Mail(ctx) : Seen(m).conn \in L <=> m.fd \in K
    BY <1>2, <1>3 DEF Seen
  <2>2. \A x \in Pending(ctx') : x \in Pending(ctx) /\ x.conn \notin L
    BY <2>1 DEF Pending
  <2>3. \A x \in Pending(ctx) : x.conn \notin L => x \in Pending(ctx')
    BY <2>1 DEF Pending
  <2> QED
    BY <2>2, <2>3
<1>8. Written(sent') = Written(sent)
  OBVIOUS
<1>9. PICK J : J = L
  OBVIOUS
<1>10. Promise!Close(J)
  BY <1>4, <1>5, <1>7, <1>8, <1>9, MappedVars, MappedVarsNext DEF Promise!Close, GInvs
<1>11. J \in SUBSET {files[f].id : f \in Talking}
  BY <1>6, <1>9, MappedVars DEF GInvs
<1>12. Promise!Next
  BY <1>10, <1>11 DEF Promise!Next
<1> QED
  BY <1>12 DEF Maps

LEMMA PeerLeavesMaps ==
  ASSUME GInvs, NEW f \in Ends(ctx), ctx' = ctx, sent' = sent,
         \A g \in Fd : files'[g].id = files[g].id,
         \A g \in Fd \ {f} : files'[g].peer = files[g].peer, files'[f].peer # "up"
  PROVE  Maps
<1>1. f \in Fd /\ Ends(ctx) \in SUBSET Fd
  BY DEF Ends, HeldBy
<1>2. OpenIds(ctx', files') = OpenIds(ctx, files) /\ files[f].id \in OpenIds(ctx, files)
  BY <1>1 DEF OpenIds
<1>3. BrokenIds(ctx', files') = BrokenIds(ctx, files) \cup {files[f].id}
  <2>1. \A x \in BrokenIds(ctx', files') : x \in BrokenIds(ctx, files) \cup {files[f].id}
    BY <1>1 DEF BrokenIds
  <2>2. \A x \in BrokenIds(ctx, files) \cup {files[f].id} : x \in BrokenIds(ctx', files')
    BY <1>1 DEF BrokenIds
  <2> QED
    BY <2>1, <2>2
<1>4. PICK k : k = files[f].id
  OBVIOUS
<1>5. Promise!PeerLeaves(k)
  BY <1>2, <1>3, <1>4, MappedVars, MappedVarsNext DEF Promise!PeerLeaves, GInvs
<1>6. k \in {files[g].id : g \in Talking}
  BY <1>2, <1>4, MappedVars DEF GInvs
<1>7. Promise!Next
  BY <1>5, <1>6 DEF Promise!Next
<1> QED
  BY <1>7 DEF Maps

LEMMA ScheduleMaps ==
  ASSUME GInvs, Ends(ctx') = Ends(ctx), SameFiles(files', files, Ends(ctx)),
         NEW m, Mail(ctx') = Mail(ctx) \cup {m}, sent' = sent,
         m.fd \in Ends(ctx), m.file = files[m.fd].id, m.id \notin Spent(ctx, sent)
  PROVE  Maps
<1>1. OpenIds(ctx', files') = OpenIds(ctx, files) /\ BrokenIds(ctx', files') = BrokenIds(ctx, files)
  BY DEF OpenIds, BrokenIds, SameFiles
<1>2. Pending(ctx') = Pending(ctx) \cup {Seen(m)} /\ Written(sent') = Written(sent)
  BY DEF Pending
<1>3. Seen(m).conn \in OpenIds(ctx, files)
  BY DEF Seen, OpenIds
<1>4. Seen(m).id \notin {p.id : p \in Pending(ctx)} \cup {p.id : p \in Written(sent)}
  BY DEF Pending, Written, Seen, Spent
<1>5. Promise!Schedule(Seen(m))
  BY <1>1, <1>2, <1>3, <1>4, MappedVars, MappedVarsNext DEF Promise!Schedule, Promise!Ids, GInvs
<1>6. Promise!Next
  BY <1>2, <1>5, MappedVarsNext DEF Promise!Next, GInvs
<1> QED
  BY <1>6 DEF Maps

LEMMA WriteMaps ==
  ASSUME GInvs, Ends(ctx') = Ends(ctx), files' = files,
         NEW m \in Mail(ctx), Mail(ctx') = Mail(ctx) \ {m},
         \A e \in Mail(ctx) : e.id = m.id => e = m,
         NEW d, sent' = sent \cup {d}, d.id = m.id, d.file = m.file
  PROVE  Maps
<1>1. OpenIds(ctx', files') = OpenIds(ctx, files) /\ BrokenIds(ctx', files') = BrokenIds(ctx, files)
  BY DEF OpenIds, BrokenIds
<1>2. Pending(ctx') = Pending(ctx) \ {Seen(m)} /\ Seen(m) \in Pending(ctx)
  <2>1. \A e \in Mail(ctx) : Seen(e) = Seen(m) => e = m
    BY DEF Seen
  <2>2. \A x \in Pending(ctx') : x \in Pending(ctx) \ {Seen(m)}
    BY <2>1 DEF Pending
  <2>3. \A x \in Pending(ctx) \ {Seen(m)} : x \in Pending(ctx')
    BY DEF Pending
  <2> QED
    BY <2>2, <2>3 DEF Pending
<1>3. Written(sent') = Written(sent) \cup {Seen(m)}
  <2>1. Seen(d) = Seen(m)
    BY DEF Seen
  <2> QED
    BY <2>1 DEF Written
<1>4. Promise!Write(Seen(m))
  BY <1>1, <1>2, <1>3, MappedVars, MappedVarsNext DEF Promise!Write, GInvs
<1>5. Promise!Next
  BY <1>2, <1>4, MappedVars DEF Promise!Next, GInvs
<1> QED
  BY <1>5 DEF Maps

-----------------------------------------------------------------------------
(* The steps, by what they do to the ends and to the messages to send.     *)

LEMMA GParts ==
  ASSUME ZInv, GInv
  PROVE  /\ \A f \in Ends(ctx) : f \in Fd /\ files[f].sort = "sock"
         /\ Addressed(ctx, files) /\ Distinct(ctx.tx) /\ Names(files, nfiles)
         /\ Letters(files, Spent(ctx, sent), Carried(at, event), nmsgs)
         /\ FilesOK(files) /\ CtxOK(ctx) /\ Shape(ctx) /\ nfiles \in Nat /\ nmsgs \in Nat
BY DEF ZInv, ZOK, CtxOK, GInv, GOK, Talks, Ends, HeldBy

(* Connections are closed.                                                 *)
LEMMA ForgetStep ==
  ASSUME ZInv, ZInv', GInv, NEW F \in SUBSET Fd, Forgets(ctx', ctx, F), Less(files', files),
         SameFiles(files', files, Ends(ctx) \ F), UNCHANGED <<sent, nfiles, nmsgs>>,
         Aside(at') = {}, Carried(at', event') = {}
  PROVE  GInv' /\ Maps
<1>1. /\ \A f \in Ends(ctx) : f \in Fd /\ files[f].sort = "sock"
      /\ Addressed(ctx, files) /\ Distinct(ctx.tx) /\ Names(files, nfiles)
      /\ Letters(files, Spent(ctx, sent), Carried(at, event), nmsgs)
  BY GParts
<1>2. /\ Ends(ctx') = Ends(ctx) \ F /\ Distinct(ctx'.tx)
      /\ Mail(ctx') = {m \in Mail(ctx) : m.fd \notin F}
  BY <1>1 DEF Forgets
<1>3. Talks(ctx', files', {})
  BY <1>1, <1>2 DEF Talks, SameFiles
<1>4. Addressed(ctx', files')
  BY <1>1, <1>2 DEF Addressed, SameFiles
<1>5. Names(files', nfiles) /\ \A f \in Fd : Inbox(files', f) \subseteq Inbox(files, f)
  BY <1>1, NamesLess
<1>6. Spent(ctx', sent) \subseteq Spent(ctx, sent)
  BY <1>2 DEF Spent
<1>7. Spent(ctx', sent) \cup {} \subseteq Spent(ctx, sent) \cup Carried(at, event)
  BY <1>6
<1>8. Letters(files', Spent(ctx', sent), {}, nmsgs)
  BY <1>1, <1>5, <1>7, LettersLess
<1>9. GInv'
  BY <1>2, <1>3, <1>4, <1>5, <1>8 DEF GInv, GOK
<1>10. GInvs
  BY <1>9 DEF GInvs
<1> QED
  BY <1>2, <1>9, <1>10, CloseMaps

(* Outbox sees nothing.                                                    *)
LEMMA StillStep ==
  ASSUME ZInv, ZInv', GInv, Ends(ctx') = Ends(ctx), ctx'.tx = ctx.tx, sent' = sent,
         SameFiles(files', files, Ends(ctx)), \A f \in Aside(at') : files'[f].sort = "sock",
         Names(files', nfiles'),
         Letters(files', Spent(ctx, sent), Carried(at', event'), nmsgs')
  PROVE  GInv' /\ Maps
<1>1. /\ \A f \in Ends(ctx) : f \in Fd /\ files[f].sort = "sock"
      /\ Addressed(ctx, files) /\ Distinct(ctx.tx)
  BY GParts
<1>2. Mail(ctx') = Mail(ctx) /\ Spent(ctx', sent') = Spent(ctx, sent) /\ Distinct(ctx'.tx)
  BY <1>1 DEF Mail, Spent
<1>3. Talks(ctx', files', Aside(at'))
  BY <1>1 DEF Talks, SameFiles
<1>4. Addressed(ctx', files')
  BY <1>1, <1>2 DEF Addressed, SameFiles
<1>5. GInv'
  BY <1>2, <1>3, <1>4 DEF GInv, GOK
<1>6. GInvs
  BY <1>5 DEF GInvs
<1> QED
  BY <1>2, <1>5, <1>6, StutterMaps

(* Connections are added.                                                  *)
LEMMA OpenStep ==
  ASSUME ZInv, ZInv', GInv, NEW K \in SUBSET Fd, K # {}, K \cap Ends(ctx) = {},
         Ends(ctx') = Ends(ctx) \cup K, ctx'.tx = ctx.tx, sent' = sent,
         SameFiles(files', files, Ends(ctx)), \A f \in K : files'[f].sort = "sock", Aside(at') = {},
         Names(files', nfiles'),
         Letters(files', Spent(ctx, sent), Carried(at', event'), nmsgs')
  PROVE  GInv' /\ Maps
<1>1. /\ \A f \in Ends(ctx) : f \in Fd /\ files[f].sort = "sock"
      /\ Addressed(ctx, files) /\ Distinct(ctx.tx)
  BY GParts
<1>2. Mail(ctx') = Mail(ctx) /\ Spent(ctx', sent') = Spent(ctx, sent) /\ Distinct(ctx'.tx)
  BY <1>1 DEF Mail, Spent
<1>3. Talks(ctx', files', Aside(at'))
  BY <1>1 DEF Talks, SameFiles
<1>4. Addressed(ctx', files')
  BY <1>1, <1>2 DEF Addressed, SameFiles
<1>5. GInv'
  BY <1>2, <1>3, <1>4 DEF GInv, GOK
<1>6. GInvs
  BY <1>5 DEF GInvs
<1> QED
  BY <1>2, <1>5, <1>6, OpenMaps

(* A message is scheduled.                                                 *)
LEMMA ScheduleStep ==
  ASSUME ZInv, ZInv', GInv, NEW m \in Msg, ctx' = schedule(ctx, m), m.fd \in Ends(ctx),
         m.file = files[m.fd].id, m.id \notin Spent(ctx, sent),
         Less(files', files), SameFiles(files', files, Fd), UNCHANGED <<sent, nfiles, nmsgs>>,
         Letters(files', Spent(ctx, sent) \cup {m.id}, {}, nmsgs),
         Aside(at') = {}, Carried(at', event') = {}
  PROVE  GInv' /\ Maps
<1>1. /\ \A f \in Ends(ctx) : f \in Fd /\ files[f].sort = "sock"
      /\ Addressed(ctx, files) /\ Distinct(ctx.tx) /\ Names(files, nfiles) /\ Shape(ctx)
  BY GParts
<1>2. \A e \in Mail(ctx) : e.id # m.id
  BY DEF Spent
<1>3. Ends(ctx') = Ends(ctx) /\ Mail(ctx') = Mail(ctx) \cup {m} /\ Distinct(ctx'.tx)
  BY <1>1, <1>2, ScheduleMail
<1>4. Spent(ctx', sent) = Spent(ctx, sent) \cup {m.id}
  BY <1>3 DEF Spent
<1>5. SameFiles(files', files, Ends(ctx))
  BY <1>1 DEF SameFiles
<1>6. Talks(ctx', files', {})
  BY <1>1, <1>3, <1>5 DEF Talks, SameFiles
<1>7. Addressed(ctx', files')
  BY <1>1, <1>3, <1>5 DEF Addressed, SameFiles
<1>8. Names(files', nfiles)
  BY <1>1, NamesLess
<1>9. GInv'
  BY <1>3, <1>4, <1>6, <1>7, <1>8 DEF GInv, GOK
<1>10. GInvs
  BY <1>9 DEF GInvs
<1> QED
  BY <1>3, <1>5, <1>9, <1>10, ScheduleMaps

LEMMA EndsOf ==
  ASSUME NEW c, Shape(c)
  PROVE  Of(c, "IPC") \subseteq Ends(c) /\ Of(c, "SWITCHED") \subseteq Ends(c)
<1>1. Of(c, "IPC") \cap Of(c, "SERVER") = {} /\ Of(c, "IPC") \cap Of(c, "EXTERNAL") = {}
  BY OneType
<1>2. Of(c, "SWITCHED") \cap Of(c, "SERVER") = {} /\ Of(c, "SWITCHED") \cap Of(c, "EXTERNAL") = {}
  BY OneType
<1>3. Of(c, "IPC") \subseteq HeldBy(c) /\ Of(c, "SWITCHED") \subseteq HeldBy(c)
  BY OfHeld
<1> QED
  BY <1>1, <1>2, <1>3 DEF Ends, Listening

LEMMA AddEnds ==
  ASSUME NEW c, CtxOK(c), NEW f \in Fd \ HeldBy(c), NEW d, d = add_(c, f, "IPC")
  PROVE  Ends(d) = Ends(c) \cup {f} /\ d.tx = c.tx /\ f \notin Ends(c)
<1>1. Shape(c)
  BY DEF CtxOK
<1>2. PICK type \in ConnType : type = "IPC"
  BY DEF ConnType
<1>3. HeldBy(d) = HeldBy(c) \cup {f} /\ d.tx = c.tx
  BY <1>1, <1>2, AddFacts
<1>4. Listening(d) = Listening(c)
  BY AddListening
<1>5. f \notin Listening(c)
  BY <1>1, OfHeld DEF Listening
<1> QED
  BY <1>3, <1>4, <1>5 DEF Ends

(* A connection is added, and is about to be one end of a pair.            *)
LEMMA AddedEnd ==
  ASSUME NEW c, CtxOK(c), NEW f \in Fd \ HeldBy(c), NEW type \in {"IPC", "EXTERNAL"},
         NEW d, d = add_(c, f, type)
  PROVE  Ends(d) \ {f} = Ends(c) /\ d.tx = c.tx
<1>1. Shape(c)
  BY DEF CtxOK
<1>2. PICK ty \in ConnType : ty = type
  BY DEF ConnType
<1>3. /\ HeldBy(d) = HeldBy(c) \cup {f} /\ d.tx = c.tx
      /\ Of(d, ty) = Of(c, ty) \cup {f} /\ \A t \in ConnType \ {ty} : Of(d, t) = Of(c, t)
  BY <1>1, <1>2, AddFacts
<1>4. f \notin HeldBy(c) /\ f \notin Of(c, "SERVER") /\ f \notin Of(c, "EXTERNAL")
  BY <1>1, OfHeld
<1>5. Of(d, "SERVER") = Of(c, "SERVER")
  BY <1>2, <1>3 DEF ConnType
<1>6. Of(d, "EXTERNAL") \ {f} = Of(c, "EXTERNAL")
  BY <1>2, <1>3, <1>4 DEF ConnType
<1>7. Ends(d) \ {f} = Ends(c)
  BY <1>3, <1>4, <1>5, <1>6 DEF Ends, Listening
<1> QED
  BY <1>3, <1>7

LEMMA LinkedEnds ==
  ASSUME NEW c, CtxOK(c), NEW f \in HeldBy(c), NEW g \in HeldBy(c), f # g,
         f \notin Of(c, "SWITCHED"), g \notin Of(c, "SWITCHED"), NEW d, d = add_switch(c, f, g)
  PROVE  Ends(d) = Ends(c) \cup {f, g} /\ d.tx = c.tx
<1>1. HeldBy(d) = HeldBy(c) /\ Listening(d) = Listening(c) \ {f, g}
  BY LinkOK
<1>2. d.tx = c.tx
  BY SwitchFacts DEF CtxOK
<1> QED
  BY <1>1, <1>2 DEF Ends

-----------------------------------------------------------------------------
(* One lemma per action.                                                   *)

(* No message is carried by the event any more.                            *)
LEMMA LettersFewer ==
  ASSUME ZInv, GInv, NEW u, \A f \in Fd : Inbox(u, f) \subseteq Inbox(files, f)
  PROVE  Letters(u, Spent(ctx, sent), {}, nmsgs)
<1>1. Letters(files, Spent(ctx, sent), Carried(at, event), nmsgs)
  BY GParts
<1>2. Spent(ctx, sent) \cup {} \subseteq Spent(ctx, sent) \cup Carried(at, event)
      /\ Spent(ctx, sent) \cap {} = {}
  OBVIOUS
<1> QED
  BY <1>1, <1>2, LettersLess

LEMMA EndMaps ==
  ASSUME ZInv, ZInv', GInv, End, sent' = sent
  PROVE  GInv' /\ Maps
<1>1. (\A f \in Ends(ctx) : f \in Fd) /\ Addressed(ctx, files)
  BY GParts
<1>2. ctx' = [conns |-> <<>>, tx |-> <<>>, switchdb |-> <<>>] /\ files' = [f \in Fd |-> ClosedFile]
      /\ at' = [pc |-> "ended", i |-> 0, fd |-> NoFd] /\ UNCHANGED <<nfiles, nmsgs>>
  BY DEF End
<1>3. HeldBy(ctx') = {}
  BY <1>2, EmptyContext
<1>4. Mail(ctx') = {} /\ Distinct(ctx'.tx)
  BY <1>2 DEF Mail, Entries, Distinct
<1>5. Ends(ctx') = Ends(ctx) \ Fd
  BY <1>1, <1>3 DEF Ends
<1>6. Mail(ctx') = {m \in Mail(ctx) : m.fd \notin Fd}
  BY <1>1, <1>4 DEF Addressed
<1>7. Forgets(ctx', ctx, Fd)
  BY <1>4, <1>5, <1>6 DEF Forgets
<1>8. Less(files', files)
  BY <1>2 DEF Less, ClosedFile
<1>9. SameFiles(files', files, Ends(ctx) \ Fd)
  BY <1>1 DEF SameFiles
<1>10. Aside(at') = {} /\ Carried(at', event') = {}
  BY <1>2 DEF Aside, Carried
<1> QED
  BY <1>2, <1>7, <1>8, <1>9, <1>10, ForgetStep

(* Only the program and what it asks of poll(2) change.                    *)
LEMMA IdleMaps ==
  ASSUME ZInv, ZInv', GInv, Ends(ctx') = Ends(ctx), ctx'.tx = ctx.tx,
         UNCHANGED <<sent, files, nfiles, nmsgs>>, Aside(at') = {}, Carried(at', event') = {}
  PROVE  GInv' /\ Maps
<1>1. Names(files', nfiles')
  BY GParts
<1>2. Letters(files', Spent(ctx, sent), Carried(at', event'), nmsgs')
  BY LettersFewer
<1>3. SameFiles(files', files, Ends(ctx))
  BY DEF SameFiles
<1> QED
  BY <1>1, <1>2, <1>3, StillStep

LEMMA PollsMaps ==
  ASSUME ZInv, ZInv', GInv, Polls
  PROVE  GInv' /\ Maps
<1>1. Shape(ctx)
  BY GParts
<1>2. PICK d : d = [ctx EXCEPT !.conns = Marked]
  OBVIOUS
<1>3. /\ Shape(d) /\ d.tx = ctx.tx /\ d.conns = Marked /\ Len(d.conns) = Len(ctx.conns)
      /\ HeldBy(d) = HeldBy(ctx) /\ (\A t : Of(d, t) = Of(ctx, t))
  BY <1>1, <1>2, MarkedFacts
<1>4. Ends(d) = Ends(ctx)
  BY <1>3 DEF Ends, Listening
<1>5. PICK i \in 1 .. Len(ctx.conns) : Branch(d.conns[i]) # "none" /\ at'.pc = Branch(d.conns[i])
  BY <1>3 DEF Polls
<1>6. PICK k : k = d.conns[i]
  OBVIOUS
<1>7. k.t \in ConnType
  BY <1>3, <1>5, <1>6, ShapeFields
<1>8. Branch(k) \in {k.t, "OUT"}
  BY <1>5, <1>6 DEF Branch
<1>9. at'.pc \in {"SERVER", "IPC", "EXTERNAL", "SWITCHED", "OUT"}
  BY <1>5, <1>6, <1>7, <1>8 DEF ConnType
<1>10. Aside(at') = {} /\ Carried(at', event') = {}
  BY <1>9 DEF Aside, Carried
<1>11. ctx' = d /\ UNCHANGED <<sent, files, nfiles, nmsgs>>
  BY <1>2 DEF Polls
<1> QED
  BY <1>3, <1>4, <1>10, <1>11, IdleMaps

LEMMA ExternalMaps ==
  ASSUME ZInv, ZInv', GInv, External
  PROVE  GInv' /\ Maps
<1>1. Aside(at') = {} /\ Carried(at', event') = {}
  BY DEF External, Return, Aside, Carried
<1>2. UNCHANGED <<ctx, sent, files, nfiles, nmsgs>>
  BY DEF External
<1> QED
  BY <1>1, <1>2, IdleMaps

LEMMA PrintedMaps ==
  ASSUME ZInv, ZInv', GInv, Printed
  PROVE  GInv' /\ Maps
<1>1. Aside(at') = {} /\ Carried(at', event') = {}
  BY DEF Printed, Wait, Aside, Carried
<1>2. UNCHANGED <<ctx, sent, files, nfiles, nmsgs>>
  BY DEF Printed
<1> QED
  BY <1>1, <1>2, IdleMaps

(* accept(2) on s: the connection that waited is now the file f.           *)
LEMMA AcceptNames ==
  ASSUME ZInv, GInv, NEW s \in Listening(ctx), files[s].rx # <<>>, NEW f \in NewFd,
         NEW u, u = AcceptFile(files, s, f)
  PROVE  /\ Names(u, nfiles) /\ u[f].sort = "sock" /\ SameFiles(u, files, Ends(ctx))
         /\ Letters(u, Spent(ctx, sent), {}, nmsgs)
<1>1. /\ Owned(ctx, files, Aside(at)) /\ FilesOK(files) /\ Names(files, nfiles) /\ nfiles \in Nat
      /\ \A g \in Ends(ctx) : g \in Fd
  BY GParts DEF ZInv, ZOK
<1>2. s \in Fd /\ files[s].sort = "listen"
  BY <1>1 DEF Owned, Listening, Of
<1>3. f \in Fd \ HeldBy(ctx) /\ f \notin OpenIn(files)
  BY FreeFacts
<1>4. PICK t : t = files
  OBVIOUS
<1>5. PICK n \in Nat : n = nfiles
  BY <1>1
<1>6. PICK p \in Fd : p = s
  BY <1>2
<1>7. PICK g \in Fd : g = f
  BY <1>3
<1>8. PICK v : v = AcceptFile(t, p, g)
  OBVIOUS
<1>9. /\ FilesOK(t) /\ Names(t, n) /\ t[p].sort = "listen" /\ g \notin OpenIn(t)
      /\ t[p].rx # <<>>
  BY <1>1, <1>2, <1>3, <1>4, <1>5, <1>6, <1>7
<1>10. /\ Names(v, n) /\ (\A h \in Fd : Inbox(v, h) \subseteq Inbox(t, h))
       /\ v[g].sort = "sock" /\ SameFiles(v, t, Fd \ {g})
  BY <1>8, <1>9, NamesAccept
<1>11. u = v
  BY <1>4, <1>6, <1>7, <1>8
<1>12. /\ Names(u, nfiles) /\ (\A h \in Fd : Inbox(u, h) \subseteq Inbox(files, h))
       /\ u[f].sort = "sock" /\ SameFiles(u, files, Fd \ {f})
  BY <1>4, <1>5, <1>7, <1>10, <1>11
<1>13. Letters(u, Spent(ctx, sent), {}, nmsgs)
  BY <1>12, LettersFewer
<1>14. SameFiles(u, files, Ends(ctx))
  BY <1>1, <1>3, <1>12 DEF SameFiles, Ends
<1> QED
  BY <1>12, <1>13, <1>14

LEMMA AcceptMaps ==
  ASSUME ZInv, ZInv', GInv, accept_new_client
  PROVE  GInv' /\ Maps
<1>1. CASE End
  BY <1>1, EndMaps DEF accept_new_client
<1>2. ASSUME NEW f \in NewFd, ctx' = add_(ctx, f, "IPC"), files' = AcceptFile(files, at.fd, f),
             Return("CONNECTION", Len(ctx.conns) + 1, at.fd, Nothing), UNCHANGED <<nfiles, nmsgs>>
      PROVE  GInv' /\ Maps
  <2>1. CtxOK(ctx) /\ Shape(ctx)
    BY GParts
  <2>2. Reported(ctx, files, at) /\ at.pc = "SERVER"
    BY DEF ZInv, ZOK, accept_new_client
  <2>3. Entry(ctx, at.i, at.fd, "SERVER") /\ files[at.fd].rx # <<>>
    BY <2>2 DEF Reported, ConnType
  <2>4. PICK s \in Listening(ctx) : s = at.fd /\ files[s].rx # <<>>
    BY <2>1, <2>3, EntryFacts DEF Listening
  <2>5. f \in Fd \ HeldBy(ctx)
    BY <1>2, FreeFacts
  <2>6. PICK u : u = AcceptFile(files, s, f)
    OBVIOUS
  <2>7. /\ Names(u, nfiles) /\ u[f].sort = "sock" /\ SameFiles(u, files, Ends(ctx))
        /\ Letters(u, Spent(ctx, sent), {}, nmsgs)
    BY <1>2, <2>4, <2>6, AcceptNames
  <2>8. PICK d : d = add_(ctx, f, "IPC")
    OBVIOUS
  <2>9. Ends(d) = Ends(ctx) \cup {f} /\ d.tx = ctx.tx /\ f \notin Ends(ctx)
    BY <2>1, <2>5, <2>8, AddEnds
  <2>10. Aside(at') = {} /\ Carried(at', event') = {}
    BY <1>2 DEF Return, Aside, Carried
  <2>11. PICK K \in SUBSET Fd : K = {f}
    BY <2>5
  <2>12. ctx' = d /\ sent' = sent /\ files' = u
    BY <1>2, <2>4, <2>6, <2>8 DEF accept_new_client
  <2>13. /\ K # {} /\ K \cap Ends(ctx) = {} /\ Ends(ctx') = Ends(ctx) \cup K /\ ctx'.tx = ctx.tx
         /\ \A g \in K : files'[g].sort = "sock"
    BY <2>7, <2>9, <2>11, <2>12
  <2>14. /\ Names(files', nfiles') /\ SameFiles(files', files, Ends(ctx))
         /\ Letters(files', Spent(ctx, sent), Carried(at', event'), nmsgs')
    BY <1>2, <2>7, <2>10, <2>12
  <2> QED
    BY <2>10, <2>12, <2>13, <2>14, OpenStep
<1> QED
  BY <1>1, <1>2 DEF accept_new_client

(* One connection f is closed.                                             *)
LEMMA ShutStep ==
  ASSUME ZInv, ZInv', GInv, NEW f \in Fd, Forgets(ctx', ctx, {f}), files' = CloseFile(files, f),
         UNCHANGED <<sent, nfiles, nmsgs>>, Aside(at') = {}, Carried(at', event') = {}
  PROVE  GInv' /\ Maps
<1>1. FilesOK(files) /\ \A g \in Ends(ctx) : g \in Fd
  BY GParts
<1>2. PICK u : u = CloseFile(files, f)
  OBVIOUS
<1>3. Less(u, files) /\ \A g \in Fd \ {f} : u[g] = files[g]
  BY <1>1, <1>2, ShutTableOne
<1>4. PICK F \in SUBSET Fd : F = {f}
  OBVIOUS
<1>5. Less(files', files) /\ SameFiles(files', files, Ends(ctx) \ F) /\ Forgets(ctx', ctx, F)
  BY <1>1, <1>2, <1>3, <1>4 DEF SameFiles
<1> QED
  BY <1>5, ForgetStep

(* Two files are closed, of which at least those that are ends.            *)
LEMMA ShutBothStep ==
  ASSUME ZInv, ZInv', GInv, NEW f \in Fd, NEW g \in Fd, Forgets(ctx', ctx, {f, g}),
         files' = CloseFiles(files, {f, g}),
         UNCHANGED <<sent, nfiles, nmsgs>>, Aside(at') = {}, Carried(at', event') = {}
  PROVE  GInv' /\ Maps
<1>1. FilesOK(files) /\ \A h \in Ends(ctx) : h \in Fd
  BY GParts
<1>2. PICK F \in SUBSET Fd : F = {f, g}
  OBVIOUS
<1>3. PICK u : u = CloseFiles(files, F)
  OBVIOUS
<1>4. Less(u, files) /\ \A h \in Fd \ F : u[h] = files[h]
  BY <1>1, <1>3, ShutTable
<1>5. Less(files', files) /\ SameFiles(files', files, Ends(ctx) \ F) /\ Forgets(ctx', ctx, F)
  BY <1>1, <1>2, <1>3, <1>4 DEF SameFiles
<1> QED
  BY <1>5, ForgetStep

LEMMA ReadMaps ==
  ASSUME ZInv, ZInv', GInv, read
  PROVE  GInv' /\ Maps
<1>1. /\ CtxOK(ctx) /\ FilesOK(files) /\ Shape(ctx) /\ Names(files, nfiles)
      /\ (\A f \in Ends(ctx) : f \in Fd /\ files[f].sort = "sock")
      /\ Letters(files, Spent(ctx, sent), Carried(at, event), nmsgs)
  BY GParts
<1>2. Reported(ctx, files, at) /\ at.pc = "IPC"
  BY DEF ZInv, ZOK, read
<1>3. Entry(ctx, at.i, at.fd, "IPC")
  BY <1>2 DEF Reported, ConnType
<1>4. PICK f \in Fd : f = at.fd /\ f \in Ends(ctx)
  BY <1>1, <1>3, EntryFacts, EndsOf
<1>5. UNCHANGED <<sent, nfiles, nmsgs>>
  BY DEF read
<1>6. ASSUME files[f].rx # <<>>, files' = Drain(files, f), ctx' = ctx,
             Return("MESSAGE_RX", at.i, at.fd, files[f].rx[1])
      PROVE  GInv' /\ Maps
  <2>1. PICK u : u = Drain(files, f)
    OBVIOUS
  <2>2. Less(u, files) /\ SameFiles(u, files, Fd) /\ Inbox(u, f) = {}
    BY <1>1, <2>1, DrainTable
  <2>3. Names(u, nfiles) /\ \A g \in Fd : Inbox(u, g) \subseteq Inbox(files, g)
    BY <1>1, <2>2, NamesLess
  <2>4. PICK q \in Seq(Body) : q = files[f].rx /\ q # <<>>
    BY <1>1, <1>6, FileFields
  <2>5. 1 \in 1 .. Len(q)
    BY <2>4
  <2>6. q[1].id \in Line(files, f)
    BY <2>4, <2>5 DEF Line
  <2>7. PICK x \in Inbox(files, f) : x = q[1].id
    BY <1>1, <1>4, <2>6 DEF Inbox
  <2>8. Carried(at, event) = {} /\ Aside(at') = {} /\ Carried(at', event') = {x}
    BY <1>2, <1>6, <2>4, <2>7 DEF Return, Aside, Carried
  <2>9. x \notin Spent(ctx, sent)
    BY <1>1 DEF Letters
  <2>10. /\ Spent(ctx, sent) \cup {x} \subseteq Spent(ctx, sent) \cup Carried(at, event) \cup {x}
         /\ Spent(ctx, sent) \cap {x} = {}
    BY <2>9
  <2>11. Letters(u, Spent(ctx, sent), {x}, nmsgs)
    BY <1>1, <2>2, <2>3, <2>10, LettersRead
  <2>12. SameFiles(files', files, Ends(ctx))
    BY <1>1, <1>6, <2>1, <2>2 DEF SameFiles
  <2>13. Names(files', nfiles') /\ Letters(files', Spent(ctx, sent), Carried(at', event'), nmsgs')
    BY <1>5, <1>6, <2>1, <2>3, <2>8, <2>11
  <2> QED
    BY <1>5, <1>6, <2>8, <2>12, <2>13, StillStep
<1>7. ASSUME ctx' = close(ctx, at.i), files' = CloseFile(files, f),
             Return("DISCONNECTION", at.i, Stale(at.i), Nothing)
      PROVE  GInv' /\ Maps
  <2>1. PICK i \in 1 .. Len(ctx.conns) : i = at.i /\ f = ctx.conns[i].fd
    BY <1>3, <1>4 DEF Entry
  <2>2. PICK d : d = close(ctx, i)
    OBVIOUS
  <2>3. Forgets(d, ctx, {f})
    BY <1>1, <2>1, <2>2, CloseForgets
  <2>4. Aside(at') = {} /\ Carried(at', event') = {}
    BY <1>7 DEF Return, Aside, Carried
  <2>5. ctx' = d
    BY <1>7, <2>1, <2>2
  <2> QED
    BY <1>5, <1>7, <2>3, <2>4, <2>5, ShutStep
<1> QED
  BY <1>4, <1>6, <1>7 DEF read

LEMMA WrongLengthMaps ==
  ASSUME ZInv, ZInv', GInv, WrongLength
  PROVE  GInv' /\ Maps
BY EndMaps DEF WrongLength

LEMMA HandleReadMaps ==
  ASSUME ZInv, ZInv', GInv, handle_event_read
  PROVE  GInv' /\ Maps
<1>1. /\ CtxOK(ctx) /\ FilesOK(files) /\ Shape(ctx) /\ Names(files, nfiles)
      /\ (\A f \in Ends(ctx) : f \in Fd /\ files[f].sort = "sock")
      /\ Letters(files, Spent(ctx, sent), Carried(at, event), nmsgs)
  BY GParts
<1>2. Reported(ctx, files, at) /\ at.pc = "SWITCHED" /\ Paired(ctx)
  BY DEF ZInv, ZOK, CtxOK, handle_event_read
<1>3. Entry(ctx, at.i, at.fd, "SWITCHED")
  BY <1>2 DEF Reported, ConnType
<1>4. PICK f \in Fd : f = at.fd /\ f \in Of(ctx, "SWITCHED") /\ f \in Ends(ctx)
  BY <1>1, <1>3, EntryFacts, EndsOf
<1>5. f \in DOMAIN ctx.switchdb
  BY <1>2, <1>4 DEF Paired
<1>6. getDest(ctx, f) \in Of(ctx, "SWITCHED")
  BY <1>2, <1>5 DEF Paired, getDest
<1>7. PICK to \in Fd : to = getDest(ctx, f) /\ to \in Ends(ctx)
  BY <1>1, <1>6, EndsOf
<1>8. UNCHANGED <<sent, nfiles, nmsgs>>
  BY DEF handle_event_read
<1>9. PICK q \in Seq(Body) : q = files[f].rx
  BY <1>1, FileFields
<1>10. ASSUME default_in(files[f]) = "NO_ERROR",
              ctx' = schedule(ctx, [fd |-> to, file |-> files[to].id, id |-> q[1].id, kind |-> q[1].kind]),
              files' = Drain(files, f), Return("SWITCH_RX", at.i, at.fd, q[1])
       PROVE  GInv' /\ Maps
  <2>1. q # <<>>
    BY <1>9, <1>10 DEF default_in
  <2>2. q[1] \in Body /\ 1 \in 1 .. Len(q)
    BY <2>1
  <2>3. files[to].id \in Nat
    BY <1>1, FileFields
  <2>4. PICK m \in Msg : m = [fd |-> to, file |-> files[to].id, id |-> q[1].id, kind |-> q[1].kind]
    BY <2>2, <2>3 DEF Msg, Body
  <2>5. m.fd = to /\ m.file = files[to].id /\ m.id = q[1].id
    BY <2>4
  <2>6. m.id \in Line(files, f)
    BY <1>9, <2>2, <2>5 DEF Line
  <2>7. PICK x \in Inbox(files, f) : x = m.id
    BY <1>1, <1>4, <2>6 DEF Inbox
  <2>8. PICK u : u = Drain(files, f)
    OBVIOUS
  <2>9. Less(u, files) /\ SameFiles(u, files, Fd) /\ Inbox(u, f) = {}
    BY <1>1, <2>8, DrainTable
  <2>10. \A g \in Fd : Inbox(u, g) \subseteq Inbox(files, g)
    BY <1>1, <2>9, NamesLess
  <2>11. x \notin Spent(ctx, sent)
    BY <1>1 DEF Letters
  <2>12. PICK s2 : s2 = Spent(ctx, sent) \cup {x}
    OBVIOUS
  <2>13. s2 \cup {} \subseteq Spent(ctx, sent) \cup Carried(at, event) \cup {x} /\ s2 \cap {} = {}
    BY <2>12
  <2>14. Letters(u, s2, {}, nmsgs)
    BY <1>1, <2>9, <2>10, <2>13, LettersRead
  <2>15. Aside(at') = {} /\ Carried(at', event') = {}
    BY <1>10 DEF Return, Aside, Carried
  <2>16. ctx' = schedule(ctx, m) /\ files' = u
    BY <1>10, <2>4, <2>8
  <2>17. /\ Less(files', files) /\ SameFiles(files', files, Fd)
         /\ Letters(files', Spent(ctx, sent) \cup {m.id}, {}, nmsgs)
    BY <2>7, <2>9, <2>12, <2>14, <2>16
  <2>18. m.fd \in Ends(ctx) /\ m.file = files[m.fd].id /\ m.id \notin Spent(ctx, sent)
    BY <1>7, <2>5, <2>7, <2>11
  <2> QED
    BY <1>8, <2>15, <2>16, <2>17, <2>18, ScheduleStep
<1>11. ASSUME NEW type \in {"ERROR", "DISCONNECTION"},
              ctx' = DropPair(ctx, f), files' = CloseFiles(files, {f, to}),
              Return(type, at.i, at.fd, Nothing)
       PROVE  GInv' /\ Maps
  <2>1. PICK d : d = DropPair(ctx, f)
    OBVIOUS
  <2>2. Forgets(d, ctx, {f, to})
    BY <1>1, <1>2, <1>5, <1>7, <2>1, DropPairForgets
  <2>3. Aside(at') = {} /\ Carried(at', event') = {}
    BY <1>11 DEF Return, Aside, Carried
  <2>4. ctx' = d
    BY <1>11, <2>1
  <2> QED
    BY <1>8, <1>11, <2>2, <2>3, <2>4, ShutBothStep
<1> QED
  BY <1>4, <1>7, <1>9, <1>10, <1>11 DEF handle_event_read

LEMMA WriteStepMaps ==
  ASSUME ZInv, ZInv', GInv, Write
  PROVE  GInv' /\ Maps
<1>1. /\ CtxOK(ctx) /\ FilesOK(files) /\ Shape(ctx) /\ Names(files, nfiles)
      /\ (\A f \in Ends(ctx) : f \in Fd /\ files[f].sort = "sock")
      /\ Letters(files, Spent(ctx, sent), Carried(at, event), nmsgs)
      /\ Addressed(ctx, files) /\ Distinct(ctx.tx)
  BY GParts
<1>2. Reported(ctx, files, at) /\ at.pc = "OUT" /\ Paired(ctx) /\ HasMessage(ctx.tx, at.fd)
  BY DEF ZInv, ZOK, CtxOK, Write
<1>3. PICK i \in 1 .. Len(ctx.conns) : i = at.i /\ ctx.conns[i].fd = at.fd
  BY <1>2 DEF Reported
<1>4. PICK s \in Seq(Msg) : s = ctx.tx
  BY <1>1 DEF Shape
<1>5. PICK k \in 1 .. Len(ctx.tx) : k = FirstFor(ctx.tx, at.fd) /\ ctx.tx[k].fd = at.fd
  BY <1>2, <1>4, FirstForFacts
<1>6. PICK c : c = [ClearOut(ctx, at.i) EXCEPT !.tx = ipc_messages_del(@, FirstFor(ctx.tx, at.fd))]
  OBVIOUS
<1>7. c = Taken(ctx, i, k)
  BY <1>3, <1>5, <1>6 DEF Taken
<1>8. PICK m : m = ctx.tx[k]
  OBVIOUS
<1>9. Ends(c) = Ends(ctx) /\ Distinct(c.tx) /\ Mail(c) = Mail(ctx) \ {m}
  BY <1>1, <1>3, <1>5, <1>7, <1>8, TakeMail
<1>10. m \in Mail(ctx) /\ m.fd = at.fd
  BY <1>5, <1>8 DEF Mail, Entries
<1>11. at.fd \in Ends(ctx) /\ at.fd \in Fd /\ m.file = files[at.fd].id
  BY <1>1, <1>10 DEF Addressed
<1>12. CASE End /\ sent' = sent
  BY <1>12, EndMaps
<1>13. ASSUME NEW type \in {"SWITCH_TX", "MESSAGE_TX"}, ctx' = c,
              sent' = sent \cup {[id |-> m.id, for |-> m.file, file |-> files[at.fd].id]},
              Return(type, at.i, at.fd, Nothing), UNCHANGED <<files, nfiles, nmsgs>>
       PROVE  GInv' /\ Maps
  <2>1. PICK d : d = [id |-> m.id, for |-> m.file, file |-> files[at.fd].id]
    OBVIOUS
  <2>2. d.id = m.id /\ d.file = m.file /\ sent' = sent \cup {d}
    BY <1>11, <1>13, <2>1
  <2>3. Aside(at') = {} /\ Carried(at', event') = {}
    BY <1>13 DEF Return, Aside, Carried
  <2>4. Ends(ctx') = Ends(ctx) /\ Distinct(ctx'.tx) /\ Mail(ctx') = Mail(ctx) \ {m}
    BY <1>9, <1>13
  <2>5. Spent(ctx', sent') \subseteq Spent(ctx, sent)
    BY <1>10, <2>2, <2>4 DEF Spent
  <2>6. PICK s2 : s2 = Spent(ctx', sent')
    OBVIOUS
  <2>7. s2 \cup {} \subseteq Spent(ctx, sent) \cup Carried(at, event) /\ s2 \cap {} = {}
    BY <2>5, <2>6
  <2>8. \A f \in Fd : Inbox(files, f) \subseteq Inbox(files, f)
    OBVIOUS
  <2>9. Letters(files, s2, {}, nmsgs)
    BY <1>1, <2>7, <2>8, LettersLess
  <2>10. Talks(ctx', files', {})
    BY <1>1, <1>13, <2>4 DEF Talks
  <2>11. Addressed(ctx', files')
    BY <1>1, <1>13, <2>4 DEF Addressed
  <2>12. GInv'
    BY <1>1, <1>13, <2>3, <2>4, <2>6, <2>9, <2>10, <2>11 DEF GInv, GOK
  <2>13. GInvs
    BY <2>12 DEF GInvs
  <2>14. \A e \in Mail(ctx) : e.id = m.id => e = m
    BY <1>1, <1>5, <1>8 DEF Mail, Entries, Distinct
  <2>15. Maps
    BY <1>10, <1>13, <2>2, <2>4, <2>13, <2>14, WriteMaps
  <2> QED
    BY <2>12, <2>15
<1>14. ASSUME ctx.conns[at.i].t = "SWITCHED", ctx' = DropPair(c, at.fd),
              files' = CloseFiles(files, {at.fd, getDest(ctx, at.fd)}),
              Return("ERROR", at.i, at.fd, Nothing), UNCHANGED <<nfiles, nmsgs, sent>>
       PROVE  GInv' /\ Maps
  <2>1. Entry(ctx, at.i, at.fd, "SWITCHED")
    BY <1>3, <1>14 DEF Entry
  <2>2. CtxOK(c) /\ c.switchdb = ctx.switchdb
    BY <1>2, <1>6, WriteCtx
  <2>3. Shape(c) /\ Paired(c)
    BY <2>2 DEF CtxOK
  <2>4. PICK f \in DOMAIN c.switchdb : f = at.fd /\ f \in Fd
    BY <1>1, <1>2, <2>1, <2>2, EntryFacts DEF Paired
  <2>5. PICK g : g = getDest(c, f)
    OBVIOUS
  <2>6. g = getDest(ctx, at.fd)
    BY <2>2, <2>4, <2>5 DEF getDest
  <2>7. g \in Of(c, "SWITCHED")
    BY <2>3, <2>4, <2>5 DEF Paired, getDest
  <2>8. g \in Fd
    BY <2>7 DEF Of
  <2>9. PICK d : d = DropPair(c, f)
    OBVIOUS
  <2>10. Forgets(d, c, {f, g})
    BY <2>3, <2>4, <2>5, <2>9, DropPairForgets
  <2>11. /\ Ends(d) = Ends(ctx) \ {f, g} /\ Distinct(d.tx)
         /\ Mail(d) = {e \in Mail(ctx) : e.fd \notin {f, g}}
    BY <1>9, <1>10, <2>4, <2>10 DEF Forgets
  <2>12. Forgets(d, ctx, {f, g})
    BY <2>11 DEF Forgets
  <2>13. Aside(at') = {} /\ Carried(at', event') = {}
    BY <1>14 DEF Return, Aside, Carried
  <2>14. ctx' = d /\ files' = CloseFiles(files, {f, g})
    BY <1>14, <2>4, <2>6, <2>9
  <2> QED
    BY <1>14, <2>4, <2>8, <2>12, <2>13, <2>14, ShutBothStep
<1> QED
  BY <1>6, <1>8, <1>5, <1>12, <1>13, <1>14 DEF Write

LEMMA EchoMaps ==
  ASSUME ZInv, ZInv', GInv, Echo
  PROVE  GInv' /\ Maps
<1>1. /\ FilesOK(files) /\ Shape(ctx) /\ Names(files, nfiles)
      /\ (\A f \in Ends(ctx) : f \in Fd /\ files[f].sort = "sock")
      /\ Letters(files, Spent(ctx, sent), Carried(at, event), nmsgs)
  BY GParts
<1>2. HandlerOK(ctx, files, at, event) /\ at.pc = "event" /\ event.t = "MESSAGE_RX"
  BY DEF ZInv, ZOK, Echo, Handles
<1>3. Entry(ctx, event.index, event.origin, "IPC") /\ event.m \in Body
  BY <1>2 DEF HandlerOK
<1>4. event.origin \in Ends(ctx) /\ event.origin \in Fd
  BY <1>1, <1>3, EntryFacts, EndsOf
<1>5. PICK m \in Msg : m = [fd |-> event.origin, file |-> files[event.origin].id,
                            id |-> event.m.id, kind |-> event.m.kind]
  BY <1>1, <1>3, <1>4, FileFields DEF Msg, Body
<1>6. m.fd \in Ends(ctx) /\ m.file = files[m.fd].id /\ m.id = event.m.id
  BY <1>4, <1>5
<1>7. Carried(at, event) = {m.id}
  BY <1>2, <1>6 DEF Carried
<1>8. m.id \notin Spent(ctx, sent)
  BY <1>1, <1>7 DEF Letters
<1>9. Spent(ctx, sent) \cup {m.id} \cup {} \subseteq Spent(ctx, sent) \cup Carried(at, event)
      /\ (Spent(ctx, sent) \cup {m.id}) \cap {} = {}
  BY <1>7
<1>10. PICK s2 : s2 = Spent(ctx, sent) \cup {m.id}
  OBVIOUS
<1>11. s2 \cup {} \subseteq Spent(ctx, sent) \cup Carried(at, event) /\ s2 \cap {} = {}
  BY <1>9, <1>10
<1>12. \A f \in Fd : Inbox(files, f) \subseteq Inbox(files, f)
  OBVIOUS
<1>13. Letters(files, s2, {}, nmsgs)
  BY <1>1, <1>11, <1>12, LettersLess
<1>14. ctx' = schedule(ctx, m) /\ UNCHANGED <<files, sent, nfiles, nmsgs>>
  BY <1>5 DEF Echo
<1>15. Aside(at') = {} /\ Carried(at', event') = {}
  BY DEF Echo, Wait, Aside, Carried
<1>16. Less(files', files) /\ SameFiles(files', files, Fd)
  BY <1>14 DEF Less, SameFiles
<1>17. Letters(files', Spent(ctx, sent) \cup {m.id}, {}, nmsgs)
  BY <1>10, <1>13, <1>14
<1> QED
  BY <1>6, <1>8, <1>14, <1>15, <1>16, <1>17, ScheduleStep

LEMMA TcpAcceptMaps ==
  ASSUME ZInv, ZInv', GInv, TcpAccept
  PROVE  GInv' /\ Maps
<1>1. CASE End
  BY <1>1, EndMaps DEF TcpAccept
<1>2. ASSUME NEW f \in NewFd, files' = AcceptFile(files, event.origin, f), Block("name", at.i, f),
             UNCHANGED <<ctx, event, nfiles, nmsgs>>
      PROVE  GInv' /\ Maps
  <2>1. HandlerOK(ctx, files, at, event) /\ at.pc = "event" /\ event.t = "EXTERNAL" /\ sent' = sent
    BY DEF ZInv, ZOK, TcpAccept, Handles
  <2>2. PICK s \in Listening(ctx) : s = event.origin /\ files[s].rx # <<>>
    BY <2>1 DEF HandlerOK, Listening
  <2>3. PICK u : u = AcceptFile(files, s, f)
    OBVIOUS
  <2>4. /\ Names(u, nfiles) /\ u[f].sort = "sock" /\ SameFiles(u, files, Ends(ctx))
        /\ Letters(u, Spent(ctx, sent), {}, nmsgs)
    BY <1>2, <2>2, <2>3, AcceptNames
  <2>5. files' = u
    BY <1>2, <2>2, <2>3
  <2>6. Aside(at') = {f} /\ Carried(at', event') = {}
    BY <1>2 DEF Block, Aside, Carried
  <2>7. /\ Names(files', nfiles') /\ SameFiles(files', files, Ends(ctx))
        /\ Letters(files', Spent(ctx, sent), Carried(at', event'), nmsgs')
        /\ \A g \in Aside(at') : files'[g].sort = "sock"
    BY <1>2, <2>4, <2>5, <2>6
  <2> QED
    BY <1>2, <2>1, <2>7, StillStep
<1> QED
  BY <1>1, <1>2 DEF TcpAccept

(* A connection of the program: its file is a new one.                     *)
LEMMA OpenedNames ==
  ASSUME ZInv, GInv, NEW f \in NewFd, NEW u, u = Opened(f)
  PROVE  /\ Names(u, Fresh) /\ FilesOK(u) /\ u[f].sort = "sock" /\ SameFiles(u, files, Fd \ {f})
         /\ SameFiles(u, files, Ends(ctx))
         /\ \A g \in Fd : Inbox(u, g) \subseteq Inbox(files, g)
<1>1. /\ FilesOK(files) /\ Names(files, nfiles) /\ nfiles \in Nat
      /\ \A g \in Ends(ctx) : g \in Fd
  BY GParts
<1>2. f \in Fd \ HeldBy(ctx) /\ f \notin OpenIn(files)
  BY FreeFacts
<1>3. PICK n \in Nat : n = nfiles
  BY <1>1
<1>4. PICK g \in Fd : g = f
  BY <1>2
<1>5. PICK v : v = OpenFile(files, g, n + 1, "sock")
  OBVIOUS
<1>6. Names(files, n) /\ g \notin OpenIn(files)
  BY <1>1, <1>2, <1>3, <1>4
<1>7. Names(v, n + 1) /\ \A h \in Fd : Inbox(v, h) \subseteq Inbox(files, h)
  BY <1>1, <1>5, <1>6, NamesOpened
<1>8. PICK id : id = n + 1
  OBVIOUS
<1>9. v = OpenFile(files, g, id, "sock")
  BY <1>5, <1>8
<1>10. v[g].sort = "sock" /\ \A h \in Fd \ {g} : v[h] = files[h]
  BY <1>1, <1>9, OpenTable
<1>11. u = v
  BY <1>3, <1>4, <1>5 DEF Opened, Fresh
<1>12. FilesOK(u)
  BY OpenedFacts DEF Table
<1>13. SameFiles(u, files, Fd \ {f})
  BY <1>4, <1>10, <1>11 DEF SameFiles
<1>14. SameFiles(u, files, Ends(ctx))
  BY <1>1, <1>2, <1>13 DEF SameFiles, Ends
<1> QED
  BY <1>3, <1>4, <1>7, <1>10, <1>11, <1>12, <1>13, <1>14 DEF Fresh

LEMMA TcpRequestMaps ==
  ASSUME ZInv, ZInv', GInv, TcpRequest
  PROVE  GInv' /\ Maps
<1>1. CASE End
  BY <1>1, EndMaps DEF TcpRequest
<1>2. ASSUME NEW f \in NewFd, files' = Opened(f), Block("ok", event.index, f), nfiles' = Fresh,
             UNCHANGED <<ctx, event, nmsgs>>
      PROVE  GInv' /\ Maps
  <2>1. PICK u : u = Opened(f)
    OBVIOUS
  <2>2. /\ Names(u, Fresh) /\ u[f].sort = "sock" /\ SameFiles(u, files, Ends(ctx))
        /\ \A g \in Fd : Inbox(u, g) \subseteq Inbox(files, g)
    BY <1>2, <2>1, OpenedNames
  <2>3. Letters(u, Spent(ctx, sent), {}, nmsgs)
    BY <2>2, LettersFewer
  <2>4. Aside(at') = {f} /\ Carried(at', event') = {}
    BY <1>2 DEF Block, Aside, Carried
  <2>5. files' = u /\ sent' = sent
    BY <1>2, <2>1 DEF TcpRequest
  <2>6. /\ Names(files', nfiles') /\ SameFiles(files', files, Ends(ctx))
        /\ Letters(files', Spent(ctx, sent), Carried(at', event'), nmsgs')
        /\ \A g \in Aside(at') : files'[g].sort = "sock"
    BY <1>2, <2>2, <2>3, <2>4, <2>5
  <2> QED
    BY <1>2, <2>5, <2>6, StillStep
<1> QED
  BY <1>1, <1>2 DEF TcpRequest, CanOpen

LEMMA TcpNameMaps ==
  ASSUME ZInv, ZInv', GInv, TcpName
  PROVE  GInv' /\ Maps
<1>1. /\ CtxOK(ctx) /\ FilesOK(files) /\ Shape(ctx) /\ Names(files, nfiles)
      /\ (\A f \in Ends(ctx) : f \in Fd /\ files[f].sort = "sock")
  BY GParts
<1>2. HandlerOK(ctx, files, at, event) /\ at.pc = "name"
  BY DEF ZInv, ZOK, TcpName
<1>3. PICK c \in Fd \ HeldBy(ctx) : c = at.fd /\ Aside(at) = {c}
  BY <1>2 DEF HandlerOK, Aside
<1>4. files[c].sort = "sock" /\ c \notin Ends(ctx)
  BY <1>3 DEF GInv, GOK, Talks, Ends
<1>5. CASE End /\ sent' = sent
  BY <1>5, EndMaps
<1>6. CASE Refuse(c)
  <2>1. PICK u : u = CloseFile(files, c)
    OBVIOUS
  <2>2. Less(u, files) /\ \A g \in Fd \ {c} : u[g] = files[g]
    BY <1>1, <2>1, ShutTableOne
  <2>3. Names(u, nfiles) /\ \A g \in Fd : Inbox(u, g) \subseteq Inbox(files, g)
    BY <1>1, <2>2, NamesLess
  <2>4. Letters(u, Spent(ctx, sent), {}, nmsgs)
    BY <2>3, LettersFewer
  <2>5. Aside(at') = {} /\ Carried(at', event') = {}
    BY <1>6 DEF Refuse, Wait, Aside, Carried
  <2>6. files' = u /\ UNCHANGED <<ctx, sent, nfiles, nmsgs>>
    BY <1>6, <2>1 DEF Refuse
  <2>7. /\ Names(files', nfiles') /\ SameFiles(files', files, Ends(ctx))
        /\ Letters(files', Spent(ctx, sent), Carried(at', event'), nmsgs')
        /\ \A g \in Aside(at') : files'[g].sort = "sock"
    BY <1>1, <1>4, <2>2, <2>3, <2>4, <2>5, <2>6 DEF SameFiles
  <2> QED
    BY <2>6, <2>7, StillStep
<1>7. ASSUME NEW s \in NewFd, files' = Drain(Opened(s), c),
             ctx' = add_switch(add_(add_(ctx, s, "IPC"), c, "EXTERNAL"), c, s),
             nfiles' = Fresh, Wait, UNCHANGED <<event, nmsgs, sent>>
      PROVE  GInv' /\ Maps
  <2>1. s \in Fd \ HeldBy(ctx) /\ s # c
    BY <1>3, <1>7, FreeFacts
  <2>2. PICK type \in {"IPC", "EXTERNAL"} : type = "IPC"
    OBVIOUS
  <2>3. PICK kind \in {"IPC", "EXTERNAL"} : kind = "EXTERNAL"
    OBVIOUS
  <2>4. PICK b : b = add_(ctx, s, type)
    OBVIOUS
  <2>5. /\ CtxOK(b) /\ HeldBy(b) = HeldBy(ctx) \cup {s}
        /\ Of(b, "SWITCHED") = Of(ctx, "SWITCHED") /\ s \notin Of(ctx, "SWITCHED")
    BY <1>1, <2>1, <2>4, AddEnd
  <2>6. Ends(b) \ {s} = Ends(ctx) /\ b.tx = ctx.tx
    BY <1>1, <2>1, <2>4, AddedEnd
  <2>7. c \in Fd \ HeldBy(b)
    BY <2>1, <2>5
  <2>8. PICK e : e = add_(b, c, kind)
    OBVIOUS
  <2>9. /\ CtxOK(e) /\ HeldBy(e) = HeldBy(b) \cup {c}
        /\ Of(e, "SWITCHED") = Of(b, "SWITCHED") /\ c \notin Of(b, "SWITCHED")
    BY <2>5, <2>7, <2>8, AddEnd
  <2>10. Ends(e) \ {c} = Ends(b) /\ e.tx = b.tx
    BY <2>5, <2>7, <2>8, AddedEnd
  <2>11. PICK d : d = add_switch(e, c, s)
    OBVIOUS
  <2>12. c \in HeldBy(e) /\ s \in HeldBy(e) /\ c \notin Of(e, "SWITCHED") /\ s \notin Of(e, "SWITCHED")
    BY <2>5, <2>9
  <2>13. Ends(d) = Ends(e) \cup {c, s} /\ d.tx = e.tx
    BY <2>1, <2>9, <2>11, <2>12, LinkedEnds
  <2>14. PICK K \in SUBSET Fd : K = {c, s}
    BY <2>1
  <2>15. Ends(d) = Ends(ctx) \cup K /\ d.tx = ctx.tx /\ K \cap Ends(ctx) = {} /\ K # {}
    BY <1>4, <2>1, <2>6, <2>10, <2>13, <2>14 DEF Ends
  <2>16. PICK v : v = Opened(s)
    OBVIOUS
  <2>17. /\ Names(v, Fresh) /\ FilesOK(v) /\ v[s].sort = "sock" /\ SameFiles(v, files, Fd \ {s})
         /\ SameFiles(v, files, Ends(ctx))
         /\ \A g \in Fd : Inbox(v, g) \subseteq Inbox(files, g)
    BY <1>7, <2>16, OpenedNames
  <2>18. PICK u : u = Drain(v, c)
    OBVIOUS
  <2>19. Less(u, v) /\ SameFiles(u, v, Fd)
    BY <2>17, <2>18, DrainTable
  <2>20. PICK n : n = Fresh
    OBVIOUS
  <2>21. Names(v, n)
    BY <2>17, <2>20
  <2>22. Names(u, n) /\ \A g \in Fd : Inbox(u, g) \subseteq Inbox(v, g)
    BY <2>19, <2>21, NamesLess
  <2>23. \A g \in Fd : Inbox(u, g) \subseteq Inbox(files, g)
    BY <2>17, <2>22
  <2>24. Letters(u, Spent(ctx, sent), {}, nmsgs)
    BY <2>23, LettersFewer
  <2>25. Aside(at') = {} /\ Carried(at', event') = {}
    BY <1>7 DEF Wait, Aside, Carried
  <2>26. SameFiles(u, files, Ends(ctx))
    BY <1>1, <2>17, <2>19 DEF SameFiles
  <2>27. u[s].sort = "sock" /\ u[c].sort = "sock"
    BY <1>4, <2>1, <2>17, <2>19 DEF SameFiles
  <2>28. ctx' = d /\ files' = u
    BY <1>7, <2>2, <2>3, <2>4, <2>8, <2>11, <2>16, <2>18
  <2>29. /\ Names(files', nfiles') /\ SameFiles(files', files, Ends(ctx))
         /\ Letters(files', Spent(ctx, sent), Carried(at', event'), nmsgs')
         /\ \A g \in K : files'[g].sort = "sock"
    BY <1>7, <2>14, <2>20, <2>22, <2>24, <2>25, <2>26, <2>27, <2>28
  <2> QED
    BY <1>7, <2>15, <2>25, <2>28, <2>29, OpenStep
<1> QED
  BY <1>3, <1>5, <1>6, <1>7 DEF TcpName, CanOpen

LEMMA TcpAnswerMaps ==
  ASSUME ZInv, ZInv', GInv, TcpAnswer
  PROVE  GInv' /\ Maps
<1>1. /\ CtxOK(ctx) /\ FilesOK(files) /\ Shape(ctx) /\ Names(files, nfiles)
      /\ (\A f \in Ends(ctx) : f \in Fd /\ files[f].sort = "sock")
      /\ Addressed(ctx, files)
  BY GParts
<1>2. HandlerOK(ctx, files, at, event) /\ at.pc = "ok" /\ sent' = sent
  BY DEF ZInv, ZOK, TcpAnswer
<1>3. PICK s \in Fd \ HeldBy(ctx) : s = at.fd /\ Aside(at) = {s}
  BY <1>2 DEF HandlerOK, Aside
<1>4. files[s].sort = "sock" /\ s \notin Ends(ctx)
  BY <1>3 DEF GInv, GOK, Talks, Ends
<1>5. PICK c : c = event.origin
  OBVIOUS
<1>6. Entry(ctx, at.i, c, "IPC")
  BY <1>2, <1>5 DEF HandlerOK
<1>7. c \in Of(ctx, "IPC") /\ c \in HeldBy(ctx) /\ c \in Fd
  BY <1>1, <1>6, EntryFacts
<1>8. c \in Ends(ctx)
  BY <1>1, <1>7, EndsOf
<1>9. CASE End
  BY <1>2, <1>9, EndMaps
<1>10. ASSUME ctx' = add_switch(add_(ctx, s, "EXTERNAL"), c, s), files' = Drain(files, s), Wait,
              UNCHANGED <<event, nfiles, nmsgs>>
       PROVE  GInv' /\ Maps
  <2>1. PICK kind \in {"IPC", "EXTERNAL"} : kind = "EXTERNAL"
    OBVIOUS
  <2>2. PICK b : b = add_(ctx, s, kind)
    OBVIOUS
  <2>3. /\ CtxOK(b) /\ HeldBy(b) = HeldBy(ctx) \cup {s}
        /\ Of(b, "SWITCHED") = Of(ctx, "SWITCHED") /\ s \notin Of(ctx, "SWITCHED")
    BY <1>1, <2>2, AddEnd
  <2>4. Ends(b) \ {s} = Ends(ctx) /\ b.tx = ctx.tx
    BY <1>1, <2>2, AddedEnd
  <2>5. c \notin Of(ctx, "SWITCHED")
    BY <1>1, <1>7, OneType
  <2>6. PICK d : d = add_switch(b, c, s)
    OBVIOUS
  <2>7. c \in HeldBy(b) /\ s \in HeldBy(b) /\ c \notin Of(b, "SWITCHED") /\ s \notin Of(b, "SWITCHED")
        /\ c # s
    BY <1>7, <2>3, <2>5
  <2>8. Ends(d) = Ends(b) \cup {c, s} /\ d.tx = b.tx
    BY <2>3, <2>6, <2>7, LinkedEnds
  <2>9. PICK K \in SUBSET Fd : K = {s}
    OBVIOUS
  <2>10. Ends(d) = Ends(ctx) \cup K /\ d.tx = ctx.tx /\ K \cap Ends(ctx) = {} /\ K # {}
    BY <1>4, <1>8, <2>4, <2>8, <2>9
  <2>11. PICK u : u = Drain(files, s)
    OBVIOUS
  <2>12. Less(u, files) /\ SameFiles(u, files, Fd)
    BY <1>1, <2>11, DrainTable
  <2>13. Names(u, nfiles) /\ \A g \in Fd : Inbox(u, g) \subseteq Inbox(files, g)
    BY <1>1, <2>12, NamesLess
  <2>14. Letters(u, Spent(ctx, sent), {}, nmsgs)
    BY <2>13, LettersFewer
  <2>15. Aside(at') = {} /\ Carried(at', event') = {}
    BY <1>10 DEF Wait, Aside, Carried
  <2>16. SameFiles(u, files, Ends(ctx)) /\ u[s].sort = "sock"
    BY <1>1, <1>4, <2>12 DEF SameFiles
  <2>17. ctx' = d /\ files' = u
    BY <1>10, <2>1, <2>2, <2>6, <2>11
  <2>18. /\ Names(files', nfiles') /\ SameFiles(files', files, Ends(ctx))
         /\ Letters(files', Spent(ctx, sent), Carried(at', event'), nmsgs')
         /\ \A g \in K : files'[g].sort = "sock"
    BY <1>10, <2>9, <2>13, <2>14, <2>15, <2>16, <2>17
  <2> QED
    BY <1>2, <2>10, <2>15, <2>17, <2>18, OpenStep
<1>11. ASSUME ctx' = close(ctx, at.i), files' = CloseFiles(files, {s, c}), Wait,
              UNCHANGED <<event, nfiles, nmsgs>>
       PROVE  GInv' /\ Maps
  <2>1. PICK i \in 1 .. Len(ctx.conns) : i = at.i /\ c = ctx.conns[i].fd
    BY <1>6 DEF Entry
  <2>2. PICK d : d = close(ctx, i)
    OBVIOUS
  <2>3. Forgets(d, ctx, {c})
    BY <1>1, <2>1, <2>2, CloseForgets
  <2>4. \A m \in Mail(ctx) : m.fd # s
    BY <1>1, <1>4 DEF Addressed
  <2>5. Forgets(d, ctx, {s, c})
    BY <1>4, <2>3, <2>4 DEF Forgets
  <2>6. Aside(at') = {} /\ Carried(at', event') = {}
    BY <1>11 DEF Wait, Aside, Carried
  <2>7. ctx' = d
    BY <1>11, <2>1, <2>2
  <2> QED
    BY <1>2, <1>7, <1>11, <2>5, <2>6, <2>7, ShutBothStep
<1> QED
  BY <1>3, <1>5, <1>9, <1>10, <1>11 DEF TcpAnswer

LEMMA LookupMaps ==
  ASSUME ZInv, ZInv', GInv, Lookup
  PROVE  GInv' /\ Maps
<1>1. CtxOK(ctx) /\ Shape(ctx)
  BY GParts
<1>2. HandlerOK(ctx, files, at, event) /\ at.pc = "event" /\ event.t = "MESSAGE_RX" /\ sent' = sent
  BY DEF ZInv, ZOK, Lookup, Handles
<1>3. PICK c : c = event.origin
  OBVIOUS
<1>4. Entry(ctx, event.index, c, "IPC")
  BY <1>2, <1>3 DEF HandlerOK
<1>5. c \in HeldBy(ctx) /\ c \in Fd
  BY <1>1, <1>4, EntryFacts
<1>6. CASE End
  BY <1>2, <1>6, EndMaps
<1>7. ASSUME ctx' = close_fd(ctx, c), files' = CloseFile(files, c), Wait,
             UNCHANGED <<event, nfiles, nmsgs>>
      PROVE  GInv' /\ Maps
  <2>1. PICK d : d = close_fd(ctx, c)
    OBVIOUS
  <2>2. Forgets(d, ctx, {c})
    BY <1>1, <1>5, <2>1, CloseFdForgets
  <2>3. Aside(at') = {} /\ Carried(at', event') = {}
    BY <1>7 DEF Wait, Aside, Carried
  <2>4. ctx' = d
    BY <1>7, <2>1
  <2> QED
    BY <1>2, <1>5, <1>7, <2>2, <2>3, <2>4, ShutStep
<1>8. ASSUME NEW f \in NewFd, files' = Opened(f), ctx' = add_(ctx, f, "IPC"),
             Block("daemon", event.index, f), nfiles' = Fresh, UNCHANGED <<event, nmsgs>>
      PROVE  GInv' /\ Maps
  <2>1. f \in Fd \ HeldBy(ctx)
    BY <1>8, FreeFacts
  <2>2. PICK d : d = add_(ctx, f, "IPC")
    OBVIOUS
  <2>3. Ends(d) = Ends(ctx) \cup {f} /\ d.tx = ctx.tx /\ f \notin Ends(ctx)
    BY <1>1, <2>1, <2>2, AddEnds
  <2>4. PICK u : u = Opened(f)
    OBVIOUS
  <2>5. /\ Names(u, Fresh) /\ u[f].sort = "sock" /\ SameFiles(u, files, Ends(ctx))
        /\ \A g \in Fd : Inbox(u, g) \subseteq Inbox(files, g)
    BY <1>8, <2>4, OpenedNames
  <2>6. Letters(u, Spent(ctx, sent), {}, nmsgs)
    BY <2>5, LettersFewer
  <2>7. Aside(at') = {} /\ Carried(at', event') = {}
    BY <1>8 DEF Block, Aside, Carried
  <2>8. PICK K \in SUBSET Fd : K = {f}
    BY <2>1
  <2>9. ctx' = d /\ files' = u
    BY <1>8, <2>2, <2>4
  <2>10. /\ K # {} /\ K \cap Ends(ctx) = {} /\ Ends(ctx') = Ends(ctx) \cup K /\ ctx'.tx = ctx.tx
         /\ \A g \in K : files'[g].sort = "sock"
    BY <2>3, <2>5, <2>8, <2>9
  <2>11. /\ Names(files', nfiles') /\ SameFiles(files', files, Ends(ctx))
         /\ Letters(files', Spent(ctx, sent), Carried(at', event'), nmsgs')
    BY <1>8, <2>5, <2>6, <2>7, <2>9
  <2> QED
    BY <1>2, <2>7, <2>10, <2>11, OpenStep
<1> QED
  BY <1>3, <1>6, <1>7, <1>8 DEF Lookup, CanOpen

LEMMA LookupAnswerMaps ==
  ASSUME ZInv, ZInv', GInv, LookupAnswer
  PROVE  GInv' /\ Maps
<1>1. CtxOK(ctx) /\ Shape(ctx)
  BY GParts
<1>2. HandlerOK(ctx, files, at, event) /\ at.pc = "daemon" /\ sent' = sent
  BY DEF ZInv, ZOK, LookupAnswer
<1>3. PICK c : c = event.origin
  OBVIOUS
<1>4. PICK f : f = at.fd
  OBVIOUS
<1>5. Entry(ctx, event.index, c, "IPC") /\ f \in Of(ctx, "IPC") /\ f # c
  BY <1>2, <1>3, <1>4 DEF HandlerOK
<1>6. c \in HeldBy(ctx) /\ f \in HeldBy(ctx) /\ c \in Fd /\ f \in Fd
  BY <1>1, <1>5, EntryFacts, OfHeld DEF Of
<1>7. CASE End
  BY <1>2, <1>7, EndMaps
<1>8. ASSUME ctx' = close_fd(close_fd(ctx, f), c), files' = CloseFiles(files, {f, c}), Wait,
             UNCHANGED <<event, nfiles, nmsgs>>
      PROVE  GInv' /\ Maps
  <2>1. PICK b : b = close_fd(ctx, f)
    OBVIOUS
  <2>2. Forgets(b, ctx, {f})
    BY <1>1, <1>6, <2>1, CloseFdForgets
  <2>3. Shape(b) /\ HeldBy(b) = HeldBy(ctx) \ {f}
    BY <1>1, <1>5, <2>1, CloseFdOK DEF CtxOK
  <2>4. PICK d : d = close_fd(b, c)
    OBVIOUS
  <2>5. c \in HeldBy(b)
    BY <1>5, <1>6, <2>3
  <2>6. Forgets(d, b, {c})
    BY <2>3, <2>4, <2>5, CloseFdForgets
  <2>7. Forgets(d, ctx, {f, c})
    BY <2>2, <2>6, ForgetsTwice
  <2>8. Aside(at') = {} /\ Carried(at', event') = {}
    BY <1>8 DEF Wait, Aside, Carried
  <2>9. ctx' = d
    BY <1>8, <2>1, <2>4
  <2> QED
    BY <1>2, <1>6, <1>8, <2>7, <2>8, <2>9, ShutBothStep
<1> QED
  BY <1>3, <1>4, <1>7, <1>8 DEF LookupAnswer

(* The peers: what they do reaches the files only.                         *)
LEMMA PeersMaps ==
  ASSUME ZInv, ZInv', GInv, Peers
  PROVE  GInv' /\ Maps
<1>1. /\ FilesOK(files) /\ Names(files, nfiles) /\ nfiles \in Nat /\ nmsgs \in Nat
      /\ (\A f \in Ends(ctx) : f \in Fd /\ files[f].sort = "sock")
      /\ Letters(files, Spent(ctx, sent), Carried(at, event), nmsgs)
  BY GParts
<1>2. \A f \in Aside(at) : f \in Fd /\ files[f].sort = "sock"
  BY DEF ZInv, ZOK, Owned, OpenIn, GInv, GOK, Talks
<1>3. ASSUME NEW f \in Fd, PeerConnect(f) PROVE GInv' /\ Maps
  <2>1. [id |-> Fresh, kind |-> "text"] \in Body
    BY <1>1 DEF Body, Fresh
  <2>2. PICK m \in Body : m = [id |-> Fresh, kind |-> "text"]
    BY <2>1
  <2>3. PICK n \in Nat : n = nfiles
    BY <1>1
  <2>4. PICK t : t = files
    OBVIOUS
  <2>5. PICK u : u = Enqueued(t, f, m)
    OBVIOUS
  <2>6. FilesOK(t) /\ Names(t, n) /\ t[f].sort = "listen" /\ m.id = n + 1
    BY <1>1, <1>3, <2>2, <2>3, <2>4 DEF PeerConnect, Fresh
  <2>7. Names(u, n + 1) /\ SameFiles(u, t, Fd) /\ \A g \in Fd : Inbox(u, g) = Inbox(t, g)
    BY <2>5, <2>6, NamesConnect
  <2>8. files' = u /\ nfiles' = n + 1 /\ UNCHANGED <<ctx, at, event, nmsgs, sent>>
    BY <1>3, <2>2, <2>3, <2>4, <2>5 DEF PeerConnect, Enqueued, Fresh
  <2>9. Letters(u, Spent(ctx, sent), Carried(at, event), nmsgs)
    BY <1>1, <2>4, <2>7 DEF Letters
  <2>10. /\ Names(files', nfiles') /\ SameFiles(files', files, Ends(ctx))
         /\ Letters(files', Spent(ctx, sent), Carried(at', event'), nmsgs')
         /\ \A g \in Aside(at') : files'[g].sort = "sock"
    BY <1>1, <1>2, <2>4, <2>7, <2>8, <2>9 DEF SameFiles
  <2> QED
    BY <2>8, <2>10, StillStep
<1>4. ASSUME NEW f \in Fd, NEW kind \in Payload, PeerSend(f, kind) PROVE GInv' /\ Maps
  <2>1. [id |-> nmsgs + 1, kind |-> kind] \in Body
    BY <1>1, <1>4, PayloadAssumption DEF Body
  <2>2. PICK m \in Body : m = [id |-> nmsgs + 1, kind |-> kind]
    BY <2>1
  <2>3. PICK k \in Nat : k = nmsgs
    BY <1>1
  <2>4. PICK t : t = files
    OBVIOUS
  <2>5. PICK u : u = Enqueued(t, f, m)
    OBVIOUS
  <2>6. PICK n : n = nfiles
    OBVIOUS
  <2>7. PICK s : s = Spent(ctx, sent)
    OBVIOUS
  <2>8. PICK E : E = Carried(at, event)
    OBVIOUS
  <2>9. /\ FilesOK(t) /\ Names(t, n) /\ Letters(t, s, E, k) /\ t[f].sort = "sock" /\ m.id = k + 1
    BY <1>1, <1>4, <2>2, <2>3, <2>4, <2>6, <2>7, <2>8 DEF PeerSend
  <2>10. Names(u, n) /\ SameFiles(u, t, Fd) /\ Letters(u, s, E, k + 1)
    BY <2>5, <2>9, LettersArrive
  <2>11. files' = u /\ nmsgs' = k + 1 /\ UNCHANGED <<ctx, at, event, nfiles, sent>>
    BY <1>4, <2>2, <2>3, <2>4, <2>5 DEF PeerSend, Enqueued
  <2>12. Carried(at', event') = E
    BY <2>8, <2>11
  <2>13. /\ Names(files', nfiles') /\ SameFiles(files', files, Ends(ctx))
         /\ Letters(files', Spent(ctx, sent), Carried(at', event'), nmsgs')
         /\ \A g \in Aside(at') : files'[g].sort = "sock"
    BY <1>1, <1>2, <2>4, <2>6, <2>7, <2>10, <2>11, <2>12 DEF SameFiles
  <2> QED
    BY <2>11, <2>13, StillStep
<1>5. ASSUME NEW f \in Fd, NEW how \in {"gone", "reset"}, PeerLeave(f, how) PROVE GInv' /\ Maps
  <2> DEFINE new == [files[f] EXCEPT !.peer = how]
  <2>1. new.sort = files[f].sort /\ new.rx = files[f].rx /\ new.id = files[f].id /\ new.peer = how
    BY <1>1, FileFields DEF ZFile
  <2>2. PICK u : u = [files EXCEPT ![f].peer = how]
    OBVIOUS
  <2>3. u = [files EXCEPT ![f] = new]
    BY <1>1, <2>2 DEF FilesOK
  <2> HIDE DEF new
  <2>4. u[f] = new /\ \A g \in Fd \ {f} : u[g] = files[g]
    BY <1>1, <2>3 DEF FilesOK
  <2>5. \A g \in Fd : u[g].sort = files[g].sort /\ u[g].rx = files[g].rx /\ u[g].id = files[g].id
    BY <2>1, <2>4
  <2>6. Less(u, files)
    BY <2>5 DEF Less
  <2>7. Names(u, nfiles) /\ \A g \in Fd : Inbox(u, g) \subseteq Inbox(files, g)
    BY <1>1, <2>6, NamesLess
  <2>8. Letters(u, Spent(ctx, sent), Carried(at, event), nmsgs)
    BY <1>1, <2>7 DEF Letters
  <2>9. files' = u /\ UNCHANGED <<ctx, at, event, nfiles, nmsgs, sent>>
    BY <1>5, <2>2 DEF PeerLeave
  <2>10. /\ Names(files', nfiles') /\ Letters(files', Spent(ctx, sent), Carried(at', event'), nmsgs')
         /\ \A g \in Aside(at') : files'[g].sort = "sock"
    BY <1>2, <2>5, <2>7, <2>8, <2>9
  <2>11. CASE f \notin Ends(ctx)
    <3>1. SameFiles(files', files, Ends(ctx))
      BY <1>1, <2>4, <2>9, <2>11 DEF SameFiles
    <3> QED
      BY <2>9, <2>10, <3>1, StillStep
  <2>12. CASE f \in Ends(ctx)
    <3>1. Talks(ctx', files', Aside(at'))
      BY <1>1, <2>5, <2>9, <2>10 DEF Talks
    <3>2. Addressed(ctx', files') /\ Distinct(ctx'.tx)
      BY <1>1, <2>5, <2>9, GParts DEF Addressed
    <3>3. GInv'
      BY <2>9, <2>10, <3>1, <3>2 DEF GInv, GOK
    <3>4. GInvs
      BY <3>3 DEF GInvs
    <3>5. /\ \A g \in Fd : files'[g].id = files[g].id
          /\ \A g \in Fd \ {f} : files'[g].peer = files[g].peer
          /\ files'[f].peer # "up"
      BY <1>5, <2>1, <2>4, <2>5, <2>9
    <3> QED
      BY <2>9, <2>12, <3>3, <3>4, <3>5, PeerLeavesMaps
  <2> QED
    BY <2>11, <2>12
<1> QED
  BY <1>3, <1>4, <1>5 DEF Peers

LEMMA NextMaps == ZInv /\ ZInv' /\ GInv /\ [Next]_vars => GInv' /\ Maps
<1> SUFFICES ASSUME ZInv, ZInv', GInv, [Next]_vars PROVE GInv' /\ Maps
  OBVIOUS
<1>1. CASE wait_event
  BY <1>1, PollsMaps, AcceptMaps, ExternalMaps, ReadMaps, WrongLengthMaps, HandleReadMaps,
     WriteStepMaps DEF wait_event
<1>2. CASE Handlers
  BY <1>2, PrintedMaps, EndMaps, EchoMaps, TcpAcceptMaps, TcpNameMaps, TcpRequestMaps, TcpAnswerMaps,
     LookupMaps, LookupAnswerMaps DEF Handlers, Suicide
<1>3. CASE Quit
  BY <1>3, EndMaps DEF Quit
<1>4. CASE Peers
  BY <1>4, PeersMaps
<1>5. CASE UNCHANGED vars
  <2>1. UNCHANGED <<ctx, at, event, files, nfiles, nmsgs, sent>>
    BY <1>5 DEF vars
  <2>2. GInv'
    BY <2>1 DEF GInv
  <2>3. GInvs
    BY <2>2 DEF GInvs
  <2>4. SameFiles(files', files, Ends(ctx))
    BY <2>1 DEF SameFiles
  <2>5. Maps
    BY <2>1, <2>3, <2>4, StutterMaps
  <2> QED
    BY <2>2, <2>5
<1> QED
  BY <1>1, <1>2, <1>3, <1>4, <1>5 DEF Next, Loop

(* A socket that listens is opened, and its queue is empty.                *)
LEMMA ListenTable ==
  ASSUME NEW t, DOMAIN t = Fd, NEW f \in Fd, NEW id, NEW u, u = OpenFile(t, f, id, "listen")
  PROVE  /\ DOMAIN u = Fd /\ u[f].sort = "listen" /\ u[f].rx = <<>> /\ u[f].id = id
         /\ \A g \in Fd \ {f} : u[g] = t[g]
<1> DEFINE new == [id |-> id, sort |-> "listen", rx |-> <<>>, peer |-> "up"]
<1>1. new.sort = "listen" /\ new.rx = <<>> /\ new.id = id
  OBVIOUS
<1> HIDE DEF new
<1>2. u = [t EXCEPT ![f] = new]
  BY DEF OpenFile, new
<1>3. DOMAIN u = Fd /\ u[f] = new /\ \A g \in Fd \ {f} : u[g] = t[g]
  BY <1>2
<1> QED
  BY <1>1, <1>3

LEMMA InitMaps == Init => GInv /\ Promise!Init
<1> SUFFICES ASSUME Init PROVE GInv /\ Promise!Init
  OBVIOUS
<1>1. PICK s \in Fd : /\ s = CHOOSE f \in Fd : \A g \in Fd : f <= g
                      /\ \E p \in Fd \ {s} : p = CHOOSE f \in Fd \ {s} : \A g \in Fd \ {s} : f <= g
  BY Ports
<1>2. PICK p \in Fd \ {s} : p = CHOOSE f \in Fd \ {s} : \A g \in Fd \ {s} : f <= g
  BY <1>1
<1>3. PICK c0 : c0 = [conns |-> <<>>, tx |-> <<>>, switchdb |-> <<>>]
  OBVIOUS
<1>4. PICK t0 : t0 = [f \in Fd |-> ClosedFile]
  OBVIOUS
<1>5. PICK c : c = add_(c0, s, "SERVER")
  OBVIOUS
<1>6. PICK t : t = OpenFile(t0, s, 1, "listen")
  OBVIOUS
<1>7. PICK d : d = add_(c, p, "EXTERNAL")
  OBVIOUS
<1>8. PICK u : u = OpenFile(t, p, 2, "listen")
  OBVIOUS
<1>9. /\ (ctx = c /\ files = t) \/ (ctx = d /\ files = u)
      /\ nfiles = 2 /\ nmsgs = 0 /\ at.pc = "wait" /\ sent = {}
  BY <1>1, <1>2, <1>3, <1>4, <1>5, <1>6, <1>7, <1>8 DEF Init
<1>10. Shape(c0) /\ HeldBy(c0) = {} /\ c0.tx = <<>> /\ \A x : Of(c0, x) = {}
  BY <1>3, EmptyContext
<1>11. /\ Shape(c) /\ HeldBy(c) = {s} /\ c.tx = <<>>
       /\ Of(c, "SERVER") = {s} /\ Of(c, "EXTERNAL") = {}
  <2>1. PICK ty \in ConnType : ty = "SERVER"
    BY DEF ConnType
  <2>2. s \in Fd \ HeldBy(c0) /\ c = add_(c0, s, ty) /\ "EXTERNAL" \in ConnType \ {ty}
    BY <1>5, <1>10, <2>1 DEF ConnType
  <2>3. /\ Shape(c) /\ HeldBy(c) = HeldBy(c0) \cup {s} /\ c.tx = c0.tx
        /\ Of(c, ty) = Of(c0, ty) \cup {s} /\ \A x \in ConnType \ {ty} : Of(c, x) = Of(c0, x)
    BY <1>10, <2>2, AddFacts
  <2> QED
    BY <1>10, <2>1, <2>2, <2>3
<1>12. /\ Shape(d) /\ HeldBy(d) = {s, p} /\ d.tx = <<>>
       /\ Of(d, "SERVER") = {s} /\ Of(d, "EXTERNAL") = {p}
  <2>1. PICK ty \in ConnType : ty = "EXTERNAL"
    BY DEF ConnType
  <2>2. p \in Fd \ HeldBy(c) /\ d = add_(c, p, ty) /\ "SERVER" \in ConnType \ {ty}
    BY <1>2, <1>7, <1>11, <2>1 DEF ConnType
  <2>3. /\ Shape(d) /\ HeldBy(d) = HeldBy(c) \cup {p} /\ d.tx = c.tx
        /\ Of(d, ty) = Of(c, ty) \cup {p} /\ \A x \in ConnType \ {ty} : Of(d, x) = Of(c, x)
    BY <1>11, <2>2, AddFacts
  <2> QED
    BY <1>11, <2>1, <2>2, <2>3
<1>13. Ends(ctx) = {} /\ ctx.tx = <<>>
  BY <1>9, <1>11, <1>12 DEF Ends, Listening
<1>14. Mail(ctx) = {} /\ Distinct(ctx.tx)
  BY <1>13 DEF Mail, Entries, Distinct
<1>15. DOMAIN t0 = Fd /\ \A f \in Fd : t0[f].sort = "closed" /\ t0[f].rx = <<>>
  BY <1>4 DEF ClosedFile
<1>16. PICK one : one = 1
  OBVIOUS
<1>17. PICK two : two = 2
  OBVIOUS
<1>18. t = OpenFile(t0, s, one, "listen") /\ u = OpenFile(t, p, two, "listen")
  BY <1>6, <1>8, <1>16, <1>17
<1>19. /\ DOMAIN t = Fd /\ t[s].sort = "listen" /\ t[s].rx = <<>> /\ t[s].id = one
       /\ \A g \in Fd \ {s} : t[g] = t0[g]
  BY <1>15, <1>18, ListenTable
<1>20. /\ u[p].sort = "listen" /\ u[p].rx = <<>> /\ u[p].id = two
       /\ \A g \in Fd \ {p} : u[g] = t[g]
  <2>1. PICK q \in Fd : q = p
    OBVIOUS
  <2>2. u = OpenFile(t, q, two, "listen") /\ DOMAIN t = Fd
    BY <1>18, <1>19, <2>1
  <2>3. /\ u[q].sort = "listen" /\ u[q].rx = <<>> /\ u[q].id = two
        /\ \A g \in Fd \ {q} : u[g] = t[g]
    BY <2>2, ListenTable
  <2> QED
    BY <2>1, <2>3
<1>21. \A f \in Fd : files[f].rx = <<>> /\ files[f].sort \in {"closed", "listen"}
  <2>1. \A f \in Fd : t[f].rx = <<>> /\ t[f].sort \in {"closed", "listen"}
    BY <1>15, <1>19
  <2>2. \A f \in Fd : u[f].rx = <<>> /\ u[f].sort \in {"closed", "listen"}
    BY <1>20, <2>1
  <2> QED
    BY <1>9, <2>1, <2>2
<1>22. \A f \in OpenIn(files) : (f = s /\ files[f].id = 1) \/ (f = p /\ files[f].id = 2)
  <2>1. \A f \in Fd : t[f].sort # "closed" => f = s /\ t[f].id = 1
    BY <1>15, <1>16, <1>19
  <2>2. \A f \in Fd : u[f].sort # "closed" => (f = s /\ u[f].id = 1) \/ (f = p /\ u[f].id = 2)
    BY <1>17, <1>20, <2>1
  <2> QED
    BY <1>9, <2>1, <2>2 DEF OpenIn, IsOpen
<1>23. \A f \in Fd : Line(files, f) = {} /\ InOrder(files, f)
  BY <1>21 DEF Line, InOrder
<1>24. \A f \in Fd : Backlog(files, f) = {} /\ Inbox(files, f) = {}
  BY <1>23 DEF Backlog, Inbox
<1>25. Names(files, nfiles)
  <2>1. /\ \A f \in OpenIn(files) : files[f].id \in 1 .. 2
        /\ \A f, g \in OpenIn(files) : files[f].id = files[g].id => f = g
    BY <1>22
  <2> QED
    BY <1>9, <1>23, <1>24, <2>1 DEF Names
<1>26. Spent(ctx, sent) = {} /\ Carried(at, event) = {} /\ Aside(at) = {}
  BY <1>9, <1>14 DEF Spent, Carried, Aside
<1>27. Letters(files, Spent(ctx, sent), Carried(at, event), nmsgs)
  BY <1>24, <1>26 DEF Letters
<1>28. Talks(ctx, files, Aside(at)) /\ Addressed(ctx, files)
  BY <1>13, <1>14, <1>26 DEF Talks, Addressed
<1>29. GInv
  BY <1>14, <1>25, <1>27, <1>28 DEF GInv, GOK
<1>30. /\ OpenIds(ctx, files) = {} /\ BrokenIds(ctx, files) = {}
       /\ Pending(ctx) = {} /\ Written(sent) = {}
  BY <1>9, <1>13, <1>14 DEF OpenIds, BrokenIds, Pending, Written
<1>31. ZInv
  BY ZInvInit
<1>32. Promise!Init
  BY <1>29, <1>30, <1>31, MappedVars DEF Promise!Init
<1> QED
  BY <1>29, <1>32

(* The context of the Zig implementation keeps the promise of Outbox with  *)
(* each of the three programs, and whatever their peers do: wait_event,    *)
(* schedule, close and the handlers write a scheduled message once, to the *)
(* connection it was scheduled for, or lose it with that connection or its *)
(* peer.                                                                   *)
THEOREM ImplementsOutboxAlways == Spec => ImplementsOutbox
<1>1. Init => ZInv /\ GInv /\ Promise!Init
  BY ZInvInit, InitMaps
<1>2. ZInv /\ GInv /\ [Next]_vars => ZInv' /\ GInv' /\ [Promise!Next]_(Promise!vars)
  BY ZInvNext, NextMaps DEF Maps
<1> QED
  BY <1>1, <1>2, PTL DEF Spec, ImplementsOutbox, Promise!Spec

=============================================================================
