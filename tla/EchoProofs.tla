----------------------------- MODULE EchoProofs -----------------------------
(***************************************************************************)
(* What pongd promises to its clients, for any number of pong and pongspam *)
(* clients, rounds, and messages per line.                                 *)
(*                                                                         *)
(* The inductive invariant EInv says, beside the types,                    *)
(*   - what each client's step says of its end, its context and its list   *)
(*     (ClientOK), whether pongd runs or not;                              *)
(*   - while pongd runs: that its array has every connected client once    *)
(*     (ArrayOK, LinkOK), that what poll(2) reported still holds when it   *)
(*     is served (TurnOK), that a message of its list goes back to the     *)
(*     client that made it (AnswersOK), that a pong has one message on its *)
(*     way exactly when it waits for it, unless a signal ended it (WayOK), *)
(*     that only a signal makes it leave an answer unread (LeftOK), and    *)
(*     that the numbers of the messages in the five lists of a client are  *)
(*     disjoint and cover those it made (Conserved).                       *)
(***************************************************************************)
EXTENDS Echo, IpcMessagesProofs, SequenceTheorems

Msg == [fd : Client \cup {"sock", "stdin"}, from : Client, n : Nat, kind : Kinds]

Active == {"wait", "in", "out", "outstdin", "line", "quit"}
Steps  == {"start", "failed", "done", "killed", "write", "read", "close"} \cup Active
Ends   == {"none", "up", "gone", "reset"}

Turns == [i : Nat, act : {"none", "accept", "read", "write"}]
Pongd ==
  [state : {"up", "failed", "stopped"}, conns : Seq(Client \cup {"listen"}),
   tx : Seq(Msg), cpt : Int, turn : Turns]

Types ==
  /\ srv \in Pongd /\ backlog \in Seq(Client)
  /\ pc \in [Client -> Steps] /\ conns \in [Client -> Seq({"sock", "stdin"})]
  /\ tx \in [Client -> Seq(Msg)] /\ asked \in [Client -> Nat]
  /\ up \in [Client -> Seq(Msg)] /\ down \in [Client -> Seq(Msg)]
  /\ cliEnd \in [Client -> Ends] /\ srvEnd \in [Client -> Ends]
  /\ got \in [Client -> Seq(Msg)]

(* All the messages of s are from c.                                       *)
From(s, c) == \A k \in 1 .. Len(s) : s[k].from = c

(* The step p, the end e, the array a and the list t of a pongspam.        *)
SpamOK(p, e, a, t) ==
  /\ p \in {"start", "failed", "done", "killed"} \cup Active
  /\ e = "up" => p \in Active
  /\ p \in Active =>
       /\ e \in {"up", "gone"}
       /\ a = IF e = "up" THEN <<"sock", "stdin">> ELSE <<"stdin">>
       /\ \A k \in 1 .. Len(t) : t[k].fd = IF e = "up" THEN "sock" ELSE "stdin"
  /\ p = "in" => e = "up"
  /\ p = "out" => e = "up" /\ HasMessage(t, "sock")
  /\ p = "outstdin" => e # "up" /\ HasMessage(t, "stdin")

(* The step p, the end e and the list t of a pong.                         *)
PongOK(p, e, t) ==
  /\ p \in {"start", "failed", "done", "killed", "write", "read", "close"}
  /\ e = "up" <=> p \in {"write", "read", "close"}
  /\ t = <<>>

ClientOK(c) ==
  /\ From(tx[c], c) /\ From(up[c], c) /\ From(down[c], c) /\ From(got[c], c)
  /\ pc[c] = "start" => cliEnd[c] = "none"
  /\ cliEnd[c] = "none" =>
       /\ asked[c] = 0 /\ tx[c] = <<>> /\ up[c] = <<>>
       /\ down[c] = <<>> /\ got[c] = <<>>
  /\ c \in Pong => PongOK(pc[c], cliEnd[c], tx[c])
  /\ c \in Spam => SpamOK(pc[c], cliEnd[c], conns[c], tx[c])

(* The array a of pongd and the queue b of its socket.                     *)
ArrayOK(a, b) ==
  /\ Len(a) >= 1 /\ a[1] = "listen"
  /\ \A i, j \in 1 .. Len(a) : a[i] = a[j] => i = j
  /\ \A i, j \in 1 .. Len(b) : b[i] = b[j] => i = j
  /\ \A i \in 1 .. Len(a), j \in 1 .. Len(b) : a[i] # b[j]

Among(a, c) == \E i \in 1 .. Len(a) : a[i] = c

(* Client c, whose ends are ce and se, in array a or queue b.              *)
LinkOK(c, a, b, ce, se) ==
  /\ ce = "none" <=> se = "none"
  /\ se \in {"none", "up"}
  /\ ce = "up" => Among(a, c) \/ Among(b, c)
  /\ Among(a, c) \/ Among(b, c) => ce # "none"

AnswersOK(a, t) ==
  \A k \in 1 .. Len(t) : t[k].fd = t[k].from /\ Among(a, t[k].fd)

TurnOK(s, b, u, ce) ==
  s.turn.act # "none" =>
    /\ s.turn.i \in 1 .. Len(s.conns)
    /\ s.turn.act = "accept" => b # <<>>
    /\ s.turn.act \in {"read", "write"} => s.conns[s.turn.i] # "listen"
    /\ s.turn.act = "read" =>
         Readable(u[s.conns[s.turn.i]], ce[s.conns[s.turn.i]])
    /\ s.turn.act = "write" => HasMessage(s.tx, s.conns[s.turn.i])

(* What pong c at step p has on its way: in u, in the list t of pongd,     *)
(* which has at most one message for it, or in d.                          *)
Single(t, c) == \A j, k \in 1 .. Len(t) : t[j].fd = c /\ t[k].fd = c => j = k

WayOK(c, p, u, t, d) ==
  /\ Len(u) <= 1 /\ Len(d) <= 1 /\ Single(t, c)
  /\ ~(u # <<>> /\ HasMessage(t, c)) /\ ~(u # <<>> /\ d # <<>>)
  /\ ~(HasMessage(t, c) /\ d # <<>>)
  /\ p # "killed" => (p = "read" <=> (u # <<>> \/ HasMessage(t, c) \/ d # <<>>))

(* A pong at step p whose end is ce leaves nothing unread by itself.       *)
LeftOK(c, p, ce) == c \in Pong /\ ce = "reset" => p = "killed"

(* The numbers of the messages of c in a list, each there once.            *)
Numbers(s, c) == {s[k].n : k \in {j \in 1 .. Len(s) : s[j].from = c}}
Once(s, c) ==
  \A j, k \in 1 .. Len(s) :
    s[j].from = c /\ s[k].from = c /\ s[j].n = s[k].n => j = k

Partition(A, B, C, D, E, U) ==
  /\ \A x \in U : x \in A \/ x \in B \/ x \in C \/ x \in D \/ x \in E
  /\ \A x \in A : x \in U /\ x \notin B /\ x \notin C /\ x \notin D /\ x \notin E
  /\ \A x \in B : x \in U /\ x \notin C /\ x \notin D /\ x \notin E
  /\ \A x \in C : x \in U /\ x \notin D /\ x \notin E
  /\ \A x \in D : x \in U /\ x \notin E
  /\ \A x \in E : x \in U

Conserved(c, o, u, t, d, g, n) ==
  /\ Once(o, c) /\ Once(u, c) /\ Once(t, c) /\ Once(d, c) /\ Once(g, c)
  /\ Partition(Numbers(o, c), Numbers(u, c), Numbers(t, c),
               Numbers(d, c), Numbers(g, c), 1 .. n)

(* What holds of client c while pongd runs.                                *)
ServedOK(c) ==
  /\ LinkOK(c, srv.conns, backlog, cliEnd[c], srvEnd[c])
  /\ c \in Pong => pc[c] # "failed" /\ WayOK(c, pc[c], up[c], srv.tx, down[c])
  /\ LeftOK(c, pc[c], cliEnd[c])
  /\ cliEnd[c] = "up" =>
       Conserved(c, tx[c], up[c], srv.tx, down[c], got[c], asked[c])

Serving ==
  /\ ArrayOK(srv.conns, backlog)
  /\ AnswersOK(srv.conns, srv.tx)
  /\ TurnOK(srv, backlog, up, cliEnd)
  /\ \A c \in Client : ServedOK(c)

EInv ==
  /\ Types
  /\ \A c \in Client : ClientOK(c)
  /\ srv.state = "up" => Serving

-----------------------------------------------------------------------------
(* The five sets a client's numbers are divided into.                      *)

LEMMA MoveAB ==
  ASSUME NEW A, NEW B, NEW C, NEW D, NEW E, NEW U, NEW x, Partition(A, B, C, D, E, U),
         x \in A, NEW A2, A2 = A \ {x}, NEW B2, B2 = B \cup {x}
  PROVE  Partition(A2, B2, C, D, E, U)
BY DEF Partition

LEMMA MoveBC ==
  ASSUME NEW A, NEW B, NEW C, NEW D, NEW E, NEW U, NEW x, Partition(A, B, C, D, E, U),
         x \in B, NEW B2, B2 = B \ {x}, NEW C2, C2 = C \cup {x}
  PROVE  Partition(A, B2, C2, D, E, U)
BY DEF Partition

LEMMA MoveCD ==
  ASSUME NEW A, NEW B, NEW C, NEW D, NEW E, NEW U, NEW x, Partition(A, B, C, D, E, U),
         x \in C, NEW C2, C2 = C \ {x}, NEW D2, D2 = D \cup {x}
  PROVE  Partition(A, B, C2, D2, E, U)
BY DEF Partition

LEMMA MoveDE ==
  ASSUME NEW A, NEW B, NEW C, NEW D, NEW E, NEW U, NEW x, Partition(A, B, C, D, E, U),
         x \in D, NEW D2, D2 = D \ {x}, NEW E2, E2 = E \cup {x}
  PROVE  Partition(A, B, C, D2, E2, U)
BY DEF Partition

LEMMA AddB ==
  ASSUME NEW A, NEW B, NEW C, NEW D, NEW E, NEW U, NEW x, Partition(A, B, C, D, E, U),
         x \notin U, NEW B2, B2 = B \cup {x}, NEW U2, U2 = U \cup {x}
  PROVE  Partition(A, B2, C, D, E, U2)
BY DEF Partition

LEMMA GrowA ==
  ASSUME NEW A, NEW B, NEW C, NEW D, NEW E, NEW U, NEW X, Partition(A, B, C, D, E, U),
         \A x \in X : x \notin U, NEW A2, A2 = A \cup X, NEW U2, U2 = U \cup X
  PROVE  Partition(A2, B, C, D, E, U2)
BY DEF Partition

(* The numbers of a list, when a message is added or removed.              *)

LEMMA EmptyNumbers ==
  ASSUME NEW c
  PROVE  Numbers(<<>>, c) = {} /\ Once(<<>>, c)
BY DEF Numbers, Once

LEMMA NumberIn ==
  ASSUME NEW s \in Seq(Msg), NEW c, NEW k \in 1 .. Len(s), s[k].from = c
  PROVE  s[k].n \in Numbers(s, c)
BY DEF Numbers

LEMMA AppendNumbers ==
  ASSUME NEW s \in Seq(Msg), NEW m \in Msg, NEW c, Once(s, c),
         m.from = c, m.n \notin Numbers(s, c), NEW t, t = Append(s, m)
  PROVE  Once(t, c) /\ Numbers(t, c) = Numbers(s, c) \cup {m.n}
<1>1. /\ Len(t) = Len(s) + 1 /\ Len(s) \in Nat
      /\ \A k \in 1 .. Len(s) : t[k] = s[k]
      /\ t[Len(s) + 1] = m
  OBVIOUS
<1>2. \A k \in 1 .. Len(t) : k \in 1 .. Len(s) \/ k = Len(s) + 1
  BY <1>1
<1>3. \A k \in 1 .. Len(s) : k \in 1 .. Len(t)
  BY <1>1
<1>4. Len(s) + 1 \in 1 .. Len(t)
  BY <1>1
<1>5. {j \in 1 .. Len(t) : t[j].from = c} =
        {j \in 1 .. Len(s) : s[j].from = c} \cup {Len(s) + 1}
  BY <1>1, <1>2, <1>3, <1>4
<1>6. Numbers(t, c) = Numbers(s, c) \cup {m.n}
  BY <1>1, <1>5 DEF Numbers
<1>7. \A k \in 1 .. Len(s) : s[k].from = c => s[k].n # m.n
  BY DEF Numbers
<1>8. Once(t, c)
  BY <1>1, <1>2, <1>7 DEF Once
<1> QED
  BY <1>6, <1>8

LEMMA SwapNumbers ==
  ASSUME NEW s \in Seq(Msg), NEW i \in 1 .. Len(s), NEW c, Once(s, c),
         NEW t, t = SwapRemove(s, i)
  PROVE  /\ s[i].from = c =>
              Once(t, c) /\ Numbers(t, c) = Numbers(s, c) \ {s[i].n}
         /\ s[i].from # c => Once(t, c) /\ Numbers(t, c) = Numbers(s, c)
<1>1. PICK n \in Nat : n = Len(s)
  OBVIOUS
<1>2. /\ Len(t) = n - 1
      /\ \A k \in 1 .. n - 1 : t[k] = IF k = i THEN s[n] ELSE s[k]
  BY <1>1, SwapRemoveFacts
<1> DEFINE at(k) == IF k = i THEN n ELSE k
<1>3. \A k \in 1 .. n - 1 : at(k) \in 1 .. n /\ at(k) # i /\ t[k] = s[at(k)]
  BY <1>1, <1>2
<1>4. \A j, k \in 1 .. n - 1 : at(j) = at(k) => j = k
  BY <1>1
<1>5. \A q \in 1 .. n : q # i => \E k \in 1 .. n - 1 : at(k) = q
  <2>1. ASSUME NEW q \in 1 .. n, q # i PROVE \E k \in 1 .. n - 1 : at(k) = q
    <3>1. CASE q = n
      <4>1. i \in 1 .. n - 1 /\ at(i) = q
        BY <1>1, <2>1, <3>1
      <4> QED
        BY <4>1
    <3>2. CASE q # n
      <4>1. q \in 1 .. n - 1 /\ at(q) = q
        BY <2>1, <3>2
      <4> QED
        BY <4>1
    <3> QED
      BY <3>1, <3>2
  <2> QED
    BY <2>1
<1> HIDE DEF at
<1>6. Once(t, c)
  BY <1>1, <1>2, <1>3, <1>4 DEF Once
<1>7. \A k \in 1 .. n - 1 : t[k].from = c => s[at(k)].from = c /\ t[k].n = s[at(k)].n
  BY <1>3
<1>8. \A x \in Numbers(t, c) : x \in Numbers(s, c) /\ (s[i].from = c => x # s[i].n)
  <2> SUFFICES ASSUME NEW k \in 1 .. n - 1, t[k].from = c
               PROVE  t[k].n \in Numbers(s, c) /\ (s[i].from = c => t[k].n # s[i].n)
    BY <1>2 DEF Numbers
  <2>1. at(k) \in 1 .. n /\ at(k) # i /\ s[at(k)].from = c /\ t[k].n = s[at(k)].n
    BY <1>3, <1>7
  <2> QED
    BY <1>1, <2>1 DEF Numbers, Once
<1>9. \A x \in Numbers(s, c) : (s[i].from = c => x # s[i].n) => x \in Numbers(t, c)
  <2> SUFFICES ASSUME NEW q \in 1 .. n, s[q].from = c, s[i].from = c => s[q].n # s[i].n
               PROVE  s[q].n \in Numbers(t, c)
    BY <1>1 DEF Numbers
  <2>1. q # i
    OBVIOUS
  <2>2. PICK k \in 1 .. n - 1 : at(k) = q
    BY <1>5, <2>1
  <2>3. k \in 1 .. Len(t) /\ t[k] = s[q]
    BY <1>2, <1>3, <2>2
  <2> QED
    BY <2>3 DEF Numbers
<1> QED
  BY <1>6, <1>8, <1>9

(* The list t2 has of client c what the list t had.                        *)
SameFor(t, t2, c) ==
  /\ Once(t, c) => Once(t2, c)
  /\ Numbers(t2, c) = Numbers(t, c)
  /\ HasMessage(t2, c) <=> HasMessage(t, c)
  /\ Single(t, c) => Single(t2, c)

(* The messages of a list are for those that made them.                    *)
ToAuthor(t) == \A k \in 1 .. Len(t) : t[k].fd = t[k].from

(* A rearrangement of the messages of c.                                   *)
LEMMA Rearranged ==
  ASSUME NEW s \in Seq(Msg), NEW t \in Seq(Msg), NEW c, NEW at, NEW P,
         ToAuthor(s), P \in SUBSET (1 .. Len(s)), Rearranges(at, t, s, P),
         \A k \in 1 .. Len(s) : s[k].fd = c => k \in P
  PROVE  SameFor(s, t, c)
<1>1. /\ \A k \in 1 .. Len(t) : at[k] \in P /\ at[k] \in 1 .. Len(s) /\ t[k] = s[at[k]]
      /\ \A j, k \in 1 .. Len(t) : at[j] = at[k] => j = k
      /\ \A q \in P : \E k \in 1 .. Len(t) : at[k] = q
  BY DEF Rearranges
<1>2. ASSUME Once(s, c) PROVE Once(t, c)
  <2> SUFFICES ASSUME NEW j \in 1 .. Len(t), NEW k \in 1 .. Len(t),
                      t[j].from = c, t[k].from = c, t[j].n = t[k].n
               PROVE  at[j] = at[k]
    BY <1>1 DEF Once
  <2>1. s[at[j]].from = c /\ s[at[k]].from = c /\ s[at[j]].n = s[at[k]].n
    BY <1>1
  <2> QED
    BY <1>1, <1>2, <2>1 DEF Once
<1>3. Single(s, c) => Single(t, c)
  BY <1>1, SMTT(30) DEF Single
<1>4. HasMessage(t, c) => HasMessage(s, c)
  BY <1>1 DEF HasMessage
<1>5. ASSUME NEW q \in 1 .. Len(s), s[q].fd = c
      PROVE  \E k \in 1 .. Len(t) : t[k] = s[q]
  <2>1. q \in P
    BY <1>5
  <2> QED
    BY <1>1, <2>1
<1>6. HasMessage(s, c) => HasMessage(t, c)
  BY <1>5 DEF HasMessage
<1>7. \A x \in Numbers(t, c) : x \in Numbers(s, c)
  <2> SUFFICES ASSUME NEW k \in 1 .. Len(t), t[k].from = c
               PROVE  t[k].n \in Numbers(s, c)
    BY DEF Numbers
  <2>1. at[k] \in 1 .. Len(s) /\ s[at[k]].from = c /\ t[k].n = s[at[k]].n
    BY <1>1
  <2> QED
    BY <2>1 DEF Numbers
<1>8. \A x \in Numbers(s, c) : x \in Numbers(t, c)
  <2> SUFFICES ASSUME NEW q \in 1 .. Len(s), s[q].from = c
               PROVE  s[q].n \in Numbers(t, c)
    BY DEF Numbers
  <2>1. s[q].fd = c
    BY DEF ToAuthor
  <2>2. PICK k \in 1 .. Len(t) : t[k] = s[q]
    BY <1>5, <2>1
  <2>3. t[k].from = c
    BY <2>2
  <2> QED
    BY <2>2, <2>3 DEF Numbers
<1>9. Numbers(t, c) = Numbers(s, c)
  BY <1>7, <1>8
<1> QED
  BY <1>2, <1>3, <1>4, <1>6, <1>9 DEF SameFor

LEMMA RemoveSame ==
  ASSUME NEW s \in Seq(Msg), NEW f, NEW c, c # f, ToAuthor(s),
         NEW t, t = ipc_remove_messages_for_fd(s, f)
  PROVE  SameFor(s, t, c)
<1>1. t = RemoveFor(s, {f}) /\ t \in Seq(Msg)
  BY RemoveForFacts DEF ipc_remove_messages_for_fd
<1>2. PICK at : Rearranges(at, t, s, Kept(s, {f}))
  BY <1>1, RemoveForExact
<1>3. /\ Kept(s, {f}) \in SUBSET (1 .. Len(s))
      /\ \A k \in 1 .. Len(s) : s[k].fd = c => k \in Kept(s, {f})
  BY DEF Kept
<1> QED
  BY <1>1, <1>2, <1>3, Rearranged

LEMMA SwapSame ==
  ASSUME NEW s \in Seq(Msg), NEW i \in 1 .. Len(s), NEW c, ToAuthor(s), s[i].fd # c,
         NEW t, t = SwapRemove(s, i)
  PROVE  SameFor(s, t, c)
<1>1. PICK n \in Nat : n = Len(s)
  OBVIOUS
<1>2. /\ t \in Seq(Msg) /\ Len(t) = n - 1
      /\ \A k \in 1 .. n - 1 : t[k] = IF k = i THEN s[n] ELSE s[k]
  BY <1>1, SwapRemoveFacts, ZenonT(60)
<1> DEFINE at == [k \in 1 .. n - 1 |-> IF k = i THEN n ELSE k]
           P == (1 .. n) \ {i}
<1>3. \A k \in 1 .. n - 1 : at[k] \in P /\ t[k] = s[at[k]]
  BY <1>1, <1>2
<1>4. \A j, k \in 1 .. n - 1 : at[j] = at[k] => j = k
  BY <1>1
<1>5. ASSUME NEW q \in P PROVE \E k \in 1 .. n - 1 : at[k] = q
  <2>1. CASE q = n
    <3>1. i \in 1 .. n - 1 /\ at[i] = q
      BY <1>1, <1>5, <2>1
    <3> QED
      BY <3>1
  <2>2. CASE q # n
    <3>1. q \in 1 .. n - 1 /\ at[q] = q
      BY <1>5, <2>2
    <3> QED
      BY <3>1
  <2> QED
    BY <2>1, <2>2
<1>6. at \in [1 .. n - 1 -> P]
  BY <1>3
<1>7. P \in SUBSET (1 .. Len(s)) /\ \A k \in 1 .. Len(s) : s[k].fd = c => k \in P
  BY <1>1
<1> HIDE DEF at, P
<1>8. Rearranges(at, t, s, P)
  BY <1>2, <1>3, <1>4, <1>5, <1>6 DEF Rearranges
<1> QED
  BY <1>2, <1>7, <1>8, Rearranged

LEMMA AppendSame ==
  ASSUME NEW s \in Seq(Msg), NEW m \in Msg, NEW c, m.fd # c, m.from # c,
         NEW t, t = Append(s, m)
  PROVE  SameFor(s, t, c)
<1>1. /\ Len(t) = Len(s) + 1 /\ Len(s) \in Nat
      /\ \A k \in 1 .. Len(s) : t[k] = s[k] /\ k \in 1 .. Len(t)
      /\ t[Len(s) + 1] = m
  OBVIOUS
<1>2. \A k \in 1 .. Len(t) : k \in 1 .. Len(s) \/ k = Len(s) + 1
  BY <1>1
<1>3. Once(s, c) => Once(t, c)
  BY <1>1, <1>2 DEF Once
<1>4. Numbers(t, c) = Numbers(s, c)
  <2>1. {j \in 1 .. Len(t) : t[j].from = c} = {j \in 1 .. Len(s) : s[j].from = c}
    BY <1>1, <1>2
  <2> QED
    BY <1>1, <2>1 DEF Numbers
<1>5. HasMessage(t, c) <=> HasMessage(s, c)
  BY <1>1, <1>2 DEF HasMessage
<1>6. Single(s, c) => Single(t, c)
  BY <1>1, <1>2 DEF Single
<1> QED
  BY <1>3, <1>4, <1>5, <1>6 DEF SameFor

(* A client whose messages pongd did not touch.                            *)
LEMMA SameKeeps ==
  ASSUME NEW c, NEW t, NEW t2, SameFor(t, t2, c),
         NEW p, NEW o, NEW u, NEW d, NEW g, NEW n
  PROVE  /\ WayOK(c, p, u, t, d) => WayOK(c, p, u, t2, d)
         /\ Conserved(c, o, u, t, d, g, n) => Conserved(c, o, u, t2, d, g, n)
<1>1. WayOK(c, p, u, t, d) => WayOK(c, p, u, t2, d)
  BY DEF SameFor, WayOK
<1>2. Conserved(c, o, u, t, d, g, n) => Conserved(c, o, u, t2, d, g, n)
  BY DEF SameFor, Conserved
<1> QED
  BY <1>1, <1>2

-----------------------------------------------------------------------------
(* The steps of a message between its five lists.                          *)

(* From the list of the client to its socket.                              *)
LEMMA ConservedOut ==
  ASSUME NEW c, NEW o \in Seq(Msg), NEW u \in Seq(Msg), NEW t, NEW d, NEW g, NEW n,
         Conserved(c, o, u, t, d, g, n), NEW k \in 1 .. Len(o), o[k].from = c,
         NEW o2, o2 = SwapRemove(o, k), NEW u2, u2 = Append(u, o[k])
  PROVE  Conserved(c, o2, u2, t, d, g, n)
<1>1. PICK m \in Msg : m = o[k] /\ u2 = Append(u, m) /\ m.from = c
  OBVIOUS
<1>a. u2 = Append(u, m) /\ m.from = c
  BY <1>1
<1>2. m.n \in Numbers(o, c)
  BY <1>1, NumberIn
<1>3. Partition(Numbers(o, c), Numbers(u, c), Numbers(t, c), Numbers(d, c),
                Numbers(g, c), 1 .. n) /\ Once(o, c) /\ Once(u, c)
  BY DEF Conserved
<1>4. m.n \notin Numbers(u, c)
  BY <1>2, <1>3 DEF Partition
<1>5. Once(o2, c) /\ Numbers(o2, c) = Numbers(o, c) \ {m.n}
  BY <1>1, <1>3, SwapNumbers
<1>6. Once(u2, c) /\ Numbers(u2, c) = Numbers(u, c) \cup {m.n}
  BY <1>a, <1>3, <1>4, AppendNumbers
<1>7. Partition(Numbers(o2, c), Numbers(u2, c), Numbers(t, c), Numbers(d, c),
                Numbers(g, c), 1 .. n)
  BY <1>2, <1>3, <1>5, <1>6, MoveAB, SMTT(60)
<1> QED
  BY <1>5, <1>6, <1>7 DEF Conserved

(* A list of one message has its number.                                   *)
LEMMA OneNumber ==
  ASSUME NEW u \in Seq(Msg), Len(u) = 1, NEW c, u[1].from = c
  PROVE  Numbers(u, c) = {u[1].n}
<1>1. {j \in 1 .. Len(u) : u[j].from = c} = {1}
  OBVIOUS
<1> QED
  BY <1>1 DEF Numbers

(* From the socket to the list of pongd.                                   *)
LEMMA ConservedRead ==
  ASSUME NEW c, NEW o, NEW u \in Seq(Msg), NEW t \in Seq(Msg), NEW d, NEW g, NEW n,
         Conserved(c, o, u, t, d, g, n), Len(u) = 1, u[1].from = c,
         NEW m \in Msg, m.from = c, m.n = u[1].n, NEW t2, t2 = Append(t, m)
  PROVE  Conserved(c, o, <<>>, t2, d, g, n)
<1>1. Numbers(u, c) = {m.n}
  BY OneNumber
<1>2. Partition(Numbers(o, c), Numbers(u, c), Numbers(t, c), Numbers(d, c),
                Numbers(g, c), 1 .. n) /\ Once(t, c)
  BY DEF Conserved
<1>3. m.n \notin Numbers(t, c)
  BY <1>1, <1>2 DEF Partition
<1>4. Numbers(<<>>, c) = Numbers(u, c) \ {m.n} /\ Once(<<>>, c)
  BY <1>1, EmptyNumbers
<1>a. Once(t, c)
  BY <1>2
<1>5. Once(t2, c) /\ Numbers(t2, c) = Numbers(t, c) \cup {m.n}
  BY <1>3, <1>a, AppendNumbers, ZenonT(60)
<1>6. m.n \in Numbers(u, c)
  BY <1>1
<1>7. Partition(Numbers(o, c), Numbers(<<>>, c), Numbers(t2, c), Numbers(d, c),
                Numbers(g, c), 1 .. n)
  BY <1>2, <1>4, <1>5, <1>6, MoveBC
<1> QED
  BY <1>4, <1>5, <1>7 DEF Conserved

(* From the list of pongd to the socket of the client.                     *)
LEMMA ConservedWrite ==
  ASSUME NEW c, NEW o, NEW u, NEW t \in Seq(Msg), NEW d \in Seq(Msg), NEW g, NEW n,
         Conserved(c, o, u, t, d, g, n), NEW k \in 1 .. Len(t), t[k].from = c,
         NEW t2, t2 = SwapRemove(t, k), NEW d2, d2 = Append(d, t[k])
  PROVE  Conserved(c, o, u, t2, d2, g, n)
<1>1. PICK m \in Msg : m = t[k] /\ d2 = Append(d, m) /\ m.from = c
  OBVIOUS
<1>a. d2 = Append(d, m) /\ m.from = c
  BY <1>1
<1>2. m.n \in Numbers(t, c)
  BY <1>1, NumberIn
<1>3. Partition(Numbers(o, c), Numbers(u, c), Numbers(t, c), Numbers(d, c),
                Numbers(g, c), 1 .. n) /\ Once(t, c) /\ Once(d, c)
  BY DEF Conserved
<1>4. m.n \notin Numbers(d, c)
  BY <1>2, <1>3 DEF Partition
<1>5. Once(t2, c) /\ Numbers(t2, c) = Numbers(t, c) \ {m.n}
  BY <1>1, <1>3, SwapNumbers
<1>6. Once(d2, c) /\ Numbers(d2, c) = Numbers(d, c) \cup {m.n}
  BY <1>a, <1>3, <1>4, AppendNumbers
<1>7. Partition(Numbers(o, c), Numbers(u, c), Numbers(t2, c), Numbers(d2, c),
                Numbers(g, c), 1 .. n)
  BY <1>2, <1>3, <1>5, <1>6, MoveCD
<1> QED
  BY <1>5, <1>6, <1>7 DEF Conserved

(* From the socket of the client to its application.                       *)
LEMMA ConservedGot ==
  ASSUME NEW c, NEW o, NEW u, NEW t, NEW d \in Seq(Msg), NEW g \in Seq(Msg), NEW n,
         Conserved(c, o, u, t, d, g, n), Len(d) = 1, d[1].from = c,
         NEW g2, g2 = g \o d
  PROVE  Conserved(c, o, u, t, <<>>, g2, n)
<1>1. PICK m \in Msg : m = d[1] /\ m.from = c
  OBVIOUS
<1>2. Numbers(d, c) = {m.n}
  BY <1>1, OneNumber
<1>3. Partition(Numbers(o, c), Numbers(u, c), Numbers(t, c), Numbers(d, c),
                Numbers(g, c), 1 .. n) /\ Once(g, c)
  BY DEF Conserved
<1>4. m.n \notin Numbers(g, c)
  BY <1>2, <1>3 DEF Partition
<1>5. Numbers(<<>>, c) = Numbers(d, c) \ {m.n} /\ Once(<<>>, c)
  BY <1>2, EmptyNumbers
<1>6. g2 = Append(g, m)
  <2>1. d = <<m>>
    BY <1>1
  <2> QED
    BY <2>1, AppendIsConcat
<1>a. Once(g, c) /\ m.from = c
  BY <1>1, <1>3
<1>7. Once(g2, c) /\ Numbers(g2, c) = Numbers(g, c) \cup {m.n}
  BY <1>4, <1>6, <1>a, AppendNumbers
<1>8. m.n \in Numbers(d, c)
  BY <1>2
<1>9. Partition(Numbers(o, c), Numbers(u, c), Numbers(t, c), Numbers(<<>>, c),
                Numbers(g2, c), 1 .. n)
  <2>1. Partition(Numbers(o, c), Numbers(u, c), Numbers(t, c), Numbers(d, c),
                  Numbers(g, c), 1 .. n)
    BY <1>3
  <2>2. PICK D2 : D2 = Numbers(<<>>, c)
    OBVIOUS
  <2>3. D2 = Numbers(d, c) \ {m.n}
    BY <1>5, <2>2
  <2>4. Partition(Numbers(o, c), Numbers(u, c), Numbers(t, c), D2, Numbers(g2, c), 1 .. n)
    BY <1>7, <1>8, <2>1, <2>3, MoveDE
  <2> QED
    BY <2>2, <2>4
<1> QED
  BY <1>5, <1>7, <1>9 DEF Conserved

(* A pong makes a message.                                                 *)
LEMMA ConservedMade ==
  ASSUME NEW c, NEW o, NEW u \in Seq(Msg), NEW t, NEW d, NEW g, NEW n \in Nat,
         Conserved(c, o, u, t, d, g, n),
         NEW m \in Msg, m.from = c, m.n = n + 1, NEW u2, u2 = Append(u, m)
  PROVE  Conserved(c, o, u2, t, d, g, n + 1)
<1>1. Partition(Numbers(o, c), Numbers(u, c), Numbers(t, c), Numbers(d, c),
                Numbers(g, c), 1 .. n) /\ Once(u, c)
  BY DEF Conserved
<1>2. m.n \notin 1 .. n /\ (1 .. n) \cup {m.n} = 1 .. n + 1
  OBVIOUS
<1>3. m.n \notin Numbers(u, c)
  BY <1>1, <1>2 DEF Partition
<1>4. Once(u2, c) /\ Numbers(u2, c) = Numbers(u, c) \cup {m.n}
  BY <1>1, <1>3, AppendNumbers
<1>5. Partition(Numbers(o, c), Numbers(u2, c), Numbers(t, c), Numbers(d, c),
                Numbers(g, c), 1 .. n + 1)
  <2>1. PICK U : U = 1 .. n
    OBVIOUS
  <2>2. PICK U2 : U2 = 1 .. n + 1
    OBVIOUS
  <2>3. PICK x : x = m.n
    OBVIOUS
  <2>4. x \notin U /\ U2 = U \cup {x} /\ Numbers(u2, c) = Numbers(u, c) \cup {x}
    BY <1>2, <1>4, <2>1, <2>2, <2>3
  <2>5. Partition(Numbers(o, c), Numbers(u, c), Numbers(t, c), Numbers(d, c),
                  Numbers(g, c), U)
    BY <1>1, <2>1
  <2> QED
    BY <2>2, <2>4, <2>5, AddB
<1> QED
  BY <1>2, <1>4, <1>5 DEF Conserved

(* A pongspam makes b messages at once.                                    *)
LEMMA ConservedLine ==
  ASSUME NEW c, NEW o \in Seq(Msg), NEW u, NEW t, NEW d, NEW g, NEW n \in Nat,
         Conserved(c, o, u, t, d, g, n), NEW b \in Nat, NEW s \in Seq(Msg), Len(s) = b,
         \A k \in 1 .. b : s[k].from = c /\ s[k].n = n + k, NEW o2, o2 = o \o s
  PROVE  Conserved(c, o2, u, t, d, g, n + b)
<1>1. Partition(Numbers(o, c), Numbers(u, c), Numbers(t, c), Numbers(d, c),
                Numbers(g, c), 1 .. n) /\ Once(o, c)
  BY DEF Conserved
<1>2. PICK l \in Nat : l = Len(o)
  OBVIOUS
<1>3. /\ Len(o2) = l + b
      /\ \A k \in 1 .. l : o2[k] = o[k]
      /\ \A k \in l + 1 .. l + b : o2[k] = s[k - l] /\ k - l \in 1 .. b
  <2>0. /\ Len(o2) = l + b
        /\ \A i \in 1 .. l + b : o2[i] = IF i <= l THEN o[i] ELSE s[i - l]
    BY <1>2, ConcatProperties
  <2>1. Len(o2) = l + b
    BY <2>0
  <2>2. \A k \in 1 .. l : o2[k] = o[k]
    BY <2>0
  <2>3. \A k \in l + 1 .. l + b : o2[k] = s[k - l]
    BY <2>0
  <2>4. \A k \in l + 1 .. l + b : k - l \in 1 .. b
    OBVIOUS
  <2> QED
    BY <2>1, <2>2, <2>3, <2>4
<1>4. \A k \in l + 1 .. l + b : o2[k].from = c /\ o2[k].n = n + (k - l)
  BY <1>3
<1>5. \A k \in 1 .. l + b : k \in 1 .. l \/ k \in l + 1 .. l + b
  OBVIOUS
<1>a. \A k \in l + 1 .. l + b : n + (k - l) \notin 1 .. n /\ n + (k - l) \in n + 1 .. n + b
  OBVIOUS
<1>6. \A k \in 1 .. l : o2[k].from = c => o2[k].n \in 1 .. n
  <2> SUFFICES ASSUME NEW k \in 1 .. l, o[k].from = c PROVE o[k].n \in 1 .. n
    BY <1>3
  <2>1. o[k].n \in Numbers(o, c)
    BY <1>2, NumberIn
  <2> QED
    BY <1>1, <2>1 DEF Partition
<1>7. Once(o2, c)
  <2> SUFFICES ASSUME NEW j \in 1 .. l + b, NEW k \in 1 .. l + b,
                      o2[j].from = c, o2[k].from = c, o2[j].n = o2[k].n
               PROVE  j = k
    BY <1>3 DEF Once
  <2>1. CASE j \in 1 .. l /\ k \in 1 .. l
    <3>1. o[j].from = c /\ o[k].from = c /\ o[j].n = o[k].n
      BY <1>3, <2>1
    <3> QED
      BY <1>1, <1>2, <2>1, <3>1 DEF Once
  <2>2. CASE j \in 1 .. l /\ k \in l + 1 .. l + b
    <3>1. o2[j].n \in 1 .. n /\ o2[k].n = n + (k - l) /\ n + (k - l) \notin 1 .. n
      BY <1>4, <1>6, <1>a, <2>2, Zenon
    <3> QED
      BY <3>1
  <2>3. CASE j \in l + 1 .. l + b /\ k \in 1 .. l
    <3>1. o2[k].n \in 1 .. n /\ o2[j].n = n + (j - l) /\ n + (j - l) \notin 1 .. n
      BY <1>4, <1>6, <1>a, <2>3, Zenon
    <3> QED
      BY <3>1
  <2>4. CASE j \in l + 1 .. l + b /\ k \in l + 1 .. l + b
    BY <1>4, <2>4, SMTT(30)
  <2> QED
    BY <1>5, <2>1, <2>2, <2>3, <2>4
<1>8. \A x \in Numbers(o2, c) : x \in Numbers(o, c) \/ x \in n + 1 .. n + b
  <2> SUFFICES ASSUME NEW k \in 1 .. l + b, o2[k].from = c
               PROVE  o2[k].n \in Numbers(o, c) \/ o2[k].n \in n + 1 .. n + b
    BY <1>3 DEF Numbers
  <2>1. CASE k \in 1 .. l
    BY <1>2, <1>3, <2>1, NumberIn
  <2>2. CASE k \in l + 1 .. l + b
    <3>1. o2[k].n = n + (k - l) /\ n + (k - l) \in n + 1 .. n + b
      BY <1>4, <1>a, <2>2, Zenon
    <3> QED
      BY <3>1
  <2> QED
    BY <1>5, <2>1, <2>2
<1>9. \A x \in Numbers(o, c) : x \in Numbers(o2, c)
  <2> SUFFICES ASSUME NEW k \in 1 .. l, o[k].from = c PROVE o[k].n \in Numbers(o2, c)
    BY <1>2 DEF Numbers
  <2>1. k \in 1 .. Len(o2) /\ o2[k] = o[k]
    BY <1>3
  <2> QED
    BY <2>1 DEF Numbers
<1>10. \A x \in n + 1 .. n + b : x \in Numbers(o2, c)
  <2> SUFFICES ASSUME NEW x \in n + 1 .. n + b PROVE x \in Numbers(o2, c)
    OBVIOUS
  <2>1. PICK k \in l + 1 .. l + b : n + (k - l) = x
    <3>1. x - n + l \in l + 1 .. l + b /\ n + ((x - n + l) - l) = x
      OBVIOUS
    <3> QED
      BY <3>1
  <2>2. o2[k].from = c /\ o2[k].n = x
    BY <1>4, <2>1
  <2>3. k \in 1 .. Len(o2)
    BY <1>3
  <2> QED
    BY <2>2, <2>3 DEF Numbers
<1>11. Numbers(o2, c) = Numbers(o, c) \cup (n + 1 .. n + b)
  BY <1>8, <1>9, <1>10
<1>12. /\ \A x \in n + 1 .. n + b : x \notin 1 .. n
       /\ (1 .. n) \cup (n + 1 .. n + b) = 1 .. n + b
  OBVIOUS
<1>13. Partition(Numbers(o2, c), Numbers(u, c), Numbers(t, c), Numbers(d, c),
                 Numbers(g, c), 1 .. n + b)
  <2>1. PICK U : U = 1 .. n
    OBVIOUS
  <2>2. PICK U2 : U2 = 1 .. n + b
    OBVIOUS
  <2>3. PICK X : X = n + 1 .. n + b
    OBVIOUS
  <2>4. /\ \A x \in X : x \notin U
        /\ U2 = U \cup X /\ Numbers(o2, c) = Numbers(o, c) \cup X
    BY <1>11, <1>12, <2>1, <2>2, <2>3
  <2>5. Partition(Numbers(o, c), Numbers(u, c), Numbers(t, c), Numbers(d, c),
                  Numbers(g, c), U)
    BY <1>1, <2>1
  <2> QED
    BY <2>2, <2>4, <2>5, GrowA
<1> QED
  BY <1>7, <1>12, <1>13 DEF Conserved

(* A client that connects has made nothing.                                *)
LEMMA ConservedStart ==
  ASSUME NEW c, NEW t, \A k \in 1 .. Len(t) : t[k].from # c
  PROVE  Conserved(c, <<>>, <<>>, t, <<>>, <<>>, 0)
<1>1. Numbers(t, c) = {} /\ Once(t, c)
  BY DEF Numbers, Once
<1>2. Numbers(<<>>, c) = {} /\ Once(<<>>, c)
  BY EmptyNumbers
<1>3. 1 .. 0 = {}
  OBVIOUS
<1>4. Partition({}, {}, {}, {}, {}, {})
  BY DEF Partition
<1> QED
  BY <1>1, <1>2, <1>3, <1>4 DEF Conserved

-----------------------------------------------------------------------------
(* What a step that does not concern a client leaves of it.                *)

Same(c) ==
  /\ pc'[c] = pc[c] /\ conns'[c] = conns[c] /\ tx'[c] = tx[c]
  /\ asked'[c] = asked[c] /\ up'[c] = up[c] /\ down'[c] = down[c]
  /\ cliEnd'[c] = cliEnd[c] /\ srvEnd'[c] = srvEnd[c] /\ got'[c] = got[c]

LEMMA ClientKept ==
  ASSUME NEW c \in Client, ClientOK(c), Same(c)
  PROVE  ClientOK(c)'
BY DEF ClientOK, Same

LEMMA SameForItself ==
  ASSUME NEW t, NEW c
  PROVE  SameFor(t, t, c)
BY DEF SameFor

LEMMA ServedKept ==
  ASSUME NEW c \in Client, ServedOK(c), Same(c), SameFor(srv.tx, srv'.tx, c),
         (Among(srv.conns, c) \/ Among(backlog, c))
           <=> (Among(srv'.conns, c) \/ Among(backlog', c))
  PROVE  ServedOK(c)'
<1>1. /\ pc'[c] = pc[c] /\ tx'[c] = tx[c] /\ asked'[c] = asked[c] /\ up'[c] = up[c]
      /\ down'[c] = down[c] /\ cliEnd'[c] = cliEnd[c] /\ srvEnd'[c] = srvEnd[c]
      /\ got'[c] = got[c]
  BY DEF Same
<1>2. LinkOK(c, srv'.conns, backlog', cliEnd'[c], srvEnd'[c])
  BY <1>1 DEF ServedOK, LinkOK
<1>3. ASSUME c \in Pong
      PROVE  pc'[c] # "failed" /\ WayOK(c, pc'[c], up'[c], srv'.tx, down'[c])
  <2>1. pc[c] # "failed" /\ WayOK(c, pc[c], up[c], srv.tx, down[c])
    BY <1>3 DEF ServedOK
  <2>2. WayOK(c, pc[c], up[c], srv'.tx, down[c])
    BY <2>1, SameKeeps
  <2> QED
    BY <1>1, <2>1, <2>2
<1>4. LeftOK(c, pc'[c], cliEnd'[c])
  BY <1>1 DEF ServedOK
<1>5. ASSUME cliEnd'[c] = "up"
      PROVE  Conserved(c, tx'[c], up'[c], srv'.tx, down'[c], got'[c], asked'[c])
  <2>1. Conserved(c, tx[c], up[c], srv.tx, down[c], got[c], asked[c])
    BY <1>1, <1>5 DEF ServedOK
  <2>2. Conserved(c, tx[c], up[c], srv'.tx, down[c], got[c], asked[c])
    BY <2>1, SameKeeps
  <2> QED
    BY <1>1, <2>2
<1> QED
  BY <1>2, <1>3, <1>4, <1>5 DEF ServedOK

(* What poll(2) reported stays true when the clients take steps.           *)
LEMMA TurnKept ==
  ASSUME Types, TurnOK(srv, backlog, up, cliEnd), srv' = srv,
         backlog # <<>> => backlog' # <<>>,
         \A c \in Client : Among(srv.conns, c) /\ Readable(up[c], cliEnd[c])
                            => Readable(up'[c], cliEnd'[c])
  PROVE  TurnOK(srv, backlog, up, cliEnd)'
<1> SUFFICES ASSUME srv.turn.act # "none"
             PROVE  TurnOK(srv, backlog, up, cliEnd)'
  BY DEF TurnOK
<1>1. srv.turn.i \in 1 .. Len(srv.conns) /\ srv.conns \in Seq(Client \cup {"listen"})
  BY DEF TurnOK, Types, Pongd
<1>2. PICK c \in Client \cup {"listen"} : c = srv.conns[srv.turn.i]
  BY <1>1
<1>a. Among(srv.conns, c)
  BY <1>1, <1>2 DEF Among
<1>3. srv.turn.act = "read" => c \in Client /\ Readable(up[c], cliEnd[c])
  BY <1>2 DEF TurnOK
<1>4. srv.turn.act = "read" => Readable(up'[c], cliEnd'[c])
  BY <1>3, <1>a
<1> QED
  BY <1>1, <1>2, <1>4 DEF TurnOK

(* A step of client c, which leaves pongd and its queue alone.             *)
LEMMA ClientStep ==
  ASSUME EInv, NEW c \in Client, srv' = srv, backlog' = backlog, Types',
         \A d \in Client : d # c => Same(d),
         ClientOK(c)', srv.state = "up" => ServedOK(c)',
         Readable(up[c], cliEnd[c]) => Readable(up'[c], cliEnd'[c])
  PROVE  EInv'
<1>1. Types /\ (\A d \in Client : ClientOK(d))
      /\ (srv.state = "up" => Serving)
  BY DEF EInv
<1>2. ASSUME NEW d \in Client PROVE ClientOK(d)'
  BY <1>1, ClientKept
<1>3. ASSUME srv.state = "up" PROVE Serving'
  <2>1. ArrayOK(srv.conns, backlog)' /\ AnswersOK(srv.conns, srv.tx)'
    BY <1>1, <1>3 DEF Serving
  <2>2. \A d \in Client : Readable(up[d], cliEnd[d]) => Readable(up'[d], cliEnd'[d])
    <3>1. ASSUME NEW d \in Client, d # c
          PROVE  up'[d] = up[d] /\ cliEnd'[d] = cliEnd[d]
      BY <3>1 DEF Same
    <3> QED
      BY <3>1
  <2>3. TurnOK(srv, backlog, up, cliEnd)'
    BY <1>1, <1>3, <2>2, TurnKept DEF Serving
  <2>4. ASSUME NEW d \in Client PROVE ServedOK(d)'
    <3>1. CASE d = c
      BY <1>3, <3>1
    <3>2. CASE d # c
      <4>1. ServedOK(d) /\ Same(d)
        BY <1>1, <1>3, <3>2 DEF Serving
      <4>2. SameFor(srv.tx, srv'.tx, d)
        BY SameForItself
      <4> QED
        BY <4>1, <4>2, ServedKept
    <3> QED
      BY <3>1, <3>2
  <2> QED
    BY <2>1, <2>3, <2>4 DEF Serving
<1> QED
  BY <1>2, <1>3 DEF EInv

-----------------------------------------------------------------------------
(* The steps of the clients.                                               *)

(* The process of a client ends.  As long as pongd runs, that of a pong    *)
(* does so with nothing on its way, unless a signal ends it.               *)
LEMMA EndClientKeeps ==
  ASSUME EInv, NEW c \in Client, NEW st \in {"done", "failed", "killed"}, EndClient(c, st),
         pc[c] \in {"write", "read", "close"} \cup Active,
         srv.state = "up" /\ c \in Pong => st = "killed" \/ (st = "done" /\ pc[c] # "read")
  PROVE  EInv'
<1>1. /\ Types /\ ClientOK(c)
      /\ srv.state = "up" => ServedOK(c)
  BY DEF EInv, Serving
<1>2. PICK e \in Ends :
        /\ cliEnd' = [cliEnd EXCEPT ![c] = e]
        /\ e = IF cliEnd[c] = "up" THEN IF down[c] # <<>> THEN "reset" ELSE "gone"
                                   ELSE cliEnd[c]
  BY <1>1 DEF EndClient, Types, Ends
<1>3. /\ pc' = [pc EXCEPT ![c] = st] /\ down' = [down EXCEPT ![c] = <<>>]
      /\ srv' = srv /\ backlog' = backlog /\ conns' = conns /\ tx' = tx
      /\ asked' = asked /\ up' = up /\ srvEnd' = srvEnd /\ got' = got
  BY DEF EndClient
<1>4. Types'
  <2>1. pc' \in [Client -> Steps] /\ down' \in [Client -> Seq(Msg)]
        /\ cliEnd' \in [Client -> Ends]
    BY <1>1, <1>2, <1>3 DEF Types, Steps
  <2> QED
    BY <1>1, <1>3, <2>1 DEF Types
<1>5. ASSUME NEW d \in Client, d # c PROVE Same(d)
  BY <1>1, <1>2, <1>3, <1>5 DEF Same, Types
<1>6. pc'[c] = st /\ down'[c] = <<>> /\ cliEnd'[c] = e
  BY <1>1, <1>2, <1>3 DEF Types
<1>7. cliEnd[c] # "none" /\ e # "up" /\ e # "none"
  <2>1. c \in Pong \/ c \in Spam
    BY DEF Client
  <2>2. c \in Pong => cliEnd[c] = "up"
    BY <1>1 DEF ClientOK, PongOK, Active
  <2>3. c \in Spam => cliEnd[c] \in {"up", "gone"}
    BY <1>1 DEF ClientOK, SpamOK, Active
  <2> QED
    BY <1>2, <2>1, <2>2, <2>3
<1>8. ClientOK(c)'
  <2>1. From(down'[c], c)
    BY <1>6 DEF From
  <2>2. c \in Pong => PongOK(pc'[c], cliEnd'[c], tx'[c])
    BY <1>1, <1>3, <1>6, <1>7 DEF ClientOK, PongOK
  <2>3. c \in Spam => SpamOK(pc'[c], cliEnd'[c], conns'[c], tx'[c])
    BY <1>6, <1>7 DEF SpamOK, Active
  <2> QED
    BY <1>1, <1>3, <1>6, <1>7, <2>1, <2>2, <2>3 DEF ClientOK
<1>9. ASSUME srv.state = "up" PROVE ServedOK(c)'
  <2>1. ServedOK(c)
    BY <1>1, <1>9
  <2>2. ASSUME c \in Pong
        PROVE  /\ e = "reset" => st = "killed"
               /\ st # "failed" /\ WayOK(c, st, up[c], srv.tx, <<>>)
    <3>1. WayOK(c, pc[c], up[c], srv.tx, down[c]) /\ Len(<<>>) <= 1
      BY <2>1, <2>2 DEF ServedOK
    <3>2. cliEnd[c] = "up"
      BY <1>1, <2>2 DEF ClientOK, PongOK, Active
    <3>3. CASE st = "killed"
      BY <3>1, <3>3 DEF WayOK
    <3>4. CASE st = "done" /\ pc[c] # "read"
      <4>1. pc[c] # "killed"
        BY DEF Active
      <4>2. up[c] = <<>> /\ down[c] = <<>> /\ ~HasMessage(srv.tx, c) /\ Single(srv.tx, c)
        BY <3>1, <3>4, <4>1 DEF WayOK
      <4>3. e = "gone"
        BY <1>2, <3>2, <4>2
      <4>4. WayOK(c, st, <<>>, srv.tx, <<>>)
        BY <3>1, <3>4, <4>2 DEF WayOK
      <4> QED
        BY <3>4, <4>2, <4>3, <4>4
    <3> QED
      BY <1>9, <2>2, <3>3, <3>4
  <2>3. LinkOK(c, srv'.conns, backlog', cliEnd'[c], srvEnd'[c])
    <3>1. LinkOK(c, srv.conns, backlog, cliEnd[c], srvEnd[c])
      BY <2>1 DEF ServedOK
    <3> QED
      BY <1>3, <1>6, <1>7, <3>1 DEF LinkOK
  <2>4. LeftOK(c, pc'[c], cliEnd'[c])
    BY <1>6, <2>2 DEF LeftOK
  <2>5. c \in Pong => pc'[c] # "failed" /\ WayOK(c, pc'[c], up'[c], srv'.tx, down'[c])
    BY <1>3, <1>6, <2>2
  <2> QED
    BY <1>6, <1>7, <2>3, <2>4, <2>5 DEF ServedOK
<1>10. Readable(up[c], cliEnd[c]) => Readable(up'[c], cliEnd'[c])
  BY <1>3, <1>6, <1>7 DEF Readable
<1>11. srv' = srv /\ backlog' = backlog
  BY <1>3
<1> QED
  BY <1>4, <1>5, <1>8, <1>9, <1>10, <1>11, ClientStep

LEMMA KillKeeps ==
  ASSUME EInv, NEW c \in Signalled, Kill(c)
  PROVE  EInv'
<1>1. c \in Client
  BY SignalledAssumption
<1>2. pc[c] \in Steps /\ pc[c] \notin {"start", "done", "failed", "killed"}
  BY <1>1 DEF EInv, Types, Kill
<1>3. pc[c] \in {"write", "read", "close"} \cup Active /\ EndClient(c, "killed")
  BY <1>2 DEF Steps, Kill
<1> QED
  BY <1>1, <1>3, EndClientKeeps

(* The list of pongd and the ends, for a client of a running pongd.        *)
LEMMA UpEnd ==
  ASSUME NEW c \in Client, ServedOK(c), cliEnd[c] = "up"
  PROVE  srvEnd[c] = "up"
BY DEF ServedOK, LinkOK

LEMMA PongWriteKeeps ==
  ASSUME EInv, NEW c \in Pong, PongWrite(c)
  PROVE  EInv'
<1>0. c \in Client /\ pc[c] = "write"
  BY DEF Client, PongWrite
<1>1. /\ Types /\ ClientOK(c)
      /\ srv.state = "up" => ServedOK(c)
  BY <1>0 DEF EInv, Serving
<1>2. cliEnd[c] = "up" /\ c \notin Spam
  BY <1>0, <1>1, ClientAssumption DEF ClientOK, PongOK
<1>3. CASE srvEnd[c] # "up"
  <2>1. EndClient(c, "failed")
    BY <1>3 DEF PongWrite
  <2>2. srv.state # "up"
    BY <1>0, <1>1, <1>2, <1>3, UpEnd
  <2> QED
    BY <1>0, <2>1, <2>2, EndClientKeeps
<1>4. CASE srvEnd[c] = "up"
  <2>1. PICK n \in Nat : n = asked[c]
    BY <1>0, <1>1 DEF Types
  <2>a. Message(c, n + 1, "sock") \in Msg
    BY <1>0 DEF Message, Msg, Kinds
  <2>2. PICK m \in Msg : m = Message(c, n + 1, "sock")
    BY <2>a
  <2>3. m.from = c /\ m.n = n + 1
    BY <2>2 DEF Message
  <2>4. PICK u \in Seq(Msg) : u = up[c]
    BY <1>0, <1>1 DEF Types
  <2>b. Append(u, m) \in Seq(Msg)
    OBVIOUS
  <2>5. PICK u2 \in Seq(Msg) : u2 = Append(u, m)
    BY <2>b
  <2>6. /\ up' = [up EXCEPT ![c] = u2] /\ asked' = [asked EXCEPT ![c] = n + 1]
        /\ pc' = [pc EXCEPT ![c] = "read"]
        /\ srv' = srv /\ backlog' = backlog /\ conns' = conns /\ tx' = tx
        /\ down' = down /\ cliEnd' = cliEnd /\ srvEnd' = srvEnd /\ got' = got
    BY <1>4, <2>1, <2>2, <2>4, <2>5 DEF PongWrite
  <2>7. Types'
    <3>1. up' \in [Client -> Seq(Msg)] /\ asked' \in [Client -> Nat] /\ pc' \in [Client -> Steps]
      BY <1>0, <1>1, <2>6 DEF Types, Steps
    <3> QED
      BY <1>1, <2>6, <3>1 DEF Types
  <2>8. ASSUME NEW d \in Client, d # c PROVE Same(d)
    BY <1>1, <2>6, <2>8 DEF Same, Types
  <2>9. up'[c] = u2 /\ asked'[c] = n + 1 /\ pc'[c] = "read"
    BY <1>0, <1>1, <2>6 DEF Types
  <2>10. From(u2, c)
    BY <1>1, <2>3, <2>4, <2>5 DEF ClientOK, From
  <2>11. ClientOK(c)'
    <3>1. PongOK("read", cliEnd[c], tx[c])
      BY <1>1, <1>2 DEF ClientOK, PongOK
    <3> QED
      BY <1>1, <1>2, <2>6, <2>9, <2>10, <3>1 DEF ClientOK
  <2>12. ASSUME srv.state = "up" PROVE ServedOK(c)'
    <3>1. ServedOK(c)
      BY <1>1, <2>12
    <3>2. WayOK(c, pc[c], u, srv.tx, down[c])
      BY <2>4, <3>1 DEF ServedOK
    <3>3. u = <<>> /\ ~HasMessage(srv.tx, c) /\ down[c] = <<>> /\ Single(srv.tx, c)
      BY <1>0, <3>2 DEF WayOK
    <3>4. Len(u2) = 1 /\ u2 # <<>>
      BY <2>5, <3>3
    <3>5. WayOK(c, "read", u2, srv.tx, <<>>)
      BY <3>3, <3>4 DEF WayOK
    <3>6. Conserved(c, tx[c], u, srv.tx, down[c], got[c], n)
      BY <1>2, <2>1, <2>4, <3>1 DEF ServedOK
    <3>7. Conserved(c, tx[c], u2, srv.tx, down[c], got[c], n + 1)
      BY <2>3, <2>5, <3>6, ConservedMade
    <3>8. LinkOK(c, srv.conns, backlog, cliEnd[c], srvEnd[c])
      BY <3>1 DEF ServedOK
    <3>9. /\ LinkOK(c, srv'.conns, backlog', cliEnd'[c], srvEnd'[c])
          /\ WayOK(c, pc'[c], up'[c], srv'.tx, down'[c])
          /\ Conserved(c, tx'[c], up'[c], srv'.tx, down'[c], got'[c], asked'[c])
      BY <2>6, <2>9, <3>3, <3>5, <3>7, <3>8
    <3>10. pc'[c] # "failed" /\ LeftOK(c, pc'[c], cliEnd'[c])
      BY <1>2, <2>6, <2>9 DEF LeftOK
    <3> QED
      BY <3>9, <3>10 DEF ServedOK
  <2>13. Readable(up'[c], cliEnd'[c])
    <3>1. u2 # <<>>
      BY <2>5
    <3> QED
      BY <2>9, <3>1 DEF Readable
  <2>14. srv' = srv /\ backlog' = backlog
    BY <2>6
  <2> QED
    BY <1>0, <2>7, <2>8, <2>11, <2>12, <2>13, <2>14, ClientStep
<1> QED
  BY <1>3, <1>4

(* A queue is empty, or has one message, or more.                          *)
LEMMA QueueCases ==
  ASSUME NEW q \in Seq(Msg)
  PROVE  /\ q = <<>> \/ Len(q) = 1 \/ Len(q) > 1
         /\ q = <<>> => Len(q) # 1 /\ ~(Len(q) > 1)
         /\ Len(q) = 1 => ~(Len(q) > 1) /\ Len(q) <= 1
         /\ Len(q) > 1 => ~(Len(q) <= 1)
<1>1. PICK n \in Nat : n = Len(q)
  OBVIOUS
<1>2. q # <<>> => n # 0
  BY <1>1, EmptySeq
<1>3. q = <<>> => n = 0
  BY <1>1, EmptySeq
<1>4. /\ n = 0 \/ n = 1 \/ n > 1
      /\ n = 0 => n # 1 /\ ~(n > 1)
      /\ n = 1 => ~(n > 1) /\ n <= 1
      /\ n > 1 => ~(n <= 1)
  OBVIOUS
<1> QED
  BY <1>1, <1>2, <1>3, <1>4, Zenon

(* What is read in whole is one message.                                   *)
LEMMA ReadFacts ==
  ASSUME NEW q \in Seq(Msg), NEW e
  PROVE  /\ ReadOutcome(q, e) = "message" => Len(q) = 1
         /\ Len(q) = 1 => ReadOutcome(q, e) = "message"
         /\ ReadOutcome(q, e) = "closed" => q = <<>> /\ e = "gone"
         /\ ReadOutcome(q, e) = "parsing" => Len(q) > 1
         /\ ReadOutcome(q, e) = "error" => q = <<>> /\ e # "gone"
         /\ ReadOutcome(q, e) \in {"message", "closed", "parsing", "error"}
<1>1. CASE Len(q) = 1
  <2>1. ReadOutcome(q, e) = "message" /\ ~(Len(q) > 1)
    BY <1>1, QueueCases DEF ReadOutcome
  <2> QED
    BY <1>1, <2>1
<1>2. CASE Len(q) > 1
  <2>1. q # <<>> /\ Len(q) # 1
    BY <1>2, QueueCases
  <2>2. ReadOutcome(q, e) = "parsing"
    BY <1>2, <2>1 DEF ReadOutcome
  <2> QED
    BY <1>2, <2>1, <2>2
<1>3. CASE q = <<>>
  <2>1. Len(q) # 1 /\ ~(Len(q) > 1)
    BY <1>3, QueueCases
  <2>2. e = "gone" => ReadOutcome(q, e) = "closed"
    BY <1>3, <2>1 DEF ReadOutcome
  <2>3. e # "gone" => ReadOutcome(q, e) = "error"
    BY <1>3, <2>1 DEF ReadOutcome
  <2> QED
    BY <1>3, <2>1, <2>2, <2>3
<1> QED
  BY <1>1, <1>2, <1>3, QueueCases

(* A client takes the one message of its socket: the application is given  *)
(* it, and the client goes on at step p.                                   *)
LEMMA GotKeeps ==
  ASSUME EInv, NEW c \in Client, Len(down[c]) = 1, cliEnd[c] = "up",
         got' = [got EXCEPT ![c] = @ \o down[c]], down' = [down EXCEPT ![c] = <<>>],
         NEW p \in Steps, pc' = [pc EXCEPT ![c] = p],
         c \in Pong => pc[c] = "read" /\ p \in {"write", "close"},
         c \in Spam => p = "wait",
         UNCHANGED <<srv, backlog, conns, tx, asked, up, cliEnd, srvEnd>>
  PROVE  EInv'
<1>1. /\ Types /\ ClientOK(c)
      /\ srv.state = "up" => ServedOK(c)
  BY DEF EInv, Serving
<1>2. PICK d \in Seq(Msg) : d = down[c]
  BY <1>1 DEF Types
<1>3. PICK g \in Seq(Msg) : g = got[c]
  BY <1>1 DEF Types
<1>a. d[1] \in Msg /\ d[1].from = c /\ Len(d) = 1
  BY <1>1, <1>2 DEF ClientOK, From
<1>b. g \o d \in Seq(Msg) /\ Len(g \o d) = Len(g) + 1
      /\ \A k \in 1 .. Len(g) + 1 : (g \o d)[k] = IF k <= Len(g) THEN g[k] ELSE d[k - Len(g)]
  <2>1. /\ g \o d \in Seq(Msg) /\ Len(g \o d) = Len(g) + Len(d)
        /\ \A k \in 1 .. Len(g) + Len(d) :
             (g \o d)[k] = IF k <= Len(g) THEN g[k] ELSE d[k - Len(g)]
    BY ConcatProperties
  <2> QED
    BY <1>a, <2>1
<1>4. PICK g2 \in Seq(Msg) : g2 = g \o d
  BY <1>b
<1>5. /\ got' = [got EXCEPT ![c] = g2] /\ down' = [down EXCEPT ![c] = <<>>]
      /\ srv' = srv /\ backlog' = backlog /\ conns' = conns /\ tx' = tx
      /\ asked' = asked /\ up' = up /\ cliEnd' = cliEnd /\ srvEnd' = srvEnd
  BY <1>1, <1>2, <1>3, <1>4 DEF Types
<1>6. Types'
  <2>1. got' \in [Client -> Seq(Msg)] /\ down' \in [Client -> Seq(Msg)] /\ pc' \in [Client -> Steps]
    BY <1>1, <1>5 DEF Types
  <2> QED
    BY <1>1, <1>5, <2>1 DEF Types
<1>7. ASSUME NEW b \in Client, b # c PROVE Same(b)
  BY <1>1, <1>5, <1>7 DEF Same, Types
<1>8. got'[c] = g2 /\ down'[c] = <<>> /\ pc'[c] = p
  BY <1>1, <1>5 DEF Types
<1>9. From(g2, c)
  <2> SUFFICES ASSUME NEW k \in 1 .. Len(g2) PROVE g2[k].from = c
    BY DEF From
  <2>1. Len(g) \in Nat /\ k \in 1 .. Len(g) + 1
    BY <1>b, <1>4
  <2>2. CASE k <= Len(g)
    BY <1>1, <1>3, <1>4, <1>b, <2>1, <2>2 DEF ClientOK, From
  <2>3. CASE ~(k <= Len(g))
    <3>1. k - Len(g) = 1
      BY <2>1, <2>3
    <3> QED
      BY <1>4, <1>a, <1>b, <2>1, <2>3, <3>1
  <2> QED
    BY <2>2, <2>3
<1>10. ClientOK(c)'
  <2>1. c \in Pong => PongOK(pc'[c], cliEnd'[c], tx'[c])
    BY <1>1, <1>5, <1>8 DEF ClientOK, PongOK
  <2>2. c \in Spam => SpamOK(pc'[c], cliEnd'[c], conns'[c], tx'[c])
    BY <1>1, <1>5, <1>8 DEF ClientOK, SpamOK, Active
  <2>3. From(down'[c], c)
    BY <1>8 DEF From
  <2>4. p # "start"
    BY DEF Client
  <2> QED
    BY <1>1, <1>5, <1>8, <1>9, <2>1, <2>2, <2>3, <2>4 DEF ClientOK
<1>11. ASSUME srv.state = "up" PROVE ServedOK(c)'
  <2>1. ServedOK(c)
    BY <1>1, <1>11
  <2>2. LinkOK(c, srv.conns, backlog, cliEnd[c], srvEnd[c])
        /\ Conserved(c, tx[c], up[c], srv.tx, d, g, asked[c])
    BY <1>2, <1>3, <2>1 DEF ServedOK
  <2>3. Conserved(c, tx[c], up[c], srv.tx, <<>>, g2, asked[c])
    BY <1>4, <1>a, <2>2, ConservedGot
  <2>4. ASSUME c \in Pong
        PROVE  pc'[c] # "failed" /\ WayOK(c, pc'[c], up'[c], srv'.tx, down'[c])
    <3>1. WayOK(c, "read", up[c], srv.tx, d)
      BY <1>2, <2>1, <2>4 DEF ServedOK
    <3>2. d # <<>>
      BY <1>a, QueueCases
    <3>3. WayOK(c, p, up[c], srv.tx, <<>>) /\ p # "failed"
      BY <2>4, <3>1, <3>2 DEF WayOK
    <3> QED
      BY <1>5, <1>8, <3>3
  <2>5. /\ LinkOK(c, srv'.conns, backlog', cliEnd'[c], srvEnd'[c])
        /\ Conserved(c, tx'[c], up'[c], srv'.tx, down'[c], got'[c], asked'[c])
    BY <1>5, <1>8, <2>2, <2>3
  <2>6. LeftOK(c, pc'[c], cliEnd'[c])
    BY <1>5 DEF LeftOK
  <2> QED
    BY <2>4, <2>5, <2>6 DEF ServedOK
<1>12. /\ srv' = srv /\ backlog' = backlog /\ up'[c] = up[c]
       /\ cliEnd'[c] = cliEnd[c]
  BY <1>5
<1> QED
  BY <1>6, <1>7, <1>10, <1>11, <1>12, ClientStep

LEMMA PongReadKeeps ==
  ASSUME EInv, NEW c \in Pong, PongRead(c)
  PROVE  EInv'
<1>0. c \in Client /\ pc[c] = "read" /\ Readable(down[c], srvEnd[c]) /\ c \notin Spam
  BY ClientAssumption DEF Client, PongRead
<1>1. /\ Types /\ ClientOK(c)
      /\ srv.state = "up" => ServedOK(c)
  BY <1>0 DEF EInv, Serving
<1>2. cliEnd[c] = "up"
  BY <1>0, <1>1 DEF ClientOK, PongOK
<1>3. down[c] \in Seq(Msg)
  BY <1>0, <1>1 DEF Types
<1>4. CASE ReadOutcome(down[c], srvEnd[c]) = "message"
  <2>1. Len(down[c]) = 1
    BY <1>3, <1>4, ReadFacts
  <2>2. PICK p \in {"write", "close"} : p = IF asked[c] < Rounds THEN "write" ELSE "close"
    OBVIOUS
  <2>3. /\ got' = [got EXCEPT ![c] = @ \o down[c]] /\ down' = [down EXCEPT ![c] = <<>>]
        /\ pc' = [pc EXCEPT ![c] = p]
        /\ UNCHANGED <<srv, backlog, conns, tx, asked, up, cliEnd, srvEnd>>
    BY <1>4, <2>2 DEF PongRead
  <2>4. p \in Steps
    BY DEF Steps
  <2> QED
    BY <1>0, <1>2, <2>1, <2>3, <2>4, GotKeeps
<1>5. CASE ReadOutcome(down[c], srvEnd[c]) # "message"
  <2>1. EndClient(c, "failed")
    BY <1>5 DEF PongRead
  <2>2. ASSUME srv.state = "up" PROVE FALSE
    <3>1. ServedOK(c) /\ srvEnd[c] = "up"
      BY <1>0, <1>1, <1>2, <2>2, UpEnd
    <3>2. down[c] # <<>> /\ Len(down[c]) <= 1
      BY <1>0, <3>1 DEF Readable, ServedOK, WayOK
    <3>3. Len(down[c]) = 1
      BY <1>3, <3>2, QueueCases
    <3> QED
      BY <1>3, <1>5, <3>3, ReadFacts
  <2> QED
    BY <1>0, <2>1, <2>2, EndClientKeeps
<1> QED
  BY <1>4, <1>5

LEMMA PongCloseKeeps ==
  ASSUME EInv, NEW c \in Pong, PongClose(c)
  PROVE  EInv'
BY EndClientKeeps DEF PongClose, Client

LEMMA SpamQuitKeeps ==
  ASSUME EInv, NEW c \in Spam, SpamQuit(c)
  PROVE  EInv'
BY EndClientKeeps, ClientAssumption DEF SpamQuit, Client, Active

(* A pongspam only goes to another step.                                   *)
LEMMA StepKeeps ==
  ASSUME EInv, NEW c \in Spam, NEW p \in Active, pc' = [pc EXCEPT ![c] = p],
         SpamOK(p, cliEnd[c], conns[c], tx[c]),
         UNCHANGED <<srv, conns, tx, asked, got, net>>
  PROVE  EInv'
<1>0. c \in Client /\ c \notin Pong
  BY ClientAssumption DEF Client
<1>1. /\ Types /\ ClientOK(c)
      /\ srv.state = "up" => ServedOK(c)
  BY <1>0 DEF EInv, Serving
<1>2. /\ srv' = srv /\ backlog' = backlog /\ conns' = conns /\ tx' = tx
      /\ asked' = asked /\ up' = up /\ down' = down /\ cliEnd' = cliEnd
      /\ srvEnd' = srvEnd /\ got' = got
  BY DEF net
<1>3. pc' \in [Client -> Steps] /\ pc'[c] = p
  BY <1>0, <1>1 DEF Types, Steps
<1>4. Types'
  BY <1>1, <1>2, <1>3 DEF Types
<1>5. ASSUME NEW d \in Client, d # c PROVE Same(d)
  BY <1>1, <1>2, <1>5 DEF Same, Types
<1>6. p # "start"
  BY DEF Active
<1>7. ClientOK(c)'
  BY <1>0, <1>1, <1>2, <1>3, <1>6 DEF ClientOK
<1>8. ASSUME srv.state = "up" PROVE ServedOK(c)'
  BY <1>0, <1>1, <1>2, <1>8 DEF ServedOK, LeftOK
<1>9. up'[c] = up[c] /\ cliEnd'[c] = cliEnd[c]
  BY <1>2
<1> QED
  BY <1>0, <1>2, <1>4, <1>5, <1>7, <1>8, <1>9, ClientStep

(* The context of a running pongspam.                                      *)
LEMMA SpamContext ==
  ASSUME EInv, NEW c \in Spam, pc[c] \in Active
  PROVE  /\ cliEnd[c] \in {"up", "gone"}
         /\ cliEnd[c] = "up" <=> Linked(c)
         /\ conns[c] = IF cliEnd[c] = "up" THEN <<"sock", "stdin">> ELSE <<"stdin">>
         /\ \A k \in 1 .. Len(tx[c]) :
              tx[c][k].fd = IF cliEnd[c] = "up" THEN "sock" ELSE "stdin"
<1>1. ClientOK(c) /\ SpamOK(pc[c], cliEnd[c], conns[c], tx[c])
  BY DEF EInv, ClientOK, Client
<1>2. /\ cliEnd[c] \in {"up", "gone"}
      /\ conns[c] = IF cliEnd[c] = "up" THEN <<"sock", "stdin">> ELSE <<"stdin">>
      /\ \A k \in 1 .. Len(tx[c]) :
           tx[c][k].fd = IF cliEnd[c] = "up" THEN "sock" ELSE "stdin"
  BY <1>1 DEF SpamOK
<1>3. cliEnd[c] = "up" => Linked(c)
  BY <1>2 DEF Linked, ToSet
<1>4. cliEnd[c] # "up" => ~Linked(c)
  BY <1>2 DEF Linked, ToSet
<1> QED
  BY <1>2, <1>3, <1>4

LEMMA PollSpamKeeps ==
  ASSUME EInv, NEW c \in Spam, PollSpam(c)
  PROVE  EInv'
<1>1. pc[c] = "wait" /\ pc[c] \in Active
  BY DEF PollSpam, Active
<1>2. SpamOK(pc[c], cliEnd[c], conns[c], tx[c])
  BY DEF EInv, ClientOK, Client
<1>3. UNCHANGED <<srv, conns, tx, asked, got, net>>
  BY DEF PollSpam
<1>4. CASE SockIn(c) /\ pc' = [pc EXCEPT ![c] = "in"]
  <2>1. cliEnd[c] = "up"
    BY <1>1, <1>4, SpamContext DEF SockIn
  <2>2. SpamOK("in", cliEnd[c], conns[c], tx[c])
    BY <1>1, <1>2, <2>1 DEF SpamOK, Active
  <2> QED
    BY <1>3, <1>4, <2>2, StepKeeps DEF Active
<1>5. CASE ~SockIn(c) /\ SockOut(c) /\ pc' = [pc EXCEPT ![c] = "out"]
  <2>1. cliEnd[c] = "up" /\ HasMessage(tx[c], "sock")
    BY <1>1, <1>5, SpamContext DEF SockOut
  <2>2. SpamOK("out", cliEnd[c], conns[c], tx[c])
    BY <1>1, <1>2, <2>1 DEF SpamOK, Active
  <2> QED
    BY <1>3, <1>5, <2>2, StepKeeps DEF Active
<1>6. CASE HasMessage(tx[c], "stdin") /\ pc' = [pc EXCEPT ![c] = "outstdin"]
  <2>1. cliEnd[c] # "up"
    BY <1>1, <1>6, SpamContext DEF HasMessage
  <2>2. SpamOK("outstdin", cliEnd[c], conns[c], tx[c])
    BY <1>1, <1>2, <1>6, <2>1 DEF SpamOK, Active
  <2> QED
    BY <1>3, <1>6, <2>2, StepKeeps DEF Active
<1> QED
  BY <1>4, <1>5, <1>6 DEF PollSpam

LEMMA PollStdinKeeps ==
  ASSUME EInv, NEW c \in Spam, PollStdin(c)
  PROVE  EInv'
<1>1. pc[c] = "wait"
  BY DEF PollStdin
<1>2. SpamOK(pc[c], cliEnd[c], conns[c], tx[c])
  BY DEF EInv, ClientOK, Client
<1>3. UNCHANGED <<srv, conns, tx, asked, got, net>>
  BY DEF PollStdin
<1>4. PICK p \in {"quit", "line"} : pc' = [pc EXCEPT ![c] = p]
  BY DEF PollStdin
<1>5. SpamOK(p, cliEnd[c], conns[c], tx[c]) /\ p \in Active
  BY <1>1, <1>2 DEF SpamOK, Active
<1> QED
  BY <1>3, <1>4, <1>5, StepKeeps

(* The list of a pongspam changes: its messages are still its own, and for *)
(* the descriptor its end says.                                            *)
LEMMA SpamListKeeps ==
  ASSUME EInv, NEW c \in Spam, NEW t2 \in Seq(Msg), NEW u2 \in Seq(Msg), NEW n2 \in Nat,
         pc[c] \in Active, pc' = [pc EXCEPT ![c] = "wait"],
         tx' = [tx EXCEPT ![c] = t2], up' = [up EXCEPT ![c] = u2],
         asked' = [asked EXCEPT ![c] = n2],
         UNCHANGED <<srv, backlog, conns, down, cliEnd, srvEnd, got>>,
         From(t2, c), From(u2, c), Len(up[c]) <= Len(u2),
         \A k \in 1 .. Len(t2) : t2[k].fd = IF cliEnd[c] = "up" THEN "sock" ELSE "stdin",
         cliEnd[c] # "up" => u2 = up[c],
         srv.state = "up" /\ cliEnd[c] = "up" =>
           Conserved(c, t2, u2, srv.tx, down[c], got[c], n2)
  PROVE  EInv'
<1>0. c \in Client /\ c \notin Pong
  BY ClientAssumption DEF Client
<1>1. /\ Types /\ ClientOK(c)
      /\ srv.state = "up" => ServedOK(c)
  BY <1>0 DEF EInv, Serving
<1>2. /\ cliEnd[c] \in {"up", "gone"}
      /\ conns[c] = IF cliEnd[c] = "up" THEN <<"sock", "stdin">> ELSE <<"stdin">>
  BY SpamContext
<1>3. /\ srv' = srv /\ backlog' = backlog /\ conns' = conns /\ down' = down
      /\ cliEnd' = cliEnd /\ srvEnd' = srvEnd /\ got' = got
  OBVIOUS
<1>4. /\ pc' \in [Client -> Steps] /\ tx' \in [Client -> Seq(Msg)]
      /\ up' \in [Client -> Seq(Msg)] /\ asked' \in [Client -> Nat]
  BY <1>0, <1>1 DEF Types, Steps, Active
<1>5. Types'
  BY <1>1, <1>3, <1>4 DEF Types
<1>6. pc'[c] = "wait" /\ tx'[c] = t2 /\ up'[c] = u2 /\ asked'[c] = n2
  BY <1>0, <1>1 DEF Types
<1>7. ASSUME NEW d \in Client, d # c PROVE Same(d)
  BY <1>1, <1>3, <1>7 DEF Same, Types
<1>8. ClientOK(c)'
  <2>1. SpamOK("wait", cliEnd[c], conns[c], t2)
    BY <1>2 DEF SpamOK, Active
  <2> QED
    BY <1>0, <1>1, <1>2, <1>3, <1>6, <2>1 DEF ClientOK
<1>9. Len(up[c]) \in Nat /\ Len(u2) \in Nat /\ up[c] \in Seq(Msg)
  BY <1>0, <1>1 DEF Types
<1>10. ASSUME srv.state = "up" PROVE ServedOK(c)'
  <2>1. ServedOK(c)
    BY <1>1, <1>10
  <2>2. LinkOK(c, srv'.conns, backlog', cliEnd'[c], srvEnd'[c])
    BY <1>3, <2>1 DEF ServedOK
  <2>3. LeftOK(c, pc'[c], cliEnd'[c])
    BY <1>0 DEF LeftOK
  <2>4. cliEnd'[c] = "up" =>
          Conserved(c, tx'[c], up'[c], srv'.tx, down'[c], got'[c], asked'[c])
    BY <1>3, <1>6, <1>10
  <2> QED
    BY <1>0, <1>6, <2>2, <2>3, <2>4 DEF ServedOK
<1>11. Readable(up[c], cliEnd[c]) => Readable(up'[c], cliEnd'[c])
  <2>1. up[c] # <<>> => u2 # <<>>
    <3> SUFFICES ASSUME up[c] # <<>>, u2 = <<>> PROVE FALSE
      OBVIOUS
    <3>1. Len(up[c]) = 1 \/ Len(up[c]) > 1
      BY <1>9, QueueCases
    <3>2. Len(u2) # 1 /\ ~(Len(u2) > 1)
      BY QueueCases
    <3> QED
      BY <1>9, <3>1, <3>2
  <2> QED
    BY <1>3, <1>6, <2>1 DEF Readable
<1> QED
  BY <1>0, <1>3, <1>5, <1>7, <1>8, <1>10, <1>11, ClientStep

(* A removal by swap keeps what all the messages of a list have.           *)
LEMMA SwapKeepsAll ==
  ASSUME NEW s \in Seq(Msg), NEW i \in 1 .. Len(s), NEW t, t = SwapRemove(s, i)
  PROVE  /\ t \in Seq(Msg)
         /\ \A k \in 1 .. Len(t) : \E j \in 1 .. Len(s) : t[k] = s[j]
<1>1. /\ t \in Seq(Msg) /\ Len(t) = Len(s) - 1
      /\ \A k \in 1 .. Len(s) - 1 : t[k] = IF k = i THEN s[Len(s)] ELSE s[k]
  BY SwapRemoveFacts
<1>2. ASSUME NEW k \in 1 .. Len(t) PROVE \E j \in 1 .. Len(s) : t[k] = s[j]
  <2>1. k \in 1 .. Len(s) - 1 /\ k \in 1 .. Len(s) /\ Len(s) \in 1 .. Len(s)
    BY <1>1
  <2>2. t[k] = s[Len(s)] \/ t[k] = s[k]
    BY <1>1, <2>1
  <2> QED
    BY <2>1, <2>2
<1> QED
  BY <1>1, <1>2

(* The message a pongspam removes from its list.                           *)
LEMMA SpamRemoves ==
  ASSUME EInv, NEW c \in Spam, NEW f, HasMessage(tx[c], f), pc[c] \in Active
  PROVE  \E k \in 1 .. Len(tx[c]) : \E t2 \in Seq(Msg) :
           /\ k = FirstFor(tx[c], f) /\ t2 = SwapRemove(tx[c], k)
           /\ ipc_messages_del(tx[c], k) = t2
           /\ From(t2, c)
           /\ \A j \in 1 .. Len(t2) :
                t2[j].fd = IF cliEnd[c] = "up" THEN "sock" ELSE "stdin"
           /\ tx[c][k] \in Msg /\ tx[c][k].from = c
<1>0. c \in Client
  BY DEF Client
<1>1. Types /\ ClientOK(c)
  BY <1>0 DEF EInv
<1>2. PICK s \in Seq(Msg) : s = tx[c]
  BY <1>0, <1>1 DEF Types
<1>3. PICK k \in 1 .. Len(s) : k = FirstFor(s, f)
  BY <1>2, FirstForFacts
<1>a. SwapRemove(s, k) \in Seq(Msg)
  BY SwapKeepsAll
<1>4. PICK t2 \in Seq(Msg) : t2 = SwapRemove(s, k)
  BY <1>a
<1>5. \A j \in 1 .. Len(t2) : \E i \in 1 .. Len(s) : t2[j] = s[i]
  BY <1>4, SwapKeepsAll
<1>6. From(s, c)
  BY <1>1, <1>2 DEF ClientOK
<1>7. From(t2, c) /\ s[k].from = c /\ s[k] \in Msg
  BY <1>5, <1>6 DEF From
<1>8. \A i \in 1 .. Len(s) : s[i].fd = IF cliEnd[c] = "up" THEN "sock" ELSE "stdin"
  BY <1>2, SpamContext
<1>9. \A j \in 1 .. Len(t2) : t2[j].fd = IF cliEnd[c] = "up" THEN "sock" ELSE "stdin"
  BY <1>5, <1>8
<1>10. ipc_messages_del(s, k) = t2
  BY <1>4 DEF ipc_messages_del
<1> QED
  BY <1>2, <1>3, <1>4, <1>7, <1>9, <1>10

LEMMA SpamOutKeeps ==
  ASSUME EInv, NEW c \in Spam, SpamOut(c)
  PROVE  EInv'
<1>0. c \in Client /\ pc[c] = "out" /\ pc[c] \in Active
  BY DEF Client, SpamOut, Active
<1>1. /\ Types /\ ClientOK(c)
      /\ srv.state = "up" => ServedOK(c)
  BY <1>0 DEF EInv, Serving
<1>2. cliEnd[c] = "up" /\ HasMessage(tx[c], "sock")
  BY <1>0, <1>1 DEF ClientOK, SpamOK
<1>b. HasMessage(tx[c], "sock") /\ pc[c] \in Active
  BY <1>0, <1>2
<1>3. PICK k \in 1 .. Len(tx[c]) : \E t2 \in Seq(Msg) :
        /\ k = FirstFor(tx[c], "sock") /\ t2 = SwapRemove(tx[c], k)
        /\ ipc_messages_del(tx[c], k) = t2
        /\ From(t2, c)
        /\ \A j \in 1 .. Len(t2) : t2[j].fd = IF cliEnd[c] = "up" THEN "sock" ELSE "stdin"
        /\ tx[c][k] \in Msg /\ tx[c][k].from = c
  BY <1>b, SpamRemoves
<1>4. PICK t2 \in Seq(Msg) :
        /\ k = FirstFor(tx[c], "sock") /\ t2 = SwapRemove(tx[c], k)
        /\ ipc_messages_del(tx[c], k) = t2
        /\ From(t2, c)
        /\ \A j \in 1 .. Len(t2) : t2[j].fd = IF cliEnd[c] = "up" THEN "sock" ELSE "stdin"
        /\ tx[c][k] \in Msg /\ tx[c][k].from = c
  BY <1>3
<1>5. PICK m \in Msg : m = tx[c][k] /\ m.from = c
  BY <1>4
<1>6. PICK u \in Seq(Msg) : u = up[c]
  BY <1>0, <1>1 DEF Types
<1>a. Append(u, m) \in Seq(Msg)
  OBVIOUS
<1>7. PICK u2 \in Seq(Msg) : u2 = IF srvEnd[c] = "up" THEN Append(u, m) ELSE u
  BY <1>a
<1>8. From(u2, c) /\ Len(u) <= Len(u2)
  <2>1. From(u, c)
    BY <1>1, <1>6 DEF ClientOK
  <2>2. From(Append(u, m), c) /\ Len(u) <= Len(Append(u, m))
    BY <1>5, <2>1 DEF From
  <2>3. Len(u) <= Len(u)
    OBVIOUS
  <2> QED
    BY <1>7, <2>1, <2>2, <2>3
<1>9. PICK n \in Nat : n = asked[c]
  BY <1>0, <1>1 DEF Types
<1>10. /\ tx' = [tx EXCEPT ![c] = t2] /\ pc' = [pc EXCEPT ![c] = "wait"]
       /\ UNCHANGED <<srv, backlog, conns, down, cliEnd, srvEnd, got>>
       /\ asked' = asked
  BY <1>4 DEF SpamOut
<1>11. up' = [up EXCEPT ![c] = u2] /\ asked' = [asked EXCEPT ![c] = n]
  <2>1. up' = IF srvEnd[c] = "up" THEN [up EXCEPT ![c] = Append(u, m)] ELSE up
    BY <1>4, <1>5, <1>6 DEF SpamOut
  <2>2. up = [up EXCEPT ![c] = u]
    BY <1>0, <1>1, <1>6 DEF Types
  <2>3. asked = [asked EXCEPT ![c] = n]
    BY <1>0, <1>1, <1>9 DEF Types
  <2> QED
    BY <1>7, <1>10, <2>1, <2>2, <2>3
<1>12. ASSUME srv.state = "up"
       PROVE  Conserved(c, t2, u2, srv.tx, down[c], got[c], n)
  <2>1. ServedOK(c) /\ srvEnd[c] = "up"
    BY <1>0, <1>1, <1>2, <1>12, UpEnd
  <2>2. PICK o \in Seq(Msg) : o = tx[c]
    BY <1>0, <1>1 DEF Types
  <2>3. Conserved(c, o, u, srv.tx, down[c], got[c], n)
    BY <1>2, <1>6, <1>9, <2>1, <2>2 DEF ServedOK
  <2>4. k \in 1 .. Len(o) /\ o[k].from = c /\ t2 = SwapRemove(o, k) /\ u2 = Append(u, o[k])
    BY <1>4, <1>5, <1>7, <2>1, <2>2
  <2> QED
    BY <2>3, <2>4, ConservedOut
<1>13. Len(up[c]) <= Len(u2)
  BY <1>6, <1>8
<1> QED
  BY <1>0, <1>2, <1>4, <1>8, <1>10, <1>11, <1>12, <1>13, SpamListKeeps

LEMMA SpamOutStdinKeeps ==
  ASSUME EInv, NEW c \in Spam, SpamOutStdin(c)
  PROVE  EInv'
<1>0. c \in Client /\ pc[c] = "outstdin" /\ pc[c] \in Active
  BY DEF Client, SpamOutStdin, Active
<1>1. Types /\ ClientOK(c)
  BY <1>0 DEF EInv
<1>2. cliEnd[c] # "up" /\ HasMessage(tx[c], "stdin")
  BY <1>0, <1>1 DEF ClientOK, SpamOK
<1>b. HasMessage(tx[c], "stdin") /\ pc[c] \in Active
  BY <1>0, <1>2
<1>3. PICK k \in 1 .. Len(tx[c]) : \E t2 \in Seq(Msg) :
        /\ k = FirstFor(tx[c], "stdin") /\ t2 = SwapRemove(tx[c], k)
        /\ ipc_messages_del(tx[c], k) = t2
        /\ From(t2, c)
        /\ \A j \in 1 .. Len(t2) : t2[j].fd = IF cliEnd[c] = "up" THEN "sock" ELSE "stdin"
        /\ tx[c][k] \in Msg /\ tx[c][k].from = c
  BY <1>b, SpamRemoves
<1>4. PICK t2 \in Seq(Msg) :
        /\ ipc_messages_del(tx[c], FirstFor(tx[c], "stdin")) = t2
        /\ From(t2, c)
        /\ \A j \in 1 .. Len(t2) : t2[j].fd = IF cliEnd[c] = "up" THEN "sock" ELSE "stdin"
  BY <1>3
<1>5. PICK u \in Seq(Msg) : u = up[c]
  BY <1>0, <1>1 DEF Types
<1>6. PICK n \in Nat : n = asked[c]
  BY <1>0, <1>1 DEF Types
<1>7. From(u, c)
  BY <1>1, <1>5 DEF ClientOK
<1>8. /\ pc' = [pc EXCEPT ![c] = "wait"]
      /\ UNCHANGED <<srv, backlog, conns, down, cliEnd, srvEnd, got>>
      /\ asked' = asked /\ up' = up
  BY DEF SpamOutStdin, net
<1>9. tx' = [tx EXCEPT ![c] = t2]
  BY <1>0, <1>1, <1>4 DEF SpamOutStdin, Types
<1>10. up' = [up EXCEPT ![c] = u] /\ asked' = [asked EXCEPT ![c] = n]
  BY <1>0, <1>1, <1>5, <1>6, <1>8 DEF Types
<1>11. Len(up[c]) <= Len(u)
  BY <1>5
<1> QED
  BY <1>0, <1>2, <1>4, <1>5, <1>7, <1>8, <1>9, <1>10, <1>11, SpamListKeeps

LEMMA SpamLineKeeps ==
  ASSUME EInv, NEW c \in Spam, SpamLine(c)
  PROVE  EInv'
<1>0. c \in Client /\ pc[c] = "line" /\ pc[c] \in Active
  BY DEF Client, SpamLine, Active
<1>1. /\ Types /\ ClientOK(c)
      /\ srv.state = "up" => ServedOK(c)
  BY <1>0 DEF EInv, Serving
<1>2. PICK n \in Nat : n = asked[c]
  BY <1>0, <1>1 DEF Types
<1>3. PICK f \in {"sock", "stdin"} : f = conns[c][1] /\ f = IF cliEnd[c] = "up" THEN "sock" ELSE "stdin"
  BY <1>0, SpamContext
<1>4. Burst \in Nat
  BY RoundsAssumption
<1> DEFINE made == [k \in 1 .. Burst |-> Message(c, n + k, f)]
           copied == [k \in 1 .. Burst |-> [made[k] EXCEPT !.kind = strncpy(@)]]
<1>5. \A k \in 1 .. Burst :
        copied[k] = [fd |-> f, from |-> c, n |-> n + k, kind |-> "text"]
  BY DEF Message, strncpy
<1>6. copied \in Seq(Msg) /\ Len(copied) = Burst
  <2>1. \A k \in 1 .. Burst : [fd |-> f, from |-> c, n |-> n + k, kind |-> "text"] \in Msg
    BY <1>0, <1>4 DEF Msg, Kinds
  <2>2. copied = [k \in 1 .. Burst |-> copied[k]]
    OBVIOUS
  <2> HIDE DEF copied
  <2>3. \A k \in 1 .. Burst : copied[k] \in Msg
    BY <1>5, <2>1, Zenon
  <2>4. copied \in [1 .. Burst -> Msg]
    BY <2>2, <2>3, Zenon
  <2> QED
    BY <1>4, <2>4
<1>7. tx' = [tx EXCEPT ![c] = @ \o copied]
  BY <1>2, <1>3 DEF SpamLine
<1> HIDE DEF made, copied
<1>8. PICK s \in Seq(Msg) : s = copied
  BY <1>6
<1>9. Len(s) = Burst /\ \A k \in 1 .. Burst : s[k].fd = f /\ s[k].from = c /\ s[k].n = n + k
  BY <1>5, <1>6, <1>8
<1>10. PICK o \in Seq(Msg) : o = tx[c]
  BY <1>0, <1>1 DEF Types
<1>11. /\ o \o s \in Seq(Msg) /\ Len(o \o s) = Len(o) + Len(s)
       /\ \A k \in 1 .. Len(o) + Len(s) :
            (o \o s)[k] = IF k <= Len(o) THEN o[k] ELSE s[k - Len(o)]
  BY ConcatProperties
<1>12. PICK o2 \in Seq(Msg) : o2 = o \o s
  BY <1>11
<1>13. \A k \in 1 .. Len(o) : o[k].from = c /\ o[k].fd = f
  BY <1>0, <1>1, <1>3, <1>10, SpamContext DEF ClientOK, From
<1>14. \A k \in 1 .. Len(o2) : o2[k].from = c /\ o2[k].fd = f
  <2> SUFFICES ASSUME NEW k \in 1 .. Len(o2) PROVE o2[k].from = c /\ o2[k].fd = f
    OBVIOUS
  <2>1. Len(o) \in Nat /\ k \in 1 .. Len(o) + Burst
    BY <1>9, <1>11, <1>12
  <2>2. CASE k <= Len(o)
    <3>1. o2[k] = o[k] /\ k \in 1 .. Len(o)
      BY <1>9, <1>11, <1>12, <2>1, <2>2
    <3> QED
      BY <1>13, <3>1
  <2>3. CASE ~(k <= Len(o))
    <3>1. o2[k] = s[k - Len(o)] /\ k - Len(o) \in 1 .. Burst
      BY <1>4, <1>9, <1>11, <1>12, <2>1, <2>3
    <3> QED
      BY <1>9, <3>1
  <2> QED
    BY <2>2, <2>3
<1>15. PICK u \in Seq(Msg) : u = up[c]
  BY <1>0, <1>1 DEF Types
<1>16. PICK n2 \in Nat : n2 = n + Burst
  BY <1>4
<1>17. From(u, c) /\ From(o2, c)
  BY <1>1, <1>14, <1>15 DEF ClientOK, From
<1>18. /\ pc' = [pc EXCEPT ![c] = "wait"]
       /\ UNCHANGED <<srv, backlog, conns, down, cliEnd, srvEnd, got>>
       /\ asked' = [asked EXCEPT ![c] = n2] /\ up' = up /\ tx' = [tx EXCEPT ![c] = o2]
  <2>1. tx' = [tx EXCEPT ![c] = o2]
    BY <1>0, <1>1, <1>7, <1>8, <1>10, <1>12 DEF Types
  <2>2. asked' = [asked EXCEPT ![c] = n2]
    BY <1>0, <1>1, <1>2, <1>16 DEF SpamLine, Types
  <2> QED
    BY <2>1, <2>2 DEF SpamLine, net
<1>19. up' = [up EXCEPT ![c] = u]
  BY <1>0, <1>1, <1>15, <1>18 DEF Types
<1>20. ASSUME srv.state = "up", cliEnd[c] = "up"
       PROVE  Conserved(c, o2, u, srv.tx, down[c], got[c], n2)
  <2>1. Conserved(c, o, u, srv.tx, down[c], got[c], n)
    BY <1>1, <1>2, <1>10, <1>15, <1>20 DEF ServedOK
  <2>2. Conserved(c, o2, u, srv.tx, down[c], got[c], n + Burst)
    BY <1>4, <1>9, <1>12, <2>1, ConservedLine
  <2> QED
    BY <1>16, <2>2
<1>21. Len(up[c]) <= Len(u)
  BY <1>15
<1> QED
  BY <1>0, <1>3, <1>14, <1>15, <1>17, <1>18, <1>19, <1>20, <1>21, SpamListKeeps

LEMMA SpamInKeeps ==
  ASSUME EInv, NEW c \in Spam, SpamIn(c)
  PROVE  EInv'
<1>0. c \in Client /\ pc[c] = "in" /\ pc[c] \in Active /\ c \notin Pong
  BY ClientAssumption DEF Client, SpamIn, Active
<1>1. /\ Types /\ ClientOK(c)
      /\ srv.state = "up" => ServedOK(c)
  BY <1>0 DEF EInv, Serving
<1>2. cliEnd[c] = "up"
  BY <1>0, <1>1 DEF ClientOK, SpamOK
<1>3. down[c] \in Seq(Msg)
  BY <1>0, <1>1 DEF Types
<1>4. CASE ReadOutcome(down[c], srvEnd[c]) = "message"
  <2>1. Len(down[c]) = 1
    BY <1>3, <1>4, ReadFacts
  <2>2. /\ got' = [got EXCEPT ![c] = @ \o down[c]] /\ down' = [down EXCEPT ![c] = <<>>]
        /\ pc' = [pc EXCEPT ![c] = "wait"]
        /\ UNCHANGED <<srv, backlog, conns, tx, asked, up, cliEnd, srvEnd>>
    BY <1>4 DEF SpamIn
  <2>3. "wait" \in Steps
    BY DEF Steps, Active
  <2> QED
    BY <1>0, <1>2, <2>1, <2>2, <2>3, GotKeeps
<1>5. CASE ReadOutcome(down[c], srvEnd[c]) \in {"parsing", "error"}
  <2>1. EndClient(c, "failed")
    BY <1>5 DEF SpamIn
  <2> QED
    BY <1>0, <2>1, EndClientKeeps
<1>6. CASE ReadOutcome(down[c], srvEnd[c]) = "closed"
  <2>1. srv.state # "up"
    <3>1. srvEnd[c] # "up"
      BY <1>3, <1>6, ReadFacts
    <3> QED
      BY <1>0, <1>1, <1>2, <3>1, UpEnd
  <2>2. PICK s \in Seq(Msg) : s = tx[c]
    BY <1>0, <1>1 DEF Types
  <2>3. /\ RemoveFor(s, {"sock"}) \in Seq(Msg)
        /\ \A j \in 1 .. Len(RemoveFor(s, {"sock"})) :
             \E k \in 1 .. Len(s) : /\ RemoveFor(s, {"sock"})[j] = s[k]
                                   /\ s[k].fd \notin {"sock"}
    BY RemoveForFacts
  <2>4. PICK t \in Seq(Msg) : t = RemoveFor(s, {"sock"})
    BY <2>3
  <2>5. \A k \in 1 .. Len(s) : s[k].fd = "sock"
    BY <1>0, <1>2, <2>2, SpamContext
  <2>6. \A j \in 1 .. Len(t) : FALSE
    BY <2>3, <2>4, <2>5
  <2>7. conns[c] = <<"sock", "stdin">>
    BY <1>0, <1>2, SpamContext
  <2>8. SwapRemove(conns[c], 1) = <<"stdin">>
    <3>1. Len(<<"sock", "stdin">>) = 2
      OBVIOUS
    <3>2. SwapRemove(<<"sock", "stdin">>, 1) = [k \in 1 .. 1 |-> "stdin"]
      BY <3>1 DEF SwapRemove
    <3> QED
      BY <2>7, <3>2
  <2>9. /\ conns' = [conns EXCEPT ![c] = <<"stdin">>]
        /\ tx' = [tx EXCEPT ![c] = t]
    BY <1>0, <1>1, <1>6, <2>2, <2>4, <2>8 DEF SpamIn, Types, ipc_remove_messages_for_fd
  <2>10. /\ cliEnd' = [cliEnd EXCEPT ![c] = "gone"] /\ pc' = [pc EXCEPT ![c] = "wait"]
         /\ srv' = srv /\ backlog' = backlog /\ asked' = asked /\ up' = up
         /\ down' = down /\ srvEnd' = srvEnd /\ got' = got
    BY <1>6 DEF SpamIn
  <2>11. Types'
    <3>1. /\ conns' \in [Client -> Seq({"sock", "stdin"})] /\ tx' \in [Client -> Seq(Msg)]
          /\ cliEnd' \in [Client -> Ends] /\ pc' \in [Client -> Steps]
      BY <1>0, <1>1, <2>9, <2>10 DEF Types, Ends, Steps, Active
    <3> QED
      BY <1>1, <2>10, <3>1 DEF Types
  <2>12. ASSUME NEW d \in Client, d # c PROVE Same(d)
    BY <1>1, <2>9, <2>10, <2>12 DEF Same, Types
  <2>13. conns'[c] = <<"stdin">> /\ tx'[c] = t /\ cliEnd'[c] = "gone" /\ pc'[c] = "wait"
    BY <1>0, <1>1, <2>9, <2>10 DEF Types
  <2>14. ClientOK(c)'
    <3>1. From(t, c) /\ SpamOK("wait", "gone", <<"stdin">>, t)
      BY <2>6 DEF From, SpamOK, Active
    <3> QED
      BY <1>0, <1>1, <2>10, <2>13, <3>1 DEF ClientOK
  <2>15. Readable(up'[c], cliEnd'[c])
    BY <2>13 DEF Readable
  <2>16. srv' = srv /\ backlog' = backlog
    BY <2>10
  <2> QED
    BY <1>0, <1>2, <2>1, <2>11, <2>12, <2>14, <2>15, <2>16, ClientStep
<1> QED
  BY <1>3, <1>4, <1>5, <1>6, ReadFacts

-----------------------------------------------------------------------------
(* A client connects.                                                      *)

LEMMA ConnectKeeps ==
  ASSUME EInv, NEW c \in Client, NEW next, NEW array, Connect(c, next, array),
         c \in Pong => next = "write" /\ array = <<"sock">>,
         c \in Spam => next = "wait" /\ array = <<"sock", "stdin">>
  PROVE  EInv'
<1>0. (c \in Pong \/ c \in Spam) /\ ~(c \in Pong /\ c \in Spam) /\ pc[c] = "start"
  BY ClientAssumption DEF Client, Connect
<1>1. /\ Types /\ ClientOK(c)
      /\ srv.state = "up" => Serving /\ ServedOK(c)
      /\ \A d \in Client : ClientOK(d)
  BY DEF EInv, Serving
<1>2. /\ cliEnd[c] = "none" /\ asked[c] = 0 /\ tx[c] = <<>> /\ up[c] = <<>>
      /\ down[c] = <<>> /\ got[c] = <<>>
  BY <1>0, <1>1 DEF ClientOK
<1>3. /\ srv' = srv /\ tx' = tx /\ asked' = asked /\ up' = up /\ down' = down /\ got' = got
  BY DEF Connect
<1>4. CASE srv.state # "up"
  <2>1. /\ pc' = [pc EXCEPT ![c] = "failed"] /\ conns' = conns /\ backlog' = backlog
        /\ cliEnd' = cliEnd /\ srvEnd' = srvEnd
    BY <1>4 DEF Connect
  <2>2. pc' \in [Client -> Steps] /\ pc'[c] = "failed"
    BY <1>1, <2>1 DEF Types, Steps
  <2>3. Types'
    BY <1>1, <1>3, <2>1, <2>2 DEF Types
  <2>4. ASSUME NEW d \in Client, d # c PROVE Same(d)
    BY <1>1, <1>3, <2>1, <2>4 DEF Same, Types
  <2>5. ClientOK(c)'
    <3>1. c \in Pong => PongOK("failed", cliEnd[c], tx[c])
      BY <1>2 DEF PongOK
    <3>2. c \in Spam => SpamOK("failed", cliEnd[c], conns[c], tx[c])
      BY <1>2 DEF SpamOK, Active
    <3> QED
      BY <1>1, <1>3, <2>1, <2>2, <3>1, <3>2 DEF ClientOK
  <2>6. up'[c] = up[c] /\ cliEnd'[c] = cliEnd[c]
    BY <1>3, <2>1
  <2> QED
    BY <1>3, <1>4, <2>1, <2>3, <2>4, <2>5, <2>6, ClientStep
<1>5. CASE srv.state = "up"
  <2>1. /\ pc' = [pc EXCEPT ![c] = next] /\ conns' = [conns EXCEPT ![c] = array]
        /\ backlog' = Append(backlog, c) /\ cliEnd' = [cliEnd EXCEPT ![c] = "up"]
        /\ srvEnd' = [srvEnd EXCEPT ![c] = "up"]
    BY <1>5 DEF Connect
  <2>a. <<"sock">> \in Seq({"sock", "stdin"}) /\ <<"sock", "stdin">> \in Seq({"sock", "stdin"})
    OBVIOUS
  <2>2. next \in Steps /\ array \in Seq({"sock", "stdin"})
    BY <1>0, <2>a DEF Steps, Active
  <2>3. Types'
    <3>1. /\ pc' \in [Client -> Steps] /\ conns' \in [Client -> Seq({"sock", "stdin"})]
          /\ cliEnd' \in [Client -> Ends] /\ srvEnd' \in [Client -> Ends]
          /\ backlog' \in Seq(Client)
      BY <1>1, <2>1, <2>2 DEF Types, Ends
    <3> QED
      BY <1>1, <1>3, <3>1 DEF Types
  <2>4. ASSUME NEW d \in Client, d # c PROVE Same(d)
    BY <1>1, <1>3, <2>1, <2>4 DEF Same, Types
  <2>5. pc'[c] = next /\ conns'[c] = array /\ cliEnd'[c] = "up" /\ srvEnd'[c] = "up"
    BY <1>1, <2>1 DEF Types
  <2>6. ClientOK(c)'
    <3>1. c \in Pong => PongOK(next, "up", <<>>)
      BY DEF PongOK
    <3>2. c \in Spam => SpamOK(next, "up", array, <<>>)
      BY DEF SpamOK, Active
    <3>3. next # "start"
      BY <1>0
    <3> QED
      BY <1>1, <1>2, <1>3, <2>5, <3>1, <3>2, <3>3 DEF ClientOK
  <2>7. PICK a \in Seq(Client \cup {"listen"}) : a = srv.conns
    BY <1>1 DEF Types, Pongd
  <2>8. PICK b \in Seq(Client) : b = backlog
    BY <1>1 DEF Types
  <2>9. ~Among(a, c) /\ ~Among(b, c)
    BY <1>1, <1>2, <1>5, <2>7, <2>8 DEF ServedOK, LinkOK
  <2>10. /\ Len(b) \in Nat /\ Len(Append(b, c)) = Len(b) + 1
         /\ \A k \in 1 .. Len(b) : Append(b, c)[k] = b[k]
         /\ Append(b, c)[Len(b) + 1] = c
         /\ \A k \in 1 .. Len(b) + 1 : k \in 1 .. Len(b) \/ k = Len(b) + 1
    OBVIOUS
  <2>11. \A d \in Client : Among(Append(b, c), d) <=> (Among(b, d) \/ d = c)
    BY <2>10 DEF Among
  <2>12. ArrayOK(a, Append(b, c))
    <3>1. ArrayOK(a, b)
      BY <1>1, <1>5, <2>7, <2>8 DEF Serving
    <3>2. ASSUME NEW i \in 1 .. Len(b) + 1, NEW j \in 1 .. Len(b) + 1,
                 Append(b, c)[i] = Append(b, c)[j]
          PROVE  i = j
      <4>1. CASE i \in 1 .. Len(b) /\ j \in 1 .. Len(b)
        BY <2>10, <3>1, <3>2, <4>1 DEF ArrayOK
      <4>2. CASE i \in 1 .. Len(b) /\ j = Len(b) + 1
        BY <2>9, <2>10, <3>2, <4>2 DEF Among
      <4>3. CASE i = Len(b) + 1 /\ j \in 1 .. Len(b)
        BY <2>9, <2>10, <3>2, <4>3 DEF Among
      <4>4. CASE i = Len(b) + 1 /\ j = Len(b) + 1
        BY <4>4
      <4> QED
        BY <2>10, <4>1, <4>2, <4>3, <4>4
    <3>3. ASSUME NEW i \in 1 .. Len(a), NEW j \in 1 .. Len(b) + 1
          PROVE  a[i] # Append(b, c)[j]
      BY <2>9, <2>10, <3>1 DEF ArrayOK, Among
    <3>4. Len(a) >= 1 /\ a[1] = "listen" /\ \A i, j \in 1 .. Len(a) : a[i] = a[j] => i = j
      BY <3>1 DEF ArrayOK
    <3> QED
      BY <2>10, <3>2, <3>3, <3>4 DEF ArrayOK
  <2>13. AnswersOK(a, srv.tx) /\ TurnOK(srv, backlog, up, cliEnd)
    BY <1>1, <1>5, <2>7 DEF Serving
  <2>14. TurnOK(srv, backlog, up, cliEnd)'
    <3>0. backlog' = Append(b, c) /\ Len(<<>>) = 0
      BY <2>1, <2>8
    <3>1. backlog' # <<>>
      BY <2>10, <3>0
    <3>2. ASSUME NEW d \in Client, Among(srv.conns, d), Readable(up[d], cliEnd[d])
          PROVE  Readable(up'[d], cliEnd'[d])
      <4>1. d # c
        BY <2>7, <2>9, <3>2
      <4> QED
        BY <2>4, <3>2, <4>1 DEF Same
    <3> QED
      BY <1>1, <1>3, <2>13, <3>1, <3>2, TurnKept
  <2>15. PICK t \in Seq(Msg) : t = srv.tx
    BY <1>1 DEF Types, Pongd
  <2>16. \A k \in 1 .. Len(t) : t[k].fd # c /\ t[k].from # c
    BY <2>9, <2>13, <2>15 DEF AnswersOK
  <2>17. ServedOK(c)'
    <3>1. Among(Append(b, c), c)
      BY <2>11
    <3>2. LinkOK(c, a, Append(b, c), "up", "up")
      BY <3>1 DEF LinkOK
    <3>3. Conserved(c, <<>>, <<>>, t, <<>>, <<>>, 0)
      BY <2>16, ConservedStart
    <3>4. ASSUME c \in Pong PROVE WayOK(c, "write", <<>>, t, <<>>)
      <4>1. ~HasMessage(t, c) /\ Single(t, c)
        BY <2>16 DEF HasMessage, Single
      <4>2. Len(<<>>) <= 1
        OBVIOUS
      <4> QED
        BY <4>1, <4>2 DEF WayOK
    <3>5. /\ LinkOK(c, srv'.conns, backlog', cliEnd'[c], srvEnd'[c])
          /\ Conserved(c, tx'[c], up'[c], srv'.tx, down'[c], got'[c], asked'[c])
          /\ c \in Pong => pc'[c] # "failed" /\ WayOK(c, pc'[c], up'[c], srv'.tx, down'[c])
      BY <1>2, <1>3, <2>1, <2>5, <2>7, <2>8, <2>15, <3>2, <3>3, <3>4
    <3>6. LeftOK(c, pc'[c], cliEnd'[c])
      BY <2>5 DEF LeftOK
    <3> QED
      BY <3>5, <3>6 DEF ServedOK
  <2>18. ASSUME NEW d \in Client, d # c PROVE ServedOK(d)'
    <3>1. ServedOK(d) /\ Same(d)
      BY <1>1, <1>5, <2>4, <2>18 DEF Serving
    <3>2. SameFor(srv.tx, srv'.tx, d)
      BY <1>3, SameForItself
    <3>3. (Among(srv.conns, d) \/ Among(backlog, d))
            <=> (Among(srv'.conns, d) \/ Among(backlog', d))
      BY <1>3, <2>1, <2>8, <2>11, <2>18
    <3> QED
      BY <3>1, <3>2, <3>3, ServedKept
  <2>19. Serving'
    <3>1. ArrayOK(srv.conns, backlog)' /\ AnswersOK(srv.conns, srv.tx)'
      BY <1>3, <2>1, <2>7, <2>8, <2>12, <2>13
    <3>2. \A d \in Client : ServedOK(d)'
      BY <2>17, <2>18
    <3> QED
      BY <2>14, <3>1, <3>2 DEF Serving
  <2>20. \A d \in Client : ClientOK(d)'
    BY <1>1, <2>4, <2>6, ClientKept
  <2> QED
    BY <2>3, <2>19, <2>20 DEF EInv
<1> QED
  BY <1>4, <1>5

-----------------------------------------------------------------------------
(* The steps of pongd.                                                     *)

(* While pongd runs, it is enough to show what it serves.                  *)
LEMMA ServerStep ==
  ASSUME srv'.state = "up", Types', ArrayOK(srv'.conns, backlog'),
         AnswersOK(srv'.conns, srv'.tx), TurnOK(srv', backlog', up', cliEnd'),
         \A d \in Client : ClientOK(d)', \A d \in Client : ServedOK(d)'
  PROVE  EInv'
<1>1. Serving'
  BY DEF Serving
<1> QED
  BY <1>1 DEF EInv

LEMMA PollServerKeeps ==
  ASSUME EInv, PollServer
  PROVE  EInv'
<1>1. srv.state = "up" /\ Types /\ Serving /\ \A d \in Client : ClientOK(d)
  BY DEF EInv, PollServer
<1>2. PICK i \in 1 .. Len(srv.conns) :
        Branch(i) # "none" /\ srv' = [srv EXCEPT !.turn = [i |-> i, act |-> Branch(i)]]
  BY DEF PollServer
<1>3. /\ backlog' = backlog /\ pc' = pc /\ conns' = conns /\ tx' = tx /\ asked' = asked
      /\ up' = up /\ down' = down /\ cliEnd' = cliEnd /\ srvEnd' = srvEnd /\ got' = got
  BY DEF PollServer, net
<1>4. PICK c \in Client \cup {"listen"} : c = srv.conns[i]
  BY <1>1 DEF Types, Pongd
<1>5. /\ Branch(i) \in {"accept", "read", "write"}
      /\ Branch(i) = "accept" => backlog # <<>>
      /\ Branch(i) \in {"read", "write"} => c # "listen"
      /\ Branch(i) = "read" => Readable(up[c], cliEnd[c])
      /\ Branch(i) = "write" => HasMessage(srv.tx, c)
  <2>1. CASE c = "listen"
    <3>1. Branch(i) = IF backlog # <<>> THEN "accept" ELSE "none"
      BY <1>4, <2>1 DEF Branch
    <3> QED
      BY <1>2, <3>1
  <2>2. CASE c # "listen" /\ Readable(up[c], cliEnd[c])
    <3>1. Branch(i) = "read"
      BY <1>4, <2>2 DEF Branch
    <3> QED
      BY <2>2, <3>1
  <2>3. CASE c # "listen" /\ ~Readable(up[c], cliEnd[c])
    <3>1. Branch(i) = IF HasMessage(srv.tx, c) THEN "write" ELSE "none"
      BY <1>4, <2>3 DEF Branch
    <3> QED
      BY <1>2, <2>3, <3>1
  <2> QED
    BY <2>1, <2>2, <2>3
<1>6. PICK b \in {"accept", "read", "write"} : b = Branch(i)
  BY <1>5
<1>7. /\ srv'.state = "up" /\ srv'.conns = srv.conns /\ srv'.tx = srv.tx
      /\ srv'.turn = [i |-> i, act |-> b] /\ srv' \in Pongd
  <2>1. PICK s \in Pongd : s = srv
    BY <1>1 DEF Types
  <2>2. [i |-> i, act |-> b] \in Turns
    BY <1>1 DEF Turns, Types, Pongd
  <2>3. PICK tn \in Turns : tn = [i |-> i, act |-> b]
    BY <2>2
  <2>4. srv' = [s EXCEPT !.turn = tn]
    BY <1>2, <1>6, <2>1, <2>3
  <2>5. srv' \in Pongd
    BY <2>4 DEF Pongd
  <2>6. srv'.state = s.state /\ srv'.conns = s.conns /\ srv'.tx = s.tx /\ srv'.turn = tn
    BY <2>4 DEF Pongd
  <2> QED
    BY <1>1, <2>1, <2>3, <2>5, <2>6
<1>8. Types'
  BY <1>1, <1>3, <1>7 DEF Types
<1>9. TurnOK(srv', backlog', up', cliEnd')
  BY <1>3, <1>4, <1>5, <1>6, <1>7 DEF TurnOK
<1>10. ASSUME NEW d \in Client PROVE ClientOK(d)' /\ ServedOK(d)'
  <2>1. Same(d) /\ ClientOK(d) /\ ServedOK(d)
    BY <1>1, <1>3 DEF Same, Serving
  <2>2. SameFor(srv.tx, srv'.tx, d)
    BY <1>7, SameForItself
  <2> QED
    BY <1>3, <1>7, <2>1, <2>2, ClientKept, ServedKept
<1>11. ArrayOK(srv'.conns, backlog') /\ AnswersOK(srv'.conns, srv'.tx)
  BY <1>1, <1>3, <1>7 DEF Serving
<1> QED
  BY <1>7, <1>8, <1>9, <1>10, <1>11, ServerStep

LEMMA AcceptKeeps ==
  ASSUME EInv, Accept
  PROVE  EInv'
<1>1. srv.state = "up" /\ Types /\ Serving /\ \A d \in Client : ClientOK(d)
  BY DEF EInv, Accept, Turn
<1>2. backlog # <<>>
  BY <1>1 DEF Accept, Turn, Serving, TurnOK
<1>3. PICK a \in Seq(Client \cup {"listen"}) : a = srv.conns
  BY <1>1 DEF Types, Pongd
<1>4. PICK b \in Seq(Client) : b = backlog /\ b # <<>>
  BY <1>1, <1>2 DEF Types
<1>5. PICK n \in Nat : n = Len(a)
  OBVIOUS
<1>6. PICK l \in Nat : l = Len(b) /\ l >= 1
  BY <1>4
<1>7. PICK c \in Client : c = Head(b) /\ c = b[1]
  BY <1>4
<1>b. Tail(b) \in Seq(Client)
  BY <1>4
<1>8. PICK b2 \in Seq(Client) : b2 = Tail(b)
  BY <1>b
<1>9. Len(b2) = l - 1 /\ \A k \in 1 .. l - 1 : b2[k] = b[k + 1] /\ k + 1 \in 1 .. l
  BY <1>4, <1>6, <1>8
<1>a. Append(a, c) \in Seq(Client \cup {"listen"})
  OBVIOUS
<1>10. PICK a2 \in Seq(Client \cup {"listen"}) : a2 = Append(a, c)
  BY <1>a
<1>11. /\ Len(a2) = n + 1 /\ a2[n + 1] = c
       /\ \A k \in 1 .. n : a2[k] = a[k]
       /\ \A k \in 1 .. n + 1 : k \in 1 .. n \/ k = n + 1
  BY <1>5, <1>10
<1>12. /\ srv' = [srv EXCEPT !.conns = a2, !.cpt = @ + 1, !.turn = NoTurn]
       /\ backlog' = b2 /\ pc' = pc /\ conns' = conns /\ tx' = tx /\ asked' = asked
       /\ up' = up /\ down' = down /\ cliEnd' = cliEnd /\ srvEnd' = srvEnd /\ got' = got
  BY <1>1, <1>3, <1>4, <1>7, <1>8, <1>10 DEF Accept, Types, Pongd
<1>13. /\ srv'.state = "up" /\ srv'.conns = a2 /\ srv'.tx = srv.tx
       /\ srv'.turn = NoTurn /\ srv' \in Pongd
  <2>1. PICK s \in Pongd : s = srv
    BY <1>1 DEF Types
  <2>2. NoTurn \in Turns
    BY DEF NoTurn, Turns
  <2>3. s.cpt + 1 \in Int
    BY DEF Pongd
  <2>4. srv' = [s EXCEPT !.conns = a2, !.cpt = s.cpt + 1, !.turn = NoTurn]
    BY <1>12, <2>1 DEF Pongd
  <2>5. srv' \in Pongd
    BY <2>2, <2>3, <2>4 DEF Pongd
  <2>6. srv'.state = s.state /\ srv'.conns = a2 /\ srv'.tx = s.tx /\ srv'.turn = NoTurn
    BY <2>4 DEF Pongd
  <2> QED
    BY <1>1, <2>1, <2>5, <2>6
<1>14. Types'
  BY <1>1, <1>12, <1>13 DEF Types
<1>15. ArrayOK(a, b)
  BY <1>1, <1>3, <1>4 DEF Serving
<1>16. /\ n >= 1 /\ a[1] = "listen"
       /\ \A i, j \in 1 .. n : a[i] = a[j] => i = j
       /\ \A i, j \in 1 .. l : b[i] = b[j] => i = j
       /\ \A i \in 1 .. n, j \in 1 .. l : a[i] # b[j]
  BY <1>5, <1>6, <1>15 DEF ArrayOK
<1>17. ArrayOK(a2, b2)
  <2>0. 1 \in 1 .. l /\ 1 \in 1 .. n /\ \A k \in 1 .. l - 1 : k + 1 # 1 /\ k + 1 \in Int
    BY <1>6, <1>16
  <2>1. a2[1] = "listen" /\ n + 1 >= 1
    BY <1>11, <1>16, <2>0
  <2>2. \A i \in 1 .. n : a2[i] # c
    BY <1>7, <1>11, <1>16, <2>0
  <2>3. \A i, j \in 1 .. n + 1 : a2[i] = a2[j] => i = j
    BY <1>11, <1>16, <2>2
  <2>4. \A i, j \in 1 .. l - 1 : b2[i] = b2[j] => i = j
    <3> SUFFICES ASSUME NEW i \in 1 .. l - 1, NEW j \in 1 .. l - 1, b2[i] = b2[j]
                 PROVE  i = j
      OBVIOUS
    <3>1. i + 1 = j + 1
      BY <1>9, <1>16
    <3> QED
      BY <3>1
  <2>5. \A j \in 1 .. l - 1 : b2[j] # c
    BY <1>7, <1>9, <1>16, <2>0
  <2>6. \A i \in 1 .. n + 1, j \in 1 .. l - 1 : a2[i] # b2[j]
    <3> SUFFICES ASSUME NEW i \in 1 .. n + 1, NEW j \in 1 .. l - 1 PROVE a2[i] # b2[j]
      OBVIOUS
    <3>1. CASE i = n + 1
      BY <1>11, <2>5, <3>1
    <3>2. CASE i \in 1 .. n
      <4>1. b2[j] = b[j + 1] /\ j + 1 \in 1 .. l /\ a2[i] = a[i]
        BY <1>9, <1>11, <3>2
      <4> QED
        BY <1>16, <3>2, <4>1
    <3> QED
      BY <1>11, <3>1, <3>2
  <2> QED
    BY <1>9, <1>11, <2>1, <2>3, <2>4, <2>6 DEF ArrayOK
<1>18. ASSUME NEW d
       PROVE  (Among(a, d) \/ Among(b, d)) <=> (Among(a2, d) \/ Among(b2, d))
  <2>1. Among(a2, d) <=> (Among(a, d) \/ d = c)
    <3>1. n + 1 \in 1 .. n + 1 /\ \A k \in 1 .. n : k \in 1 .. n + 1
      OBVIOUS
    <3> QED
      BY <1>5, <1>11, <3>1 DEF Among
  <2>2. Among(b, d) <=> (d = c \/ Among(b2, d))
    <3>1. \A k \in 1 .. l : k = 1 \/ (k - 1 \in 1 .. l - 1 /\ (k - 1) + 1 = k)
      OBVIOUS
    <3>2. 1 \in 1 .. l
      BY <1>6
    <3>3. ASSUME NEW k \in 1 .. l, k # 1 PROVE \E j \in 1 .. l - 1 : b2[j] = b[k]
      <4>1. k - 1 \in 1 .. l - 1 /\ (k - 1) + 1 = k
        BY <3>1, <3>3
      <4>2. b2[k - 1] = b[k]
        BY <1>9, <4>1
      <4> QED
        BY <4>1, <4>2
    <3>4. ASSUME Among(b, d), d # c PROVE Among(b2, d)
      <4>1. PICK k \in 1 .. l : b[k] = d
        BY <1>6, <3>4 DEF Among
      <4>2. k # 1
        BY <1>7, <3>4, <4>1
      <4>3. PICK j \in 1 .. l - 1 : b2[j] = d
        BY <3>3, <4>1, <4>2
      <4> QED
        BY <1>9, <4>3 DEF Among
    <3>5. ASSUME Among(b2, d) PROVE Among(b, d)
      <4>1. PICK j \in 1 .. l - 1 : b2[j] = d
        BY <1>9, <3>5 DEF Among
      <4>2. j + 1 \in 1 .. l /\ b[j + 1] = d
        BY <1>9, <4>1
      <4> QED
        BY <1>6, <4>2 DEF Among
    <3>6. Among(b, c)
      BY <1>6, <1>7, <3>2 DEF Among
    <3> QED
      BY <3>4, <3>5, <3>6
  <2> QED
    BY <2>1, <2>2
<1>19. \A d : Among(a, d) => Among(a2, d)
  <2>1. \A k \in 1 .. n : k \in 1 .. n + 1
    OBVIOUS
  <2> QED
    BY <1>5, <1>11, <2>1 DEF Among
<1>20. AnswersOK(a2, srv.tx)
  BY <1>1, <1>3, <1>19 DEF Serving, AnswersOK
<1>21. TurnOK(srv', backlog', up', cliEnd')
  BY <1>13 DEF TurnOK, NoTurn
<1>22. ASSUME NEW d \in Client PROVE ClientOK(d)' /\ ServedOK(d)'
  <2>1. Same(d) /\ ClientOK(d) /\ ServedOK(d)
    BY <1>1, <1>12 DEF Same, Serving
  <2>2. SameFor(srv.tx, srv'.tx, d)
    BY <1>13, SameForItself
  <2>3. (Among(srv.conns, d) \/ Among(backlog, d))
          <=> (Among(srv'.conns, d) \/ Among(backlog', d))
    BY <1>3, <1>4, <1>12, <1>13, <1>18
  <2> QED
    BY <2>1, <2>2, <2>3, ClientKept, ServedKept
<1> QED
  BY <1>12, <1>13, <1>14, <1>17, <1>20, <1>21, <1>22, ServerStep

(* pongd ends, by a signal or because of a client.                         *)
LEMMA EndServerKeeps ==
  ASSUME EInv, NEW st \in {"failed", "stopped"}, NEW unread, EndServer(st, unread)
  PROVE  EInv'
<1>1. Types /\ \A d \in Client : ClientOK(d)
  BY DEF EInv
<1>2. /\ srv' = [srv EXCEPT !.state = st, !.turn = NoTurn, !.conns = <<>>, !.tx = <<>>]
      /\ backlog' = <<>> /\ up' = [c \in Client |-> <<>>]
      /\ pc' = pc /\ conns' = conns /\ tx' = tx /\ asked' = asked
      /\ down' = down /\ cliEnd' = cliEnd /\ got' = got
  BY DEF EndServer
<1>3. srv' \in Pongd /\ srv'.state = st
  <2>1. srv \in Pongd
    BY <1>1 DEF Types
  <2>2. NoTurn \in Turns
    BY DEF NoTurn, Turns
  <2>3. <<>> \in Seq(Msg) /\ <<>> \in Seq(Client \cup {"listen"})
    OBVIOUS
  <2>4. srv' \in Pongd
    BY <1>2, <2>1, <2>2, <2>3 DEF Pongd
  <2>5. srv'.state = st
    BY <1>2, <2>1 DEF Pongd
  <2> QED
    BY <2>4, <2>5
<1>4. srvEnd' \in [Client -> Ends]
  BY DEF EndServer, Ends
<1>5. backlog' \in Seq(Client) /\ up' \in [Client -> Seq(Msg)]
  BY <1>2
<1>6. Types'
  BY <1>1, <1>2, <1>3, <1>4, <1>5 DEF Types
<1>7. ASSUME NEW d \in Client PROVE ClientOK(d)'
  <2>1. up'[d] = <<>> /\ From(<<>>, d)
    BY <1>2 DEF From
  <2> QED
    BY <1>1, <1>2, <2>1 DEF ClientOK
<1>8. srv'.state # "up"
  BY <1>3
<1> QED
  BY <1>6, <1>7, <1>8 DEF EInv

(* The client pongd serves.                                                *)
LEMMA TalkerFacts ==
  ASSUME EInv, NEW act \in {"read", "write"}, Turn(act)
  PROVE  /\ srv.state = "up" /\ Types /\ Serving /\ (\A d \in Client : ClientOK(d))
         /\ srv.turn.i \in 1 .. Len(srv.conns) /\ srv.turn.i # 1
         /\ Talker \in Client /\ Talker = srv.conns[srv.turn.i]
         /\ Among(srv.conns, Talker) /\ cliEnd[Talker] # "none"
         /\ act = "read" => Readable(up[Talker], cliEnd[Talker])
         /\ act = "write" => HasMessage(srv.tx, Talker)
<1>1. srv.state = "up" /\ Types /\ Serving /\ \A d \in Client : ClientOK(d)
  BY DEF EInv, Turn
<1>2. /\ srv.turn.i \in 1 .. Len(srv.conns) /\ srv.conns[srv.turn.i] # "listen"
      /\ act = "read" => Readable(up[Talker], cliEnd[Talker])
      /\ act = "write" => HasMessage(srv.tx, Talker)
  BY <1>1 DEF Serving, TurnOK, Turn, Talker
<1>3. Talker \in Client /\ Talker = srv.conns[srv.turn.i]
  BY <1>1, <1>2 DEF Types, Pongd, Talker
<1>4. Among(srv.conns, Talker)
  BY <1>2, <1>3 DEF Among
<1>5. cliEnd[Talker] # "none"
  BY <1>1, <1>3, <1>4 DEF Serving, ServedOK, LinkOK
<1>6. srv.turn.i # 1
  BY <1>1, <1>2 DEF Serving, ArrayOK
<1> QED
  BY <1>1, <1>2, <1>3, <1>4, <1>5, <1>6

(* pongd reads one message, and answers it.                                *)
LEMMA AnswerKeeps ==
  ASSUME EInv, Turn("read"), NEW c \in Client, c = Talker, Len(up[c]) = 1,
         srv' = AnswerTo(srv, c, up[c][1]), up' = [up EXCEPT ![c] = <<>>],
         UNCHANGED <<backlog, pc, conns, tx, asked, down, cliEnd, srvEnd, got>>
  PROVE  EInv'
<1>1. /\ srv.state = "up" /\ Types /\ Serving /\ (\A d \in Client : ClientOK(d))
      /\ Among(srv.conns, c)
  BY TalkerFacts
<1>2. PICK u \in Seq(Msg) : u = up[c]
  BY <1>1 DEF Types
<1>3. u[1] \in Msg /\ u[1].from = c /\ Len(u) = 1
  BY <1>1, <1>2 DEF ClientOK, From
<1>4. PICK m0 \in Msg : m0 = u[1] /\ m0.from = c
  BY <1>3
<1>a. [[m0 EXCEPT !.fd = c] EXCEPT !.kind = strncpy([m0 EXCEPT !.fd = c].kind)] \in Msg
  BY DEF Msg, strncpy, Kinds
<1>5. PICK m \in Msg :
        m = [[m0 EXCEPT !.fd = c] EXCEPT !.kind = strncpy([m0 EXCEPT !.fd = c].kind)]
  BY <1>a
<1>6. m.fd = c /\ m.from = c /\ m.n = u[1].n
  BY <1>4, <1>5 DEF Msg
<1>7. PICK t \in Seq(Msg) : t = srv.tx
  BY <1>1 DEF Types, Pongd
<1>b. Append(t, m) \in Seq(Msg)
  OBVIOUS
<1>8. PICK t2 \in Seq(Msg) : t2 = Append(t, m)
  BY <1>b
<1>9. srv' = [srv EXCEPT !.tx = t2, !.turn = NoTurn]
  <2>1. srv' = [srv EXCEPT !.tx = ipc_messages_add(srv.tx, [m0 EXCEPT !.fd = c]), !.turn = NoTurn]
    BY <1>1, <1>2, <1>4 DEF AnswerTo, Types, Pongd
  <2>2. ipc_messages_add(srv.tx, [m0 EXCEPT !.fd = c]) = t2
    BY <1>5, <1>7, <1>8 DEF ipc_messages_add
  <2> QED
    BY <2>1, <2>2
<1>10. /\ srv'.state = "up" /\ srv'.conns = srv.conns /\ srv'.tx = t2
       /\ srv'.turn = NoTurn /\ srv' \in Pongd
  <2>1. srv \in Pongd /\ NoTurn \in Turns
    BY <1>1 DEF Types, NoTurn, Turns
  <2>2. srv' \in Pongd
    BY <1>9, <2>1 DEF Pongd
  <2>3. /\ srv'.state = "up" /\ srv'.conns = srv.conns /\ srv'.tx = t2
        /\ srv'.turn = NoTurn
    BY <1>1, <1>9, <2>1 DEF Pongd
  <2> QED
    BY <2>2, <2>3
<1>11. /\ backlog' = backlog /\ pc' = pc /\ conns' = conns /\ tx' = tx /\ asked' = asked
       /\ down' = down /\ cliEnd' = cliEnd /\ srvEnd' = srvEnd /\ got' = got
  OBVIOUS
<1>12. up' \in [Client -> Seq(Msg)] /\ up'[c] = <<>>
  BY <1>1 DEF Types
<1>13. Types'
  BY <1>1, <1>10, <1>11, <1>12 DEF Types
<1>14. ASSUME NEW d \in Client, d # c PROVE Same(d)
  BY <1>1, <1>11, <1>14 DEF Same, Types
<1>15. /\ Len(t2) = Len(t) + 1 /\ t2[Len(t) + 1] = m /\ Len(t) \in Nat
       /\ \A k \in 1 .. Len(t) : t2[k] = t[k]
       /\ \A k \in 1 .. Len(t) + 1 : k \in 1 .. Len(t) \/ k = Len(t) + 1
       /\ Len(t) + 1 \in 1 .. Len(t) + 1
  BY <1>8
<1>16. AnswersOK(srv.conns, t2)
  <2>1. \A k \in 1 .. Len(t) : t[k].fd = t[k].from /\ Among(srv.conns, t[k].fd)
    BY <1>1, <1>7 DEF Serving, AnswersOK
  <2> QED
    BY <1>1, <1>6, <1>15, <2>1 DEF AnswersOK
<1>17. TurnOK(srv', backlog', up', cliEnd')
  BY <1>10 DEF TurnOK, NoTurn
<1>18. ClientOK(c)'
  <2>1. From(<<>>, c)
    BY DEF From
  <2> QED
    BY <1>1, <1>11, <1>12, <2>1 DEF ClientOK
<1>19. ServedOK(c)'
  <2>1. ServedOK(c)
    BY <1>1 DEF Serving
  <2>2. LinkOK(c, srv'.conns, backlog', cliEnd'[c], srvEnd'[c])
    BY <1>10, <1>11, <2>1 DEF ServedOK
  <2>3. ASSUME c \in Pong
        PROVE  pc'[c] # "failed" /\ WayOK(c, pc'[c], up'[c], srv'.tx, down'[c])
    <3>1. pc[c] # "failed" /\ WayOK(c, pc[c], u, t, down[c])
      BY <1>2, <1>7, <2>1, <2>3 DEF ServedOK
    <3>2. u # <<>>
      BY <1>3, QueueCases
    <3>3. ~HasMessage(t, c) /\ down[c] = <<>> /\ pc[c] \in {"read", "killed"}
      BY <3>1, <3>2 DEF WayOK
    <3>4. HasMessage(t2, c)
      BY <1>6, <1>15 DEF HasMessage
    <3>5. Single(t2, c)
      BY <1>15, <3>3 DEF HasMessage, Single
    <3>6. Len(<<>>) <= 1
      OBVIOUS
    <3>7. WayOK(c, pc[c], <<>>, t2, <<>>)
      BY <3>3, <3>4, <3>5, <3>6 DEF WayOK
    <3> QED
      BY <1>10, <1>11, <1>12, <3>1, <3>3, <3>7
  <2>4. ASSUME cliEnd[c] = "up"
        PROVE  Conserved(c, tx'[c], up'[c], srv'.tx, down'[c], got'[c], asked'[c])
    <3>1. Conserved(c, tx[c], u, t, down[c], got[c], asked[c])
      BY <1>2, <1>7, <2>1, <2>4 DEF ServedOK
    <3>2. Conserved(c, tx[c], <<>>, t2, down[c], got[c], asked[c])
      BY <1>3, <1>6, <1>8, <3>1, ConservedRead
    <3> QED
      BY <1>10, <1>11, <1>12, <3>2
  <2>5. LeftOK(c, pc'[c], cliEnd'[c])
    BY <1>11, <2>1 DEF ServedOK
  <2> QED
    BY <1>11, <2>2, <2>3, <2>4, <2>5 DEF ServedOK
<1>20. ASSUME NEW d \in Client, d # c PROVE ClientOK(d)' /\ ServedOK(d)'
  <2>1. Same(d) /\ ClientOK(d) /\ ServedOK(d)
    BY <1>1, <1>14, <1>20 DEF Serving
  <2>2. m.fd # d /\ m.from # d
    BY <1>6, <1>20
  <2>3. SameFor(t, t2, d)
    BY <1>8, <2>2, AppendSame
  <2>4. SameFor(srv.tx, srv'.tx, d)
    BY <1>7, <1>10, <2>3
  <2> QED
    BY <1>10, <1>11, <2>1, <2>4, ClientKept, ServedKept
<1>21. ArrayOK(srv'.conns, backlog') /\ AnswersOK(srv'.conns, srv'.tx)
  BY <1>1, <1>10, <1>11, <1>16 DEF Serving
<1> QED
  BY <1>10, <1>13, <1>17, <1>18, <1>19, <1>20, <1>21, ServerStep

(* The connection of index i is removed from the array.                    *)
LEMMA ArrayRemoves ==
  ASSUME NEW a \in Seq(Client \cup {"listen"}), NEW b \in Seq(Client), ArrayOK(a, b),
         NEW i \in 1 .. Len(a), i # 1, NEW a2, a2 = SwapRemove(a, i)
  PROVE  /\ a2 \in Seq(Client \cup {"listen"}) /\ ArrayOK(a2, b)
         /\ \A d : d # a[i] => (Among(a2, d) <=> Among(a, d))
<1>1. PICK n \in Nat : n = Len(a)
  OBVIOUS
<1>a. PICK E : E = Client \cup {"listen"}
  OBVIOUS
<1>b. a \in Seq(E)
  BY <1>a
<1>c. /\ SwapRemove(a, i) \in Seq(E) /\ Len(SwapRemove(a, i)) = Len(a) - 1
      /\ \A k \in 1 .. Len(a) - 1 :
           SwapRemove(a, i)[k] = IF k = i THEN a[Len(a)] ELSE a[k]
  BY <1>b, SwapRemoveFacts
<1>2. /\ a2 \in Seq(Client \cup {"listen"}) /\ Len(a2) = n - 1
      /\ \A k \in 1 .. n - 1 : a2[k] = IF k = i THEN a[n] ELSE a[k]
  BY <1>1, <1>a, <1>c
<1> DEFINE at(k) == IF k = i THEN n ELSE k
<1>3. \A k \in 1 .. n - 1 : at(k) \in 1 .. n /\ a2[k] = a[at(k)]
  BY <1>1, <1>2
<1>4. \A j, k \in 1 .. n - 1 : at(j) = at(k) => j = k
  BY <1>1
<1>5. ASSUME NEW q \in 1 .. n, q # i PROVE \E k \in 1 .. n - 1 : at(k) = q
  <2>1. CASE q = n
    <3>1. i \in 1 .. n - 1 /\ at(i) = q
      BY <1>1, <1>5, <2>1
    <3> QED
      BY <3>1
  <2>2. CASE q # n
    <3>1. q \in 1 .. n - 1 /\ at(q) = q
      BY <1>5, <2>2
    <3> QED
      BY <3>1
  <2> QED
    BY <2>1, <2>2
<1>6. n - 1 >= 1 /\ 1 \in 1 .. n - 1 /\ at(1) = 1
  BY <1>1
<1> HIDE DEF at
<1>7. /\ n >= 1 /\ a[1] = "listen"
      /\ \A j, k \in 1 .. n : a[j] = a[k] => j = k
      /\ \A j, k \in 1 .. Len(b) : b[j] = b[k] => j = k
      /\ \A j \in 1 .. n, k \in 1 .. Len(b) : a[j] # b[k]
  BY <1>1 DEF ArrayOK
<1>8. \A j, k \in 1 .. n - 1 : a2[j] = a2[k] => j = k
  BY <1>3, <1>4, <1>7
<1>9. \A j \in 1 .. n - 1, k \in 1 .. Len(b) : a2[j] # b[k]
  BY <1>3, <1>7
<1>10. a2[1] = "listen"
  BY <1>3, <1>6, <1>7
<1>11. ArrayOK(a2, b)
  BY <1>2, <1>6, <1>7, <1>8, <1>9, <1>10 DEF ArrayOK
<1>12. ASSUME NEW d, d # a[i] PROVE Among(a2, d) <=> Among(a, d)
  <2>1. ASSUME Among(a2, d) PROVE Among(a, d)
    BY <1>1, <1>2, <1>3, <2>1 DEF Among
  <2>2. ASSUME Among(a, d) PROVE Among(a2, d)
    <3>1. PICK q \in 1 .. n : a[q] = d
      BY <1>1, <2>2 DEF Among
    <3>2. PICK k \in 1 .. n - 1 : at(k) = q
      BY <1>5, <1>12, <3>1
    <3>3. a2[k] = d
      BY <1>3, <3>1, <3>2
    <3> QED
      BY <1>2, <3>3 DEF Among
  <2> QED
    BY <2>1, <2>2
<1> QED
  BY <1>2, <1>11, <1>12

(* pongd forgets a client that has left with nothing to read.              *)
LEMMA ForgottenKeeps ==
  ASSUME EInv, Turn("read"), NEW c \in Client, c = Talker, cliEnd[c] = "gone",
         srv' = Forget(srv, srv.turn.i), UNCHANGED <<pc, conns, tx, asked, got, net>>
  PROVE  EInv'
<1>1. /\ srv.state = "up" /\ Types /\ Serving /\ (\A d \in Client : ClientOK(d))
      /\ srv.turn.i \in 1 .. Len(srv.conns) /\ srv.turn.i # 1 /\ c = srv.conns[srv.turn.i]
  BY TalkerFacts
<1>2. PICK a \in Seq(Client \cup {"listen"}) : a = srv.conns
  BY <1>1 DEF Types, Pongd
<1>3. PICK b \in Seq(Client) : b = backlog
  BY <1>1 DEF Types
<1>4. PICK i \in 1 .. Len(a) : i = srv.turn.i /\ i # 1 /\ c = a[i]
  BY <1>1, <1>2
<1>5. ArrayOK(a, b)
  BY <1>1, <1>2, <1>3 DEF Serving
<1>6. /\ SwapRemove(a, i) \in Seq(Client \cup {"listen"}) /\ ArrayOK(SwapRemove(a, i), b)
      /\ \A d : d # c => (Among(SwapRemove(a, i), d) <=> Among(a, d))
  BY <1>4, <1>5, ArrayRemoves
<1>7. PICK a2 \in Seq(Client \cup {"listen"}) : a2 = SwapRemove(a, i)
  BY <1>6
<1>8. PICK t \in Seq(Msg) : t = srv.tx
  BY <1>1 DEF Types, Pongd
<1>9. /\ RemoveFor(t, {c}) \in Seq(Msg)
      /\ \A j \in 1 .. Len(RemoveFor(t, {c})) :
           \E k \in 1 .. Len(t) : RemoveFor(t, {c})[j] = t[k] /\ t[k].fd \notin {c}
  BY RemoveForFacts
<1>10. PICK t2 \in Seq(Msg) : t2 = RemoveFor(t, {c})
  BY <1>9
<1>11. \A j \in 1 .. Len(t2) : \E k \in 1 .. Len(t) : t2[j] = t[k] /\ t[k].fd # c
  BY <1>9, <1>10
<1>12. PICK n \in Int : n = srv.cpt - 1
  BY <1>1 DEF Types, Pongd
<1>13. srv' = [srv EXCEPT !.conns = a2, !.cpt = n, !.turn = NoTurn, !.tx = t2]
  <2>1. srv \in Pongd
    BY <1>1 DEF Types
  <2>2. srv' = [srv EXCEPT !.conns = SwapRemove(srv.conns, srv.turn.i), !.cpt = srv.cpt - 1,
                           !.turn = NoTurn,
                           !.tx = ipc_remove_messages_for_fd(srv.tx, srv.conns[srv.turn.i])]
    BY <2>1 DEF Forget, Pongd
  <2>3. ipc_remove_messages_for_fd(srv.tx, srv.conns[srv.turn.i]) = t2
    BY <1>2, <1>4, <1>8, <1>10 DEF ipc_remove_messages_for_fd
  <2> QED
    BY <1>2, <1>4, <1>7, <1>12, <2>2, <2>3
<1>14. /\ srv'.state = "up" /\ srv'.conns = a2 /\ srv'.tx = t2
       /\ srv'.turn = NoTurn /\ srv' \in Pongd
  <2>1. srv \in Pongd /\ NoTurn \in Turns
    BY <1>1 DEF Types, NoTurn, Turns
  <2>2. srv' \in Pongd
    BY <1>13, <2>1 DEF Pongd
  <2>3. srv'.state = "up" /\ srv'.conns = a2 /\ srv'.tx = t2 /\ srv'.turn = NoTurn
    BY <1>1, <1>13, <2>1 DEF Pongd
  <2> QED
    BY <2>2, <2>3
<1>15. /\ backlog' = backlog /\ pc' = pc /\ conns' = conns /\ tx' = tx /\ asked' = asked
       /\ up' = up /\ down' = down /\ cliEnd' = cliEnd /\ srvEnd' = srvEnd /\ got' = got
  BY DEF net
<1>16. Types'
  BY <1>1, <1>14, <1>15 DEF Types
<1>17. ASSUME NEW d \in Client PROVE Same(d) /\ ClientOK(d) /\ ServedOK(d) /\ ClientOK(d)'
  <2>1. Same(d) /\ ClientOK(d) /\ ServedOK(d)
    BY <1>1, <1>15 DEF Same, Serving
  <2> QED
    BY <2>1, ClientKept
<1>18. \A k \in 1 .. Len(t) : t[k].fd = t[k].from /\ Among(a, t[k].fd)
  BY <1>1, <1>2, <1>8 DEF Serving, AnswersOK
<1>19. AnswersOK(a2, t2)
  <2> SUFFICES ASSUME NEW j \in 1 .. Len(t2)
               PROVE  t2[j].fd = t2[j].from /\ Among(a2, t2[j].fd)
    BY DEF AnswersOK
  <2>1. PICK k \in 1 .. Len(t) : t2[j] = t[k] /\ t[k].fd # c
    BY <1>11
  <2> QED
    BY <1>6, <1>7, <1>18, <2>1
<1>20. TurnOK(srv', backlog', up', cliEnd')
  BY <1>14 DEF TurnOK, NoTurn
<1>21. ServedOK(c)'
  <2>1. ServedOK(c) /\ ClientOK(c)
    BY <1>17
  <2>2. LinkOK(c, srv'.conns, backlog', cliEnd'[c], srvEnd'[c])
    <3>1. LinkOK(c, srv.conns, backlog, cliEnd[c], srvEnd[c])
      BY <2>1 DEF ServedOK
    <3> QED
      BY <1>15, <3>1 DEF LinkOK
  <2>3. ASSUME c \in Pong
        PROVE  pc'[c] # "failed" /\ WayOK(c, pc'[c], up'[c], srv'.tx, down'[c])
    <3>1. pc[c] # "failed" /\ WayOK(c, pc[c], up[c], t, down[c])
      BY <1>8, <2>1, <2>3 DEF ServedOK
    <3>2. pc[c] # "read"
      BY <2>1, <2>3 DEF ClientOK, PongOK
    <3>3. ~HasMessage(t2, c) /\ Single(t2, c)
      BY <1>11 DEF HasMessage, Single
    <3>4. WayOK(c, pc[c], up[c], t2, down[c])
      BY <3>1, <3>2, <3>3 DEF WayOK
    <3> QED
      BY <1>14, <1>15, <3>1, <3>4
  <2>4. LeftOK(c, pc'[c], cliEnd'[c]) /\ cliEnd'[c] # "up"
    BY <1>15, <2>1 DEF ServedOK
  <2> QED
    BY <2>2, <2>3, <2>4 DEF ServedOK
<1>22. ASSUME NEW d \in Client, d # c PROVE ServedOK(d)'
  <2>1. Same(d) /\ ServedOK(d)
    BY <1>17
  <2>2. ToAuthor(t) /\ t2 = ipc_remove_messages_for_fd(t, c)
    BY <1>10, <1>18 DEF ToAuthor, ipc_remove_messages_for_fd
  <2>3. SameFor(t, t2, d)
    BY <1>22, <2>2, RemoveSame
  <2>4. SameFor(srv.tx, srv'.tx, d)
    BY <1>8, <1>14, <2>3
  <2>5. (Among(srv.conns, d) \/ Among(backlog, d))
          <=> (Among(srv'.conns, d) \/ Among(backlog', d))
    BY <1>2, <1>6, <1>7, <1>14, <1>15, <1>22
  <2> QED
    BY <2>1, <2>4, <2>5, ServedKept
<1>23. ArrayOK(srv'.conns, backlog') /\ AnswersOK(srv'.conns, srv'.tx)
  BY <1>3, <1>6, <1>7, <1>14, <1>15, <1>19
<1> QED
  BY <1>14, <1>16, <1>17, <1>20, <1>21, <1>22, <1>23, ServerStep

LEMMA ReadKeeps ==
  ASSUME EInv, Read
  PROVE  EInv'
<1>1. Turn("read")
  BY DEF Read
<1>2. /\ srv.state = "up" /\ Types /\ Serving /\ (\A d \in Client : ClientOK(d))
      /\ Talker \in Client /\ cliEnd[Talker] # "none"
      /\ Readable(up[Talker], cliEnd[Talker])
  BY <1>1, TalkerFacts
<1>3. PICK c \in Client : c = Talker
  BY <1>2
<1>4. up[c] \in Seq(Msg) /\ ServedOK(c)
  BY <1>2 DEF Types, Serving
<1>5. PICK o : o = ReadOutcome(up[c], cliEnd[c])
  OBVIOUS
<1>6. CASE o = "message"
  <2>1. Len(up[c]) = 1
    BY <1>4, <1>5, <1>6, ReadFacts
  <2>2. /\ srv' = AnswerTo(srv, c, up[c][1]) /\ up' = [up EXCEPT ![c] = <<>>]
        /\ UNCHANGED <<backlog, pc, conns, tx, asked, down, cliEnd, srvEnd, got>>
    BY <1>3, <1>5, <1>6 DEF Read
  <2> QED
    BY <1>1, <1>3, <2>1, <2>2, AnswerKeeps
<1>7. CASE o = "closed"
  <2>1. cliEnd[c] = "gone"
    BY <1>4, <1>5, <1>7, ReadFacts
  <2>2. srv' = Forget(srv, srv.turn.i) /\ UNCHANGED <<pc, conns, tx, asked, got, net>>
    BY <1>3, <1>5, <1>7 DEF Read
  <2> QED
    BY <1>1, <1>3, <2>1, <2>2, ForgottenKeeps
<1>8. CASE o \in {"parsing", "error"}
  <2>1. EndServer("failed", Unread \ {c})
    BY <1>3, <1>5, <1>8 DEF Read
  <2> QED
    BY <2>1, EndServerKeeps
<1> QED
  BY <1>4, <1>5, <1>6, <1>7, <1>8, ReadFacts

LEMMA WriteServerKeeps ==
  ASSUME EInv, WriteServer
  PROVE  EInv'
<1>0. Turn("write")
  BY DEF WriteServer
<1>1. /\ srv.state = "up" /\ Types /\ Serving /\ (\A d \in Client : ClientOK(d))
      /\ Talker \in Client /\ HasMessage(srv.tx, Talker)
  BY <1>0, TalkerFacts
<1>2. PICK c \in Client : c = Talker
  BY <1>1
<1>3. PICK t \in Seq(Msg) : t = srv.tx
  BY <1>1 DEF Types, Pongd
<1>4. FirstFor(t, c) \in 1 .. Len(t) /\ t[FirstFor(t, c)].fd = c
  BY <1>1, <1>2, <1>3, FirstForFacts
<1>5. PICK k \in 1 .. Len(t) : k = FirstFor(t, c) /\ t[k].fd = c
  BY <1>4
<1>6. \A j \in 1 .. Len(t) : t[j].fd = t[j].from /\ Among(srv.conns, t[j].fd)
  BY <1>1, <1>3 DEF Serving, AnswersOK
<1>a. SwapRemove(t, k) \in Seq(Msg)
  BY SwapKeepsAll
<1>7. PICK t2 \in Seq(Msg) : t2 = SwapRemove(t, k)
  BY <1>a
<1>8. PICK m \in Msg : m = t[k] /\ m.from = c /\ m.fd = c
  BY <1>5, <1>6
<1>9. PICK d0 \in Seq(Msg) : d0 = down[c]
  BY <1>1 DEF Types
<1>b. Append(d0, m) \in Seq(Msg)
  OBVIOUS
<1>10. PICK d2 \in Seq(Msg) : d2 = IF cliEnd[c] = "up" THEN Append(d0, m) ELSE d0
  BY <1>b
<1>11. srv' = [srv EXCEPT !.tx = t2, !.turn = NoTurn]
  <2>1. srv' = [srv EXCEPT !.tx = ipc_messages_del(srv.tx, FirstFor(srv.tx, Talker)),
                           !.turn = NoTurn]
    BY <1>1 DEF WriteServer, Types, Pongd
  <2>2. ipc_messages_del(srv.tx, FirstFor(srv.tx, Talker)) = t2
    BY <1>2, <1>3, <1>5, <1>7 DEF ipc_messages_del
  <2> QED
    BY <2>1, <2>2
<1>12. /\ srv'.state = "up" /\ srv'.conns = srv.conns /\ srv'.tx = t2
       /\ srv'.turn = NoTurn /\ srv' \in Pongd
  <2>1. srv \in Pongd /\ NoTurn \in Turns
    BY <1>1 DEF Types, NoTurn, Turns
  <2>2. srv' \in Pongd
    BY <1>11, <2>1 DEF Pongd
  <2>3. /\ srv'.state = "up" /\ srv'.conns = srv.conns /\ srv'.tx = t2
        /\ srv'.turn = NoTurn
    BY <1>1, <1>11, <2>1 DEF Pongd
  <2> QED
    BY <2>2, <2>3
<1>13. /\ backlog' = backlog /\ pc' = pc /\ conns' = conns /\ tx' = tx /\ asked' = asked
       /\ up' = up /\ cliEnd' = cliEnd /\ srvEnd' = srvEnd /\ got' = got
  BY DEF WriteServer
<1>14. down' = [down EXCEPT ![c] = d2]
  <2>1. down' = IF cliEnd[c] = "up" THEN [down EXCEPT ![c] = Append(@, m)] ELSE down
    BY <1>2, <1>3, <1>5, <1>8 DEF WriteServer
  <2>2. down = [down EXCEPT ![c] = d0] /\ [down EXCEPT ![c] = Append(@, m)] = [down EXCEPT ![c] = Append(d0, m)]
    BY <1>1, <1>9 DEF Types
  <2> QED
    BY <1>10, <2>1, <2>2
<1>15. down' \in [Client -> Seq(Msg)] /\ down'[c] = d2
  BY <1>1, <1>14 DEF Types
<1>16. Types'
  BY <1>1, <1>12, <1>13, <1>15 DEF Types
<1>17. ASSUME NEW d \in Client, d # c PROVE Same(d)
  BY <1>1, <1>13, <1>14, <1>17 DEF Same, Types
<1>18. AnswersOK(srv.conns, t2)
  <2>1. \A j \in 1 .. Len(t2) : \E q \in 1 .. Len(t) : t2[j] = t[q]
    BY <1>7, SwapKeepsAll
  <2> QED
    BY <1>6, <2>1 DEF AnswersOK
<1>19. TurnOK(srv', backlog', up', cliEnd')
  BY <1>12 DEF TurnOK, NoTurn
<1>20. ServedOK(c) /\ ClientOK(c)
  BY <1>1 DEF Serving
<1>21. ClientOK(c)'
  <2>1. From(d0, c)
    BY <1>9, <1>20 DEF ClientOK
  <2>2. From(d2, c)
    BY <1>8, <1>10, <2>1 DEF From
  <2>3. cliEnd[c] # "none"
    BY <1>0, <1>2, TalkerFacts
  <2> QED
    BY <1>13, <1>15, <1>20, <2>2, <2>3 DEF ClientOK
<1>22. ServedOK(c)'
  <2>1. LinkOK(c, srv'.conns, backlog', cliEnd'[c], srvEnd'[c])
        /\ LeftOK(c, pc'[c], cliEnd'[c])
    BY <1>12, <1>13, <1>20 DEF ServedOK
  <2>2. ASSUME c \in Pong
        PROVE  pc'[c] # "failed" /\ WayOK(c, pc'[c], up'[c], srv'.tx, down'[c])
    <3>1. pc[c] # "failed" /\ WayOK(c, pc[c], up[c], t, d0)
      BY <1>3, <1>9, <1>20, <2>2 DEF ServedOK
    <3>2. HasMessage(t, c)
      BY <1>1, <1>2, <1>3
    <3>3. pc[c] \in {"read", "killed"} /\ up[c] = <<>> /\ d0 = <<>> /\ Single(t, c)
      BY <3>1, <3>2 DEF WayOK
    <3>4. cliEnd[c] = "up" <=> pc[c] = "read"
      BY <1>20, <2>2, <3>3 DEF ClientOK, PongOK
    <3>5. d2 = IF pc[c] = "read" THEN Append(<<>>, m) ELSE <<>>
      BY <1>10, <3>3, <3>4
    <3>6. /\ Len(d2) <= 1 /\ Len(<<>>) <= 1
          /\ pc[c] = "read" => d2 # <<>>
      BY <3>5
    <3>7. \A j \in 1 .. Len(t2) : t2[j].fd # c
      <4>0. /\ Len(t2) = Len(t) - 1
            /\ \A q \in 1 .. Len(t) - 1 : t2[q] = IF q = k THEN t[Len(t)] ELSE t[q]
        BY <1>7, SwapRemoveFacts
      <4> SUFFICES ASSUME NEW j \in 1 .. Len(t2), t2[j].fd = c PROVE FALSE
        OBVIOUS
      <4>1. /\ Len(t2) = Len(t) - 1 /\ Len(t) \in Nat /\ j \in 1 .. Len(t) - 1
            /\ t2[j] = IF j = k THEN t[Len(t)] ELSE t[j]
        BY <4>0
      <4>2. \A q \in 1 .. Len(t) : t[q].fd = c => q = k
        BY <1>5, <3>3 DEF Single
      <4>3. CASE j = k
        <5>1. Len(t) \in 1 .. Len(t) /\ t[Len(t)].fd = c /\ Len(t) # k
          BY <4>1, <4>3
        <5> QED
          BY <4>2, <5>1
      <4>4. CASE j # k
        <5>1. j \in 1 .. Len(t) /\ t[j].fd = c
          BY <4>1, <4>4
        <5> QED
          BY <4>2, <4>4, <5>1
      <4> QED
        BY <4>3, <4>4
    <3>8. ~HasMessage(t2, c) /\ Single(t2, c)
      BY <3>7 DEF HasMessage, Single
    <3>9. WayOK(c, pc[c], <<>>, t2, d2)
      BY <3>3, <3>6, <3>8 DEF WayOK
    <3> QED
      BY <1>12, <1>13, <1>15, <3>1, <3>3, <3>9
  <2>3. ASSUME cliEnd[c] = "up"
        PROVE  Conserved(c, tx'[c], up'[c], srv'.tx, down'[c], got'[c], asked'[c])
    <3>1. Conserved(c, tx[c], up[c], t, d0, got[c], asked[c])
      BY <1>3, <1>9, <1>20, <2>3 DEF ServedOK
    <3>2. t[k].from = c /\ d2 = Append(d0, t[k])
      BY <1>8, <1>10, <2>3
    <3>3. Conserved(c, tx[c], up[c], t2, d2, got[c], asked[c])
      BY <1>7, <3>1, <3>2, ConservedWrite
    <3> QED
      BY <1>12, <1>13, <1>15, <3>3
  <2> QED
    BY <1>13, <2>1, <2>2, <2>3 DEF ServedOK
<1>23. ASSUME NEW d \in Client, d # c PROVE ClientOK(d)' /\ ServedOK(d)'
  <2>1. Same(d) /\ ClientOK(d) /\ ServedOK(d)
    BY <1>1, <1>17, <1>23 DEF Serving
  <2>2. ToAuthor(t) /\ t[k].fd # d
    BY <1>5, <1>6, <1>23 DEF ToAuthor
  <2>3. SameFor(t, t2, d)
    BY <1>7, <2>2, SwapSame
  <2>4. SameFor(srv.tx, srv'.tx, d)
    BY <1>3, <1>12, <2>3
  <2> QED
    BY <1>12, <1>13, <2>1, <2>4, ClientKept, ServedKept
<1>24. ArrayOK(srv'.conns, backlog') /\ AnswersOK(srv'.conns, srv'.tx)
  BY <1>1, <1>12, <1>13, <1>18 DEF Serving
<1> QED
  BY <1>12, <1>16, <1>19, <1>21, <1>22, <1>23, <1>24, ServerStep

-----------------------------------------------------------------------------
(* The invariant is inductive.                                             *)

LEMMA EInvInit == Init => EInv
<1> SUFFICES ASSUME Init PROVE EInv
  OBVIOUS
<1>1. /\ srv.state = "up" /\ srv.conns = <<"listen">> /\ srv.tx = <<>>
      /\ srv.cpt = 0 /\ srv.turn = NoTurn /\ backlog = <<>>
  BY DEF Init
<1>2. /\ <<>> \in Seq(Msg) /\ <<>> \in Seq(Client) /\ <<>> \in Seq({"sock", "stdin"})
      /\ <<"listen">> \in Seq(Client \cup {"listen"}) /\ Len(<<>>) = 0
  OBVIOUS
<1>3. NoTurn \in Turns
  BY DEF NoTurn, Turns
<1>4. srv \in Pongd
  BY <1>2, <1>3 DEF Init, Pongd
<1>5. "start" \in Steps /\ "none" \in Ends /\ 0 \in Nat
  BY DEF Steps, Ends
<1>6. Types
  BY <1>2, <1>4, <1>5 DEF Init, Types
<1>7. ASSUME NEW c \in Client
      PROVE  /\ pc[c] = "start" /\ tx[c] = <<>> /\ up[c] = <<>> /\ down[c] = <<>>
             /\ got[c] = <<>> /\ asked[c] = 0 /\ cliEnd[c] = "none" /\ srvEnd[c] = "none"
  BY DEF Init
<1>8. ASSUME NEW c \in Client PROVE ClientOK(c)
  <2>1. From(<<>>, c)
    BY DEF From
  <2>2. PongOK("start", "none", <<>>)
    BY DEF PongOK
  <2>3. SpamOK("start", "none", conns[c], <<>>)
    BY DEF SpamOK, Active
  <2> QED
    BY <1>7, <2>1, <2>2, <2>3 DEF ClientOK
<1>9. ASSUME NEW c \in Client PROVE ServedOK(c)
  <2>1. Len(<<"listen">>) = 1 /\ <<"listen">>[1] = "listen" /\ c # "listen"
    BY ClientAssumption
  <2>2. ~Among(srv.conns, c) /\ ~Among(backlog, c)
    BY <1>1, <1>2, <2>1 DEF Among
  <2>3. LinkOK(c, srv.conns, backlog, "none", "none")
    BY <2>2 DEF LinkOK
  <2>4. ~HasMessage(<<>>, c) /\ Single(<<>>, c)
    BY DEF HasMessage, Single
  <2>5. WayOK(c, "start", <<>>, <<>>, <<>>)
    BY <1>2, <2>4 DEF WayOK
  <2> QED
    BY <1>1, <1>2, <1>7, <2>3, <2>5 DEF ServedOK, LeftOK
<1>10. ArrayOK(srv.conns, backlog)
  <2>1. Len(<<"listen">>) = 1 /\ <<"listen">>[1] = "listen"
    OBVIOUS
  <2> QED
    BY <1>1, <1>2, <2>1 DEF ArrayOK
<1>11. AnswersOK(srv.conns, srv.tx) /\ TurnOK(srv, backlog, up, cliEnd)
  BY <1>1, <1>2 DEF AnswersOK, TurnOK, NoTurn
<1> QED
  BY <1>1, <1>6, <1>8, <1>9, <1>10, <1>11 DEF EInv, Serving

LEMMA UnchangedKeeps ==
  ASSUME EInv, UNCHANGED vars
  PROVE  EInv'
BY DEF EInv, Types, ClientOK, Serving, ServedOK, vars

LEMMA EInvNext == EInv /\ [Next]_vars => EInv'
<1> SUFFICES ASSUME EInv, [Next]_vars PROVE EInv'
  OBVIOUS
<1>1. CASE main_loop
  BY <1>1, PollServerKeeps, AcceptKeeps, ReadKeeps, WriteServerKeeps DEF main_loop
<1>2. CASE exit_program
  <2>1. EndServer("stopped", Unread) /\ "stopped" \in {"failed", "stopped"}
    BY <1>2 DEF exit_program
  <2> QED
    BY <2>1, EndServerKeeps
<1>3. ASSUME NEW c \in Pong, Connect(c, "write", <<"sock">>) PROVE EInv'
  <2>1. c \in Client /\ c \notin Spam
    BY ClientAssumption DEF Client
  <2> QED
    BY <1>3, <2>1, ConnectKeeps
<1>4. ASSUME NEW c \in Pong, PongLoop(c) PROVE EInv'
  BY <1>4, PongWriteKeeps, PongReadKeeps, PongCloseKeeps DEF PongLoop
<1>5. ASSUME NEW c \in Spam, Connect(c, "wait", <<"sock", "stdin">>) PROVE EInv'
  <2>1. c \in Client /\ c \notin Pong
    BY ClientAssumption DEF Client
  <2> QED
    BY <1>5, <2>1, ConnectKeeps
<1>6. ASSUME NEW c \in Spam, PollStdin(c) PROVE EInv'
  BY <1>6, PollStdinKeeps
<1>7. ASSUME NEW c \in Spam, SpamLoop(c) PROVE EInv'
  BY <1>7, PollSpamKeeps, SpamInKeeps, SpamOutKeeps, SpamOutStdinKeeps, SpamLineKeeps,
     SpamQuitKeeps DEF SpamLoop
<1>8. ASSUME NEW c \in Signalled, Kill(c) PROVE EInv'
  BY <1>8, KillKeeps
<1>9. CASE UNCHANGED vars
  BY <1>9, UnchangedKeeps
<1> QED
  BY <1>1, <1>2, <1>3, <1>4, <1>5, <1>6, <1>7, <1>8, <1>9 DEF Next

-----------------------------------------------------------------------------
(* What the invariant says of the places of EchoConserved.                 *)

Names == {"out", "up", "pongd", "down", "got"}

(* A place is a position of one of the five lists.                         *)
LEMMA TrailLists ==
  ASSUME Types, NEW c \in Client
  PROVE  /\ DOMAIN Trail(c) = Names
         /\ Trail(c)["out"] = tx[c] /\ Trail(c)["up"] = up[c] /\ Trail(c)["pongd"] = srv.tx
         /\ Trail(c)["down"] = down[c] /\ Trail(c)["got"] = got[c]
         /\ \A l \in Names : Trail(c)[l] \in Seq(Msg)
<1>1. /\ tx[c] \in Seq(Msg) /\ up[c] \in Seq(Msg) /\ srv.tx \in Seq(Msg)
      /\ down[c] \in Seq(Msg) /\ got[c] \in Seq(Msg)
  BY DEF Types, Pongd
<1>2. /\ DOMAIN Trail(c) = Names
      /\ Trail(c)["out"] = tx[c] /\ Trail(c)["up"] = up[c] /\ Trail(c)["pongd"] = srv.tx
      /\ Trail(c)["down"] = down[c] /\ Trail(c)["got"] = got[c]
  BY DEF Trail, Names
<1> QED
  BY <1>1, <1>2 DEF Names

LEMMA PlaceFacts ==
  ASSUME Types, NEW c \in Client, AnswersOK(srv.conns, srv.tx), ClientOK(c)
  PROVE  /\ \A p \in Places(c) :
              /\ p[1] \in Names /\ p = <<p[1], p[2]>>
              /\ p[2] \in 1 .. Len(Trail(c)[p[1]])
              /\ Trail(c)[p[1]][p[2]].from = c
         /\ \A l \in Names : \A k \in 1 .. Len(Trail(c)[l]) :
              Trail(c)[l][k].from = c => <<l, k>> \in Places(c)
<1>1. DOMAIN Trail(c) = Names /\ \A l \in Names : DOMAIN Trail(c)[l] = 1 .. Len(Trail(c)[l])
  BY TrailLists
<1>2. ASSUME NEW p \in Places(c)
      PROVE  /\ p[1] \in Names /\ p = <<p[1], p[2]>>
             /\ p[2] \in 1 .. Len(Trail(c)[p[1]])
             /\ p[1] = "pongd" => srv.tx[p[2]].fd = c
  <2>1. p \in UNION {{l} \X DOMAIN Trail(c)[l] : l \in Names}
        /\ (p[1] = "pongd" => srv.tx[p[2]].fd = c)
    BY <1>1 DEF Places
  <2>2. PICK l \in Names : p \in {l} \X DOMAIN Trail(c)[l]
    BY <2>1
  <2>3. p = <<p[1], p[2]>> /\ p[1] = l /\ p[2] \in DOMAIN Trail(c)[l]
    BY <2>2
  <2> QED
    BY <1>1, <2>1, <2>3
<1>3. ASSUME NEW p \in Places(c) PROVE Trail(c)[p[1]][p[2]].from = c
  <2>1. CASE p[1] = "pongd"
    BY <1>2, <2>1, TrailLists DEF AnswersOK
  <2>2. CASE p[1] # "pongd"
    <3>1. \A l \in Names : l # "pongd" => From(Trail(c)[l], c)
      BY TrailLists DEF Names, ClientOK
    <3> QED
      BY <1>2, <2>2, <3>1 DEF From
  <2> QED
    BY <2>1, <2>2
<1>4. ASSUME NEW l \in Names, NEW k \in 1 .. Len(Trail(c)[l]), Trail(c)[l][k].from = c
      PROVE  <<l, k>> \in Places(c)
  <2>1. <<l, k>> \in {l} \X DOMAIN Trail(c)[l]
    BY <1>1
  <2>2. <<l, k>> \in UNION {{m} \X DOMAIN Trail(c)[m] : m \in DOMAIN Trail(c)}
    BY <1>1, <2>1
  <2>3. l = "pongd" => srv.tx[k].fd = c
    BY <1>4, TrailLists DEF AnswersOK
  <2> QED
    BY <2>2, <2>3 DEF Places
<1> QED
  BY <1>2, <1>3, <1>4

(* The five sets of numbers, by the names of their lists.                  *)
LEMMA NumbersApart ==
  ASSUME Types, NEW c \in Client,
         Conserved(c, tx[c], up[c], srv.tx, down[c], got[c], asked[c])
  PROVE  /\ \A l \in Names : Once(Trail(c)[l], c)
         /\ \A l \in Names : \A x \in Numbers(Trail(c)[l], c) : x \in 1 .. asked[c]
         /\ \A x \in 1 .. asked[c] : \E l \in Names : x \in Numbers(Trail(c)[l], c)
         /\ \A l, m \in Names : \A x \in Numbers(Trail(c)[l], c) :
              x \in Numbers(Trail(c)[m], c) => l = m
<1>1. /\ Once(Trail(c)["out"], c) /\ Once(Trail(c)["up"], c) /\ Once(Trail(c)["pongd"], c)
      /\ Once(Trail(c)["down"], c) /\ Once(Trail(c)["got"], c)
  BY TrailLists DEF Conserved
<1> DEFINE N(l) == Numbers(Trail(c)[l], c)
<1>2. Partition(N("out"), N("up"), N("pongd"), N("down"), N("got"), 1 .. asked[c])
  BY TrailLists DEF Conserved
<1> HIDE DEF N
<1>3. \A l \in Names : \A x \in N(l) : x \in 1 .. asked[c]
  BY <1>2 DEF Names, Partition
<1>4. \A x \in 1 .. asked[c] : \E l \in Names : x \in N(l)
  BY <1>2 DEF Names, Partition
<1>5. \A l, m \in Names : \A x \in N(l) : x \in N(m) => l = m
  BY <1>2 DEF Names, Partition
<1>6. \A l \in Names : Once(Trail(c)[l], c)
  BY <1>1 DEF Names
<1> QED
  BY <1>3, <1>4, <1>5, <1>6 DEF N

LEMMA EInvConserves == EInv => EchoConserved
<1> SUFFICES ASSUME EInv, NEW c \in Client, srv.state = "up", cliEnd[c] = "up"
             PROVE  /\ \A p \in Places(c) :
                         /\ Trail(c)[p[1]][p[2]].from = c
                         /\ Trail(c)[p[1]][p[2]].n \in 1 .. asked[c]
                    /\ \A n \in 1 .. asked[c] :
                         \E p \in Places(c) : Trail(c)[p[1]][p[2]].n = n
                    /\ \A p, q \in Places(c) :
                         Trail(c)[p[1]][p[2]].n = Trail(c)[q[1]][q[2]].n => p = q
  BY DEF EchoConserved
<1>1. /\ Types /\ ClientOK(c) /\ AnswersOK(srv.conns, srv.tx)
      /\ Conserved(c, tx[c], up[c], srv.tx, down[c], got[c], asked[c])
  BY DEF EInv, Serving, ServedOK
<1> DEFINE L(l) == Trail(c)[l]
<1>2. /\ \A p \in Places(c) :
           /\ p[1] \in Names /\ p = <<p[1], p[2]>>
           /\ p[2] \in 1 .. Len(L(p[1])) /\ L(p[1])[p[2]].from = c
      /\ \A l \in Names : \A k \in 1 .. Len(L(l)) :
           L(l)[k].from = c => <<l, k>> \in Places(c)
  BY <1>1, PlaceFacts
<1>3. /\ \A l \in Names : Once(L(l), c)
      /\ \A l \in Names : \A x \in Numbers(L(l), c) : x \in 1 .. asked[c]
      /\ \A x \in 1 .. asked[c] : \E l \in Names : x \in Numbers(L(l), c)
      /\ \A l, m \in Names : \A x \in Numbers(L(l), c) : x \in Numbers(L(m), c) => l = m
  BY <1>1, NumbersApart
<1>4. \A l \in Names : L(l) \in Seq(Msg)
  BY <1>1, TrailLists
<1> HIDE DEF L
<1>5. ASSUME NEW p \in Places(c) PROVE L(p[1])[p[2]].n \in Numbers(L(p[1]), c)
  BY <1>2, <1>4, NumberIn
<1>6. ASSUME NEW n \in 1 .. asked[c] PROVE \E p \in Places(c) : L(p[1])[p[2]].n = n
  <2>1. PICK l \in Names : n \in Numbers(L(l), c)
    BY <1>3
  <2>2. PICK k \in 1 .. Len(L(l)) : L(l)[k].from = c /\ L(l)[k].n = n
    BY <2>1 DEF Numbers
  <2>3. <<l, k>> \in Places(c) /\ <<l, k>>[1] = l /\ <<l, k>>[2] = k
    BY <1>2, <2>2
  <2> QED
    BY <2>2, <2>3
<1>7. ASSUME NEW p \in Places(c), NEW q \in Places(c), L(p[1])[p[2]].n = L(q[1])[q[2]].n
      PROVE  p = q
  <2>1. p[1] = q[1]
    BY <1>2, <1>3, <1>5, <1>7
  <2>2. p[2] = q[2]
    BY <1>2, <1>3, <1>7, <2>1 DEF Once
  <2> QED
    BY <1>2, <2>1, <2>2
<1> QED
  BY <1>2, <1>3, <1>5, <1>6, <1>7 DEF L

LEMMA EInvServes == EInv => PongServed
BY DEF EInv, Serving, ServedOK, PongServed, Client

-----------------------------------------------------------------------------
(* The end of pongd by itself.                                             *)

(* The step is a read that ends on an error.                               *)
LEMMA FailsInRead ==
  ASSUME Types, [Next]_vars, srv.state = "up", srv'.state = "failed"
  PROVE  Read /\ ReadOutcome(up[Talker], cliEnd[Talker]) \in {"parsing", "error"}
<1>0. srv' # srv /\ srv \in Pongd
  BY DEF Types
<1>1. CASE PollServer
  BY <1>0, <1>1 DEF PollServer, Pongd
<1>2. CASE Accept
  BY <1>0, <1>2 DEF Accept, Pongd
<1>3. CASE WriteServer
  BY <1>0, <1>3 DEF WriteServer, Pongd
<1>4. CASE exit_program
  <2>1. srv'.state = "stopped"
    BY <1>0, <1>4 DEF exit_program, EndServer, Pongd
  <2> QED
    BY <2>1
<1>5. CASE Read
  <2>1. AnswerTo(srv, Talker, up[Talker][1]).state = "up"
    BY <1>0 DEF AnswerTo, Pongd
  <2>2. Forget(srv, srv.turn.i).state = "up"
    BY <1>0 DEF Forget, Pongd
  <2> QED
    BY <1>5, <2>1, <2>2 DEF Read
<1>6. ASSUME NEW c, Connect(c, "write", <<"sock">>) \/ Connect(c, "wait", <<"sock", "stdin">>)
      PROVE  srv' = srv
  BY <1>6 DEF Connect
<1>7. ASSUME NEW c, PongLoop(c) \/ PollStdin(c) \/ SpamLoop(c) \/ Kill(c)
      PROVE  srv' = srv
  BY <1>7 DEF PongLoop, PongWrite, PongRead, PongClose, PollStdin, SpamLoop, PollSpam,
     SpamIn, SpamOut, SpamOutStdin, SpamLine, SpamQuit, Kill, EndClient
<1>8. CASE UNCHANGED vars
  BY <1>0, <1>8 DEF vars
<1> QED
  BY <1>0, <1>1, <1>2, <1>3, <1>4, <1>5, <1>6, <1>7, <1>8 DEF Next, main_loop

(* What the client it read from had done.                                  *)
LEMMA FailureCaused ==
  ASSUME EInv, Read, NEW c, c = Talker,
         ReadOutcome(up[c], cliEnd[c]) \in {"parsing", "error"}
  PROVE  \/ c \in Spam /\ Len(up[c]) > 1
         \/ /\ cliEnd[c] = "reset"
            /\ pc[c] \in {"killed"} \cup IF c \in Pong THEN {} ELSE {"done", "failed"}
<1>1. Turn("read")
  BY DEF Read
<1>2. /\ Types /\ Serving /\ (\A d \in Client : ClientOK(d))
      /\ c \in Client /\ cliEnd[c] # "none" /\ Readable(up[c], cliEnd[c])
  BY <1>1, TalkerFacts
<1>3. up[c] \in Seq(Msg) /\ ServedOK(c) /\ ClientOK(c)
  BY <1>2 DEF Types, Serving
<1>4. CASE ReadOutcome(up[c], cliEnd[c]) = "parsing"
  <2>1. Len(up[c]) > 1 /\ ~(Len(up[c]) <= 1)
    BY <1>3, <1>4, ReadFacts, QueueCases
  <2>2. c \notin Pong
    BY <1>3, <2>1 DEF ServedOK, WayOK
  <2> QED
    BY <1>2, <2>1, <2>2 DEF Client
<1>5. CASE ReadOutcome(up[c], cliEnd[c]) = "error"
  <2>1. up[c] = <<>> /\ cliEnd[c] # "gone"
    BY <1>3, <1>5, ReadFacts
  <2>2. cliEnd[c] \in Ends /\ cliEnd[c] # "up"
    BY <1>2, <2>1 DEF Readable, Types
  <2>3. cliEnd[c] = "reset"
    BY <1>2, <2>1, <2>2 DEF Ends
  <2>4. c \in Pong => pc[c] = "killed"
    BY <1>3, <2>3 DEF ServedOK, LeftOK
  <2>5. c \in Spam => pc[c] \in {"done", "failed", "killed"}
    BY <1>3, <2>3 DEF ClientOK, SpamOK
  <2> QED
    BY <1>2, <2>3, <2>4, <2>5 DEF Client
<1> QED
  BY <1>4, <1>5

-----------------------------------------------------------------------------
(* Theorems.                                                               *)

(* The invariant holds in every reachable state.                           *)
LEMMA EInvAlways == Spec => []EInv
BY EInvInit, EInvNext, PTL DEF Spec

(* pongd "sends back everything" (examples/pongd.c): while it runs and a   *)
(* client is connected, each message the client made is in exactly one     *)
(* place between its list and its return, and among them is no message of  *)
(* another client.                                                         *)
THEOREM EchoConservedAlways == Spec => []EchoConserved
BY EInvAlways, EInvConserves, PTL

(* A pong, which waits for the return of a message before it writes the    *)
(* next, fails only when pongd is gone, whatever the other clients do.     *)
THEOREM PongServedAlways == Spec => []PongServed
BY EInvAlways, EInvServes, PTL

(* When pongd ends by itself, on an error of ipc_read, it is because of    *)
(* the client it serves: a pongspam that wrote again before its last       *)
(* message was read, or a client that left an answer unread, which a pong  *)
(* does only when a signal ends it.                                        *)
THEOREM FailureCauseAlways == Spec => FailureCause
<1>1. EInv /\ [Next]_vars =>
        (srv.state = "up" /\ srv'.state = "failed" =>
           LET c == Talker
           IN  \/ c \in Spam /\ Len(up[c]) > 1
               \/ /\ cliEnd[c] = "reset"
                  /\ pc[c] \in {"killed"} \cup IF c \in Pong THEN {} ELSE {"done", "failed"})
  BY FailsInRead, FailureCaused DEF EInv
<1> QED
  BY <1>1, EInvAlways, PTL DEF Spec, FailureCause

=============================================================================
