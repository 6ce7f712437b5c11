-------------------------- MODULE RemovalLoopProofs --------------------------
(***************************************************************************)
(* The loop of ipc_remove_messages_for_fd is correct for lists of any      *)
(* length.  The invariant says what holds between two rounds: the part of  *)
(* the array before the index is clean, the local bound is the size of the *)
(* array, and what was removed so far was for the descriptor.              *)
(***************************************************************************)
EXTENDS RemovalLoop, IpcMessagesProofs

Elt == [fd : Fd, id : 1 .. MaxMessages]

(* The inductive invariant of the loop.                                    *)
LoopInv ==
  /\ input.list \in Seq(Elt) /\ input.fd \in Fd
  /\ messages \in Seq(Elt)
  /\ i \in Nat /\ looping_count = Len(messages) /\ i <= looping_count
  /\ pc \in {"loop", "done"}
  /\ pc = "done" => i = looping_count
  /\ \A k \in 1 .. i : messages[k].fd # input.fd
  /\ \A k \in 1 .. Len(messages) :
       \E j \in 1 .. Len(input.list) : messages[k] = input.list[j]
  /\ \A k \in Kept(input.list, {input.fd}) :
       \E j \in 1 .. Len(messages) : messages[j] = input.list[k]
  /\ \A j, k \in 1 .. Len(messages) : messages[j] = messages[k] => j = k

(* The invariant holds when the loop starts.                               *)
LEMMA LoopInit == Init => LoopInv
<1> SUFFICES ASSUME Init PROVE LoopInv
  OBVIOUS
<1>1. input \in [list : Lists, fd : Fd] /\ messages = input.list
      /\ i = 0 /\ looping_count = Len(input.list) /\ pc = "loop"
  BY DEF Init
<1>2. input.list \in Lists /\ input.fd \in Fd
  BY <1>1
<1>3. PICK n \in 0 .. MaxMessages :
        input.list \in {s \in [1 .. n -> Message] : \A k \in 1 .. n : s[k].id = k}
  BY <1>2 DEF Lists
<1>4. n \in Nat /\ input.list \in [1 .. n -> Elt] /\ \A k \in 1 .. n : input.list[k].id = k
  BY <1>3, MaxMessagesAssumption DEF Message, Elt
<1>5. input.list \in Seq(Elt) /\ Len(input.list) = n
  BY <1>4
<1> QED
  BY <1>1, <1>2, <1>4, <1>5 DEF LoopInv, Kept

(* A round that removes a message.                                         *)
LEMMA LoopRemove == LoopInv /\ RemoveRound => LoopInv'
<1> SUFFICES ASSUME LoopInv, RemoveRound PROVE LoopInv'
  OBVIOUS
<1> DEFINE m == messages
           r == SwapRemove(m, i + 1)
<1>1. m \in Seq(Elt) /\ i \in Nat /\ i + 1 \in 1 .. Len(m) /\ Len(m) \in Nat
  BY DEF LoopInv, RemoveRound
<1>2. messages' = r /\ looping_count' = Len(m) - 1 /\ pc = "loop" /\ pc' = "loop"
      /\ i' = i /\ input' = input /\ m[i + 1].fd = input.fd
  BY <1>1 DEF LoopInv, RemoveRound, ipc_messages_del
<1>3. r \in Seq(Elt) /\ Len(r) = Len(m) - 1
      /\ \A k \in 1 .. Len(m) - 1 : r[k] = IF k = i + 1 THEN m[Len(m)] ELSE m[k]
  BY <1>1, SwapRemoveFacts
<1> HIDE DEF r
<1>4. \A k \in 1 .. i : r[k].fd # input.fd
  BY <1>1, <1>3 DEF LoopInv
<1>5. ASSUME NEW k \in 1 .. Len(r)
      PROVE  \E j \in 1 .. Len(input.list) : r[k] = input.list[j]
  <2>1. \A a \in 1 .. Len(m) : \E j \in 1 .. Len(input.list) : m[a] = input.list[j]
    BY DEF LoopInv
  <2>2. PICK a \in 1 .. Len(m) : r[k] = m[a]
    BY <1>1, <1>3
  <2> QED
    BY <2>1, <2>2
<1>6. ASSUME NEW k \in Kept(input.list, {input.fd})
      PROVE  \E j \in 1 .. Len(r) : r[j] = input.list[k]
  <2>1. PICK j \in 1 .. Len(m) : m[j] = input.list[k]
    BY DEF LoopInv
  <2>2. input.list[k].fd # input.fd
    BY DEF Kept
  <2>3. j # i + 1
    BY <1>2, <2>1, <2>2
  <2>4. CASE j = Len(m)
    <3>1. i + 1 \in 1 .. Len(m) - 1 /\ r[i + 1] = m[j]
      BY <1>1, <1>3, <2>3, <2>4
    <3> QED
      BY <3>1, <1>3, <2>1
  <2>5. CASE j # Len(m)
    <3>1. j \in 1 .. Len(m) - 1 /\ r[j] = m[j]
      BY <1>1, <1>3, <2>3, <2>5
    <3> QED
      BY <3>1, <1>3, <2>1
  <2> QED
    BY <2>4, <2>5
<1>7. ASSUME NEW j \in 1 .. Len(r), NEW k \in 1 .. Len(r), r[j] = r[k]
      PROVE  j = k
  <2> DEFINE origin(l) == IF l = i + 1 THEN Len(m) ELSE l
  <2>1. \A a, b \in 1 .. Len(m) : m[a] = m[b] => a = b
    BY DEF LoopInv
  <2>2. r[j] = m[origin(j)] /\ r[k] = m[origin(k)]
    BY <1>1, <1>3
  <2>3. origin(j) \in 1 .. Len(m) /\ origin(k) \in 1 .. Len(m)
    BY <1>1, <1>3
  <2>4. origin(j) = origin(k)
    BY <1>7, <2>1, <2>2, <2>3
  <2> QED
    BY <1>1, <1>3, <2>4
<1>8. i <= Len(m) - 1
  BY <1>1
<1> QED
  BY <1>1, <1>2, <1>3, <1>4, <1>5, <1>6, <1>7, <1>8, ZenonT(30) DEF LoopInv

(* A round that keeps a message, and the end of the loop.                  *)
LEMMA LoopOther == LoopInv /\ (KeepRound \/ Leave \/ Done \/ UNCHANGED vars) => LoopInv'
<1> SUFFICES ASSUME LoopInv, KeepRound \/ Leave \/ Done \/ UNCHANGED vars
             PROVE  LoopInv'
  OBVIOUS
<1>1. CASE KeepRound
  <2>1. messages' = messages /\ input' = input /\ pc' = pc /\ pc = "loop"
        /\ looping_count' = looping_count /\ i' = i + 1 /\ i < looping_count
        /\ messages[i + 1].fd # input.fd
    BY <1>1 DEF KeepRound
  <2>2. ASSUME NEW k \in 1 .. i'
        PROVE  messages'[k].fd # input'.fd
    <3>1. i \in Nat /\ \A j \in 1 .. i : messages[j].fd # input.fd
      BY DEF LoopInv
    <3>2. k \in 1 .. i \/ k = i + 1
      BY <2>1, <3>1
    <3> QED
      BY <2>1, <3>1, <3>2
  <2>3. i' \in Nat /\ i' <= looping_count' /\ looping_count' = Len(messages')
    BY <2>1 DEF LoopInv
  <2> QED
    BY <2>1, <2>2, <2>3 DEF LoopInv, Kept
<1>2. CASE Leave
  <2>1. UNCHANGED <<input, messages, i, looping_count>>
        /\ i >= looping_count /\ pc' = "done"
    BY <1>2 DEF Leave
  <2>2. i = looping_count
    BY <2>1 DEF LoopInv
  <2> QED
    BY <2>1, <2>2 DEF LoopInv, Kept
<1>3. CASE Done \/ UNCHANGED vars
  <2>1. UNCHANGED <<input, messages, i, looping_count, pc>>
    BY <1>3 DEF Done, vars
  <2> QED
    BY <2>1 DEF LoopInv, Kept
<1> QED
  BY <1>1, <1>2, <1>3

(* ipc_remove_messages_for_fd never reads past the end of the list it is   *)
(* compacting, whatever the list and the descriptor.                       *)
THEOREM LoopInBounds == Spec => []InBounds
<1>1. LoopInv /\ [Next]_vars => LoopInv'
  BY LoopRemove, LoopOther DEF Next
<1>2. LoopInv => InBounds
  BY DEF LoopInv, InBounds
<1> QED
  BY LoopInit, <1>1, <1>2, PTL DEF Spec

(* ipc_remove_messages_for_fd removes the messages for the descriptor and  *)
(* no other, whatever the list and the descriptor.                         *)
THEOREM LoopRemovesExactly == Spec => []RemovesExactly
<1>1. LoopInv /\ [Next]_vars => LoopInv'
  BY LoopRemove, LoopOther DEF Next
<1>2. LoopInv => RemovesExactly
  BY DEF LoopInv, RemovesExactly
<1> QED
  BY LoopInit, <1>1, <1>2, PTL DEF Spec


-----------------------------------------------------------------------------
(* The order of the list the loop leaves.  P is the set of the positions   *)
(* of the messages to keep.                                                *)

Holes(P, j) == (1 .. j) \ P
Beyond(P, n) == {q \in P : q > n}

LEMMA HolesNext ==
  ASSUME NEW P, NEW j \in Nat
  PROVE  /\ Cardinality(Holes(P, j)) \in Nat
         /\ j + 1 \in P => Cardinality(Holes(P, j + 1)) = Cardinality(Holes(P, j))
         /\ j + 1 \notin P => Cardinality(Holes(P, j + 1)) = Cardinality(Holes(P, j)) + 1
<1>1. IsFiniteSet(1 .. j) /\ Holes(P, j) \in SUBSET (1 .. j)
  BY FS_Interval DEF Holes
<1>2. IsFiniteSet(Holes(P, j)) /\ Cardinality(Holes(P, j)) \in Nat
  BY <1>1, FS_Subset, FS_CardinalityType
<1>3. ASSUME j + 1 \in P PROVE Holes(P, j + 1) = Holes(P, j)
  BY <1>3 DEF Holes
<1>4. ASSUME j + 1 \notin P
      PROVE  Holes(P, j + 1) = Holes(P, j) \cup {j + 1} /\ j + 1 \notin Holes(P, j)
  BY <1>4 DEF Holes
<1>5. ASSUME j + 1 \notin P
      PROVE  Cardinality(Holes(P, j + 1)) = Cardinality(Holes(P, j)) + 1
  BY <1>2, <1>4, <1>5, FS_AddElement
<1> QED
  BY <1>2, <1>3, <1>5

LEMMA BeyondNext ==
  ASSUME NEW L \in Nat, NEW P \in SUBSET (1 .. L), NEW n \in Nat
  PROVE  /\ Cardinality(Beyond(P, n)) \in Nat /\ Cardinality(Beyond(P, n + 1)) \in Nat
         /\ n + 1 \in P => Cardinality(Beyond(P, n)) = Cardinality(Beyond(P, n + 1)) + 1
         /\ n + 1 \notin P => Cardinality(Beyond(P, n)) = Cardinality(Beyond(P, n + 1))
<1>1. IsFiniteSet(P)
  BY PositionsFinite
<1>2. Beyond(P, n) \in SUBSET P /\ Beyond(P, n + 1) \in SUBSET P
  BY DEF Beyond
<1>3. IsFiniteSet(Beyond(P, n)) /\ IsFiniteSet(Beyond(P, n + 1))
  BY <1>1, <1>2, FS_Subset
<1>4. Cardinality(Beyond(P, n)) \in Nat /\ Cardinality(Beyond(P, n + 1)) \in Nat
  BY <1>3, FS_CardinalityType
<1>5. \A q \in P : q > n <=> q > n + 1 \/ q = n + 1
  OBVIOUS
<1>6. ASSUME n + 1 \notin P PROVE Beyond(P, n) = Beyond(P, n + 1)
  BY <1>5, <1>6 DEF Beyond
<1>7. ASSUME n + 1 \in P
      PROVE  Beyond(P, n) = Beyond(P, n + 1) \cup {n + 1} /\ n + 1 \notin Beyond(P, n + 1)
  <2>1. ~(n + 1 > n + 1)
    OBVIOUS
  <2>2. n + 1 \notin Beyond(P, n + 1)
    BY <2>1 DEF Beyond
  <2>3. \A q : q \in Beyond(P, n) <=> q \in Beyond(P, n + 1) \/ q = n + 1
    BY <1>5, <1>7, Zenon DEF Beyond
  <2> QED
    BY <2>2, <2>3
<1>8. ASSUME n + 1 \in P
      PROVE  Cardinality(Beyond(P, n)) = Cardinality(Beyond(P, n + 1)) + 1
  BY <1>3, <1>7, <1>8, FS_AddElement
<1> QED
  BY <1>4, <1>6, <1>8

(* The position that has h larger ones is the one FromEnd gives.           *)
LEMMA FillerIs ==
  ASSUME NEW L \in Nat, NEW P \in SUBSET (1 .. L), NEW p \in P
  PROVE  FromEnd(P, Cardinality(Beyond(P, p)) + 1) = p
<1> DEFINE Up(r) == {q \in P : q >= r}
           h == Cardinality(Beyond(P, p)) + 1
<1>1. IsFiniteSet(P) /\ \A q \in P : q \in Nat
  <2>1. \A q \in P : q \in Nat
    OBVIOUS
  <2> QED
    BY <2>1, PositionsFinite
<1>2. ASSUME NEW r \in P
      PROVE  IsFiniteSet(Up(r)) /\ Cardinality(Up(r)) \in Nat
  <2>1. Up(r) \in SUBSET P
    OBVIOUS
  <2> HIDE DEF Up
  <2> QED
    BY <1>1, <2>1, FS_Subset, FS_CardinalityType
<1>3. Cardinality(Up(p)) = h
  <2>1. Beyond(P, p) \in SUBSET P
    BY DEF Beyond
  <2>2. IsFiniteSet(Beyond(P, p))
    BY <1>1, <2>1, FS_Subset
  <2>3. \A q \in P : q >= p <=> q > p \/ q = p
    BY <1>1
  <2>4. Up(p) = Beyond(P, p) \cup {p} /\ p \notin Beyond(P, p)
    <3>1. ~(p > p)
      BY <1>1
    <3>2. p \notin Beyond(P, p)
      BY <3>1 DEF Beyond
    <3>3. \A q : q \in Up(p) <=> q \in Beyond(P, p) \/ q = p
      BY <2>3, Zenon DEF Beyond
    <3> QED
      BY <3>2, <3>3
  <2> HIDE DEF Up
  <2> QED
    BY <2>2, <2>4, FS_AddElement
<1>4. ASSUME NEW r \in P, NEW s \in P, r < s
      PROVE  Cardinality(Up(s)) < Cardinality(Up(r))
  <2>1. r \in Nat /\ s \in Nat
    BY <1>1
  <2>2. \A q \in P : q >= s => q >= r
    BY <1>1, <1>4, <2>1
  <2>3. Up(s) \cup {r} \in SUBSET Up(r) /\ r \notin Up(s)
    <3>1. r >= r /\ ~(r >= s)
      BY <1>4, <2>1
    <3> QED
      BY <2>2, <3>1, Zenon
  <2>4. IsFiniteSet(Up(r)) /\ IsFiniteSet(Up(s)) /\ Cardinality(Up(r)) \in Nat
        /\ Cardinality(Up(s)) \in Nat
    BY <1>2
  <2> HIDE DEF Up
  <2>5. Cardinality(Up(s) \cup {r}) = Cardinality(Up(s)) + 1
    BY <2>3, <2>4, FS_AddElement
  <2>6. Cardinality(Up(s) \cup {r}) <= Cardinality(Up(r))
    BY <2>3, <2>4, FS_Subset
  <2> QED
    BY <2>4, <2>5, <2>6
<1>5. PICK r \in P : r = FromEnd(P, h) /\ Cardinality(Up(r)) = h
  BY <1>3 DEF FromEnd
<1> HIDE DEF Up, h
<1>6. h \in Nat
  BY <1>2, <1>3
<1>7. ~(r < p) /\ ~(p < r)
  BY <1>3, <1>4, <1>5, <1>6
<1>8. r = p
  BY <1>1, <1>7
<1> QED
  BY <1>5, <1>8 DEF h

(* As many messages to keep beyond n as holes up to n: n in all.           *)
LEMMA EndCount ==
  ASSUME NEW L \in Nat, NEW P \in SUBSET (1 .. L), NEW n \in Nat,
         Cardinality(Beyond(P, n)) = Cardinality(Holes(P, n))
  PROVE  Cardinality(P) = n
<1>1. IsFiniteSet(P) /\ Cardinality(P) \in Nat
  BY PositionsFinite
<1>2. IsFiniteSet(1 .. n) /\ Cardinality(1 .. n) = n
  BY FS_Interval
<1> DEFINE I == 1 .. n
           B == P \cap I
<1>3. Beyond(P, n) = P \ I /\ Holes(P, n) = I \ P /\ I \cap P = B
  <2>1. \A q \in P : q > n <=> q \notin I
    OBVIOUS
  <2>2. I \cap P = B /\ Holes(P, n) = I \ P
    BY DEF Holes
  <2> HIDE DEF I
  <2>3. Beyond(P, n) = P \ I
    BY <2>1 DEF Beyond
  <2> QED
    BY <2>2, <2>3
<1>4. B \in SUBSET P
  OBVIOUS
<1> HIDE DEF I
<1>5. Cardinality(P \ I) = Cardinality(P) - Cardinality(B)
  BY <1>1, FS_Difference
<1>6. Cardinality(I \ P) = n - Cardinality(B)
  <2>1. IsFiniteSet(I) /\ Cardinality(I) = n
    BY <1>2 DEF I
  <2>2. Cardinality(I \ P) = Cardinality(I) - Cardinality(I \cap P)
    BY <2>1, FS_Difference
  <2> QED
    BY <1>3, <2>1, <2>2
<1> HIDE DEF B
<1>7. Cardinality(B) \in Nat
  BY <1>1, <1>4, FS_Subset, FS_CardinalityType
<1>8. Cardinality(P \ I) = Cardinality(I \ P)
  BY <1>3
<1> QED
  BY <1>1, <1>5, <1>6, <1>7, <1>8

(* The position in the first list of the message that ends at position k.  *)
Source(P, k) == IF k \in P THEN k ELSE FromEnd(P, Cardinality(Holes(P, k)))

(* What is known of the message at the index, in an array m of what was    *)
(* the list s: either it was there from the start, and every hole so far   *)
(* took a message from beyond the end of m; or the last removal moved it   *)
(* there from the position that follows the end of m.                      *)
Fresh(s, P, m, x) ==
  /\ m[x + 1] = s[x + 1]
  /\ Cardinality(Beyond(P, Len(m))) = Cardinality(Holes(P, x))
Moved(s, P, m, x) ==
  /\ Len(m) + 1 <= Len(s) /\ x + 1 \notin P
  /\ m[x + 1] = s[Len(m) + 1]
  /\ Cardinality(Beyond(P, Len(m) + 1)) = Cardinality(Holes(P, x))

(* Before the index the array is the final one, after it the first one.    *)
Ordered(s, P, m, x) ==
  /\ Len(m) <= Len(s)
  /\ \A k \in 1 .. x : m[k] = s[Source(P, k)]
  /\ \A k \in x + 2 .. Len(m) : m[k] = s[k]
  /\ x < Len(m) => Fresh(s, P, m, x) \/ Moved(s, P, m, x)
  /\ x = Len(m) => Cardinality(Beyond(P, Len(m))) = Cardinality(Holes(P, x))

OrderInv == Ordered(input.list, Kept(input.list, {input.fd}), messages, i)

(* A round that keeps the message at the index.                            *)
LEMMA OrderedKeep ==
  ASSUME NEW S, NEW s \in Seq(S), NEW m \in Seq(S), NEW P \in SUBSET (1 .. Len(s)),
         NEW x \in Nat, x < Len(m), Ordered(s, P, m, x),
         Fresh(s, P, m, x) => x + 1 \in P,
         Moved(s, P, m, x) /\ ~Fresh(s, P, m, x) => Len(m) + 1 \in P
  PROVE  Ordered(s, P, m, x + 1)
<1>1. PICK n \in Nat : n = Len(m)
  OBVIOUS
<1>2. PICK L \in Nat : L = Len(s)
  OBVIOUS
<1>3. n <= L /\ x < n /\ P \in SUBSET (1 .. L)
  BY <1>1, <1>2 DEF Ordered
<1>4. PICK h \in Nat : h = Cardinality(Holes(P, x))
  BY HolesNext
<1>5. /\ x + 1 \in P => Cardinality(Holes(P, x + 1)) = h
      /\ x + 1 \notin P => Cardinality(Holes(P, x + 1)) = h + 1
  BY <1>4, HolesNext
<1>6. /\ m[x + 1] = s[Source(P, x + 1)]
      /\ Cardinality(Beyond(P, n)) = Cardinality(Holes(P, x + 1))
  <2>1. CASE Fresh(s, P, m, x)
    <3>1. x + 1 \in P /\ m[x + 1] = s[x + 1] /\ Cardinality(Beyond(P, n)) = h
      BY <2>1, <1>1, <1>4 DEF Fresh
    <3> QED
      BY <3>1, <1>5 DEF Source
  <2>2. CASE ~Fresh(s, P, m, x)
    <3>1. Moved(s, P, m, x)
      BY <2>2, <1>1, <1>3 DEF Ordered
    <3>2. /\ n + 1 \in P /\ x + 1 \notin P /\ m[x + 1] = s[n + 1]
          /\ Cardinality(Beyond(P, n + 1)) = h
      BY <2>2, <3>1, <1>1, <1>4 DEF Moved
    <3>3. Cardinality(Beyond(P, n)) = h + 1
      BY <3>2, <1>3, BeyondNext
    <3>4. Cardinality(Holes(P, x + 1)) = h + 1
      BY <3>2, <1>5
    <3>5. FromEnd(P, h + 1) = n + 1
      BY <3>2, <1>3, FillerIs
    <3> QED
      BY <3>2, <3>3, <3>4, <3>5 DEF Source
  <2> QED
    BY <2>1, <2>2
<1>7. ASSUME NEW k \in 1 .. x + 1
      PROVE  m[k] = s[Source(P, k)]
  <2>1. k \in 1 .. x \/ k = x + 1
    OBVIOUS
  <2>2. \A j \in 1 .. x : m[j] = s[Source(P, j)]
    BY DEF Ordered
  <2> QED
    BY <2>1, <2>2, <1>6
<1>8. \A k \in x + 2 .. n : m[k] = s[k]
  BY <1>1 DEF Ordered
<1>9. \A k \in x + 3 .. n : m[k] = s[k]
  BY <1>8
<1>10. x + 1 < n => Fresh(s, P, m, x + 1)
  <2>1. ASSUME x + 1 < n PROVE m[x + 1 + 1] = s[x + 1 + 1]
    BY <2>1, <1>8
  <2> QED
    BY <2>1, <1>6, <1>1 DEF Fresh
<1> QED
  <2>1. x + 1 + 2 = x + 3
    OBVIOUS
  <2> QED
    BY <2>1, <1>1, <1>2, <1>3, <1>6, <1>7, <1>9, <1>10 DEF Ordered

(* A round that removes the message at the index.                          *)
LEMMA OrderedRemove ==
  ASSUME NEW S, NEW s \in Seq(S), NEW m \in Seq(S), NEW P \in SUBSET (1 .. Len(s)),
         NEW x \in Nat, x < Len(m), Ordered(s, P, m, x),
         Fresh(s, P, m, x) => x + 1 \notin P,
         Moved(s, P, m, x) => Len(m) + 1 \notin P,
         NEW r, r = SwapRemove(m, x + 1)
  PROVE  Ordered(s, P, r, x)
<1>1. PICK n \in Nat : n = Len(m)
  OBVIOUS
<1>2. PICK L \in Nat : L = Len(s)
  OBVIOUS
<1>3. n <= L /\ x < n /\ P \in SUBSET (1 .. L) /\ x + 1 \in 1 .. n
  BY <1>1, <1>2 DEF Ordered
<1>4. r \in Seq(S) /\ Len(r) = n - 1
      /\ \A k \in 1 .. n - 1 : r[k] = IF k = x + 1 THEN m[n] ELSE m[k]
  <2>1. x + 1 \in 1 .. Len(m)
    BY <1>1, <1>3
  <2>2. PICK y \in 1 .. Len(m) : y = x + 1
    BY <2>1
  <2>3. r = SwapRemove(m, y)
    BY <2>2
  <2>4. SwapRemove(m, y) \in Seq(S) /\ Len(SwapRemove(m, y)) = Len(m) - 1
        /\ \A k \in 1 .. Len(m) - 1 :
             SwapRemove(m, y)[k] = IF k = y THEN m[Len(m)] ELSE m[k]
    BY SwapRemoveFacts
  <2> QED
    BY <1>1, <2>2, <2>3, <2>4
<1>5. PICK h \in Nat : h = Cardinality(Holes(P, x))
  BY HolesNext
<1>6. x + 1 \notin P /\ Cardinality(Beyond(P, n)) = h
  <2>1. CASE Fresh(s, P, m, x)
    BY <2>1, <1>1, <1>5 DEF Fresh
  <2>2. CASE Moved(s, P, m, x)
    <3>1. n + 1 \notin P /\ x + 1 \notin P /\ Cardinality(Beyond(P, n + 1)) = h
      BY <2>2, <1>1, <1>5 DEF Moved
    <3> QED
      BY <3>1, <1>3, BeyondNext
  <2> QED
    BY <2>1, <2>2, <1>1, <1>3 DEF Ordered
<1>7. PICK l \in Nat : l = n - 1
  BY <1>3
<1>8. l + 1 = n /\ Len(r) = l /\ x <= l /\ l + 1 <= L
  BY <1>3, <1>4, <1>7
<1>9. \A k \in x + 2 .. n : m[k] = s[k]
  BY <1>1 DEF Ordered
<1>10. \A k \in 1 .. x : m[k] = s[Source(P, k)]
  BY DEF Ordered
<1>11. \A k \in 1 .. x : r[k] = s[Source(P, k)]
  <2>1. \A k \in 1 .. x : r[k] = m[k]
    BY <1>3, <1>4
  <2> QED
    BY <2>1, <1>10
<1>12. \A k \in x + 2 .. l : r[k] = s[k]
  <2>1. \A k \in x + 2 .. l : r[k] = m[k] /\ m[k] = s[k]
    BY <1>3, <1>4, <1>8, <1>9
  <2> QED
    BY <2>1
<1>13. x < l => Moved(s, P, r, x)
  <2>1. ASSUME x < l PROVE r[x + 1] = s[l + 1]
    <3>1. x + 1 \in 1 .. n - 1 /\ n \in x + 2 .. n
      BY <2>1, <1>8
    <3>2. r[x + 1] = m[n]
      BY <3>1, <1>4
    <3>3. m[n] = s[n]
      BY <3>1, <1>9
    <3> QED
      BY <3>2, <3>3, <1>8
  <2>2. Cardinality(Beyond(P, l + 1)) = h
    BY <1>6, <1>8
  <2> QED
    BY <2>1, <2>2, <1>2, <1>5, <1>6, <1>8 DEF Moved
<1>14. x = l => Cardinality(Beyond(P, l)) = h
  <2>1. ASSUME x = l PROVE l + 1 \notin P /\ Cardinality(Beyond(P, l + 1)) = h
    BY <2>1, <1>6, <1>8
  <2> QED
    BY <2>1, <1>3, BeyondNext
<1> QED
  BY <1>2, <1>5, <1>8, <1>11, <1>12, <1>13, <1>14 DEF Ordered

(* At the end of the array the list is the one of the closed form.         *)
LEMMA OrderedEnd ==
  ASSUME NEW S, NEW s \in Seq(S), NEW m \in Seq(S), NEW F,
         Ordered(s, Kept(s, F), m, Len(m))
  PROVE  m = RemoveFor(s, F)
<1>1. PICK n \in Nat : n = Len(m)
  OBVIOUS
<1>2. PICK P \in SUBSET (1 .. Len(s)) : P = Kept(s, F)
  BY DEF Kept
<1>3. /\ \A k \in 1 .. n : m[k] = s[Source(P, k)]
      /\ Cardinality(Beyond(P, n)) = Cardinality(Holes(P, n))
  BY <1>1, <1>2 DEF Ordered
<1>4. Len(s) \in Nat
  OBVIOUS
<1>5. Cardinality(P) = n
  BY <1>3, <1>4, EndCount
<1>6. RemoveFor(s, F) = [j \in 1 .. n |-> s[Source(P, j)]]
  <2>1. ASSUME NEW j \in 1 .. n
        PROVE  s[Source(P, j)] = IF j \in P THEN s[j]
                                 ELSE s[FromEnd(P, Cardinality((1 .. j) \ P))]
    BY DEF Source, Holes
  <2> QED
    BY <2>1, <1>2, <1>5 DEF RemoveFor
<1>7. m = [j \in 1 .. n |-> m[j]]
  BY <1>1
<1> QED
  BY <1>3, <1>6, <1>7

(* The invariant of the order, step by step.                               *)
LEMMA OrderInit == Init => OrderInv
<1> SUFFICES ASSUME Init PROVE OrderInv
  OBVIOUS
<1>1. LoopInv /\ messages = input.list /\ i = 0
  BY LoopInit DEF Init
<1>2. PICK s \in Seq(Elt) : s = input.list
  BY <1>1 DEF LoopInv
<1>3. PICK P \in SUBSET (1 .. Len(s)) : P = Kept(s, {input.fd})
  BY DEF Kept
<1>4. Holes(P, 0) = {} /\ Beyond(P, Len(s)) = {}
  <2>1. 1 .. 0 = {}
    OBVIOUS
  <2>2. \A q \in P : ~(q > Len(s))
    OBVIOUS
  <2>3. Holes(P, 0) = {}
    BY <2>1 DEF Holes
  <2>4. Beyond(P, Len(s)) = {}
    BY <2>2 DEF Beyond
  <2> QED
    BY <2>3, <2>4
<1>5. 0 < Len(s) => Fresh(s, P, s, 0)
  BY <1>4 DEF Fresh
<1>6. Ordered(s, P, s, 0)
  <2>1. Len(s) <= Len(s) /\ \A k \in 1 .. 0 : s[k] = s[Source(P, k)]
    OBVIOUS
  <2>2. 0 = Len(s) => Cardinality(Beyond(P, Len(s))) = Cardinality(Holes(P, 0))
    BY <1>4
  <2> QED
    BY <1>5, <2>1, <2>2 DEF Ordered
<1> QED
  BY <1>1, <1>2, <1>3, <1>6 DEF OrderInv

LEMMA OrderNext == LoopInv /\ OrderInv /\ [Next]_vars => OrderInv'
<1> SUFFICES ASSUME LoopInv, OrderInv, [Next]_vars PROVE OrderInv'
  OBVIOUS
<1>1. PICK s \in Seq(Elt) : s = input.list
  BY DEF LoopInv
<1>2. PICK f \in Fd : f = input.fd
  BY DEF LoopInv
<1>3. PICK P \in SUBSET (1 .. Len(s)) : P = Kept(s, {f})
  BY DEF Kept
<1>4. PICK m \in Seq(Elt) : m = messages
  BY DEF LoopInv
<1>5. PICK x \in Nat : x = i
  BY DEF LoopInv
<1>6. Ordered(s, P, m, x)
  BY <1>1, <1>2, <1>3, <1>4, <1>5 DEF OrderInv
<1>7. \A k \in 1 .. Len(s) : k \in P <=> s[k].fd # f
  BY <1>3 DEF Kept
<1>8. Len(s) \in Nat /\ Len(m) \in Nat /\ Len(m) <= Len(s)
  BY <1>6 DEF Ordered
<1>9. ASSUME input' = input, Ordered(s, P, messages', i') PROVE OrderInv'
  BY <1>1, <1>2, <1>3, <1>9 DEF OrderInv
<1>10. CASE RemoveRound
  <2>1. /\ x < Len(m) /\ m[x + 1].fd = f /\ input' = input /\ i' = x
        /\ messages' = ipc_messages_del(m, x + 1)
    BY <1>2, <1>4, <1>5, <1>10 DEF RemoveRound, LoopInv
  <2>2. x + 1 \in 1 .. Len(m) /\ x + 1 \in 1 .. Len(s)
    BY <1>8, <2>1
  <2>3. messages' = SwapRemove(m, x + 1)
    BY <2>1, <2>2 DEF ipc_messages_del
  <2>4. Fresh(s, P, m, x) => x + 1 \notin P
    BY <1>7, <2>1, <2>2 DEF Fresh
  <2>5. Moved(s, P, m, x) => Len(m) + 1 \notin P
    <3>1. ASSUME Moved(s, P, m, x)
          PROVE  Len(m) + 1 \in 1 .. Len(s) /\ m[x + 1] = s[Len(m) + 1]
      BY <1>8, <3>1 DEF Moved
    <3> QED
      BY <3>1, <1>7, <2>1
  <2>6. PICK r : r = messages'
    OBVIOUS
  <2>7. r = SwapRemove(m, x + 1)
    BY <2>3, <2>6
  <2>8. Ordered(s, P, r, x)
    BY <1>6, <2>1, <2>4, <2>5, <2>7, OrderedRemove
  <2> QED
    BY <1>9, <2>1, <2>6, <2>8
<1>11. CASE KeepRound
  <2>1. /\ x < Len(m) /\ m[x + 1].fd # f /\ input' = input /\ i' = x + 1
        /\ messages' = m
    BY <1>2, <1>4, <1>5, <1>11 DEF KeepRound, LoopInv
  <2>2. x + 1 \in 1 .. Len(s)
    BY <1>8, <2>1
  <2>3. Fresh(s, P, m, x) => x + 1 \in P
    BY <1>7, <2>1, <2>2 DEF Fresh
  <2>4. Moved(s, P, m, x) => Len(m) + 1 \in P
    <3>1. ASSUME Moved(s, P, m, x)
          PROVE  Len(m) + 1 \in 1 .. Len(s) /\ m[x + 1] = s[Len(m) + 1]
      BY <1>8, <3>1 DEF Moved
    <3> QED
      BY <3>1, <1>7, <2>1
  <2>5. Ordered(s, P, m, x + 1)
    BY <1>6, <2>1, <2>3, <2>4, OrderedKeep
  <2> QED
    BY <1>9, <2>1, <2>5
<1>12. CASE Leave \/ Done \/ UNCHANGED vars
  <2>1. UNCHANGED <<input, messages, i>>
    BY <1>12 DEF Leave, Done, vars
  <2> QED
    BY <1>4, <1>5, <1>6, <1>9, <2>1
<1> QED
  BY <1>10, <1>11, <1>12 DEF Next

(* The loop of ipc_remove_messages_for_fd leaves, order included, the list *)
(* that the model of the context takes it to leave, whatever the list and  *)
(* the descriptor.                                                         *)
THEOREM LoopMatchesClosedForm == Spec => []MatchesClosedForm
<1>1. LoopInv /\ [Next]_vars => LoopInv'
  BY LoopRemove, LoopOther DEF Next
<1>2. LoopInv /\ OrderInv => MatchesClosedForm
  <2> SUFFICES ASSUME LoopInv, OrderInv, pc = "done"
               PROVE  messages = ipc_remove_messages_for_fd(input.list, input.fd)
    BY DEF MatchesClosedForm
  <2>1. input.list \in Seq(Elt) /\ messages \in Seq(Elt) /\ i = Len(messages)
    BY DEF LoopInv
  <2>2. Ordered(input.list, Kept(input.list, {input.fd}), messages, Len(messages))
    BY <2>1 DEF OrderInv
  <2> QED
    BY <2>1, <2>2, OrderedEnd DEF ipc_remove_messages_for_fd
<1> QED
  BY LoopInit, OrderInit, OrderNext, <1>1, <1>2, PTL DEF Spec

=============================================================================
