-------------------------- MODULE IpcMessagesProofs --------------------------
(***************************************************************************)
(* Facts about the operators of IpcMessages, for lists of any length.      *)
(***************************************************************************)
EXTENDS IpcMessages, FiniteSetTheorems, WellFoundedInduction, TLAPS

LessThan == {ss \in Nat \X Nat : ss[1] < ss[2]}

(* The order of the natural numbers is well founded.                       *)
LEMMA LessThanWellFounded == IsWellFoundedOn(LessThan, Nat)
BY NatLessThanWellFounded, Zenon DEF LessThan, OpToRel

(* Induction over the natural numbers, as a statement about a set.         *)
LEMMA SetInduction ==
  ASSUME NEW S \in SUBSET Nat, 0 \in S, \A n \in S : n + 1 \in S
  PROVE  S = Nat
<1> SUFFICES ASSUME Nat \ S # {} PROVE FALSE
  OBVIOUS
<1>1. PICK x \in Nat \ S : \A y \in Nat \ S : <<y, x>> \notin LessThan
  BY LessThanWellFounded, WFMin
<1>2. x - 1 \in Nat /\ <<x - 1, x>> \in LessThan
  BY DEF LessThan
<1>3. (x - 1) + 1 \in S
  BY <1>1, <1>2
<1> QED
  BY <1>3

(* Every non-empty set of natural numbers has a least element: the first   *)
(* message or connection a loop of the code looks for.                     *)
LEMMA LeastElement ==
  ASSUME NEW S \in SUBSET Nat, S # {}
  PROVE  \E x \in S : \A y \in S : x <= y
<1>1. PICK x \in S : \A y \in S : <<y, x>> \notin LessThan
  BY LessThanWellFounded, WFMin
<1>2. ASSUME NEW y \in S PROVE x <= y
  <2>1. x \in Nat /\ y \in Nat
    OBVIOUS
  <2>2. ~(y < x)
    BY <1>1, <2>1 DEF LessThan
  <2> QED
    BY <2>1, <2>2
<1> QED
  BY <1>2

(* In a set of k positions there is, for every h up to k, one that is the  *)
(* h-th from the end.                                                      *)
LEMMA RankExists ==
  ASSUME NEW n \in Nat, NEW P \in SUBSET (1 .. n), NEW h \in 1 .. Cardinality(P)
  PROVE  \E p \in P : Cardinality({q \in P : q >= p}) = h
<1> DEFINE Good(m) ==
      \A Q \in SUBSET (1 .. m) : \A g \in 1 .. Cardinality(Q) :
        \E p \in Q : Cardinality({q \in Q : q >= p}) = g
           S == {m \in Nat : Good(m)}
<1>1. 0 \in S
  <2> SUFFICES ASSUME NEW Q \in SUBSET (1 .. 0), NEW g \in 1 .. Cardinality(Q)
               PROVE  FALSE
    OBVIOUS
  <2>1. Q = {}
    OBVIOUS
  <2> QED
    BY <2>1, FS_EmptySet
<1>2. ASSUME NEW m \in S PROVE m + 1 \in S
  <2>0. m \in Nat /\ Good(m)
    OBVIOUS
  <2> SUFFICES ASSUME NEW Q \in SUBSET (1 .. m + 1), NEW g \in 1 .. Cardinality(Q)
               PROVE  \E p \in Q : Cardinality({q \in Q : q >= p}) = g
    BY <2>0
  <2> DEFINE R == Q \ {m + 1}
  <2> HIDE DEF S, Good
  <2>a. m \in Nat /\ m + 1 \in Int
    BY <2>0
  <2>b. IsFiniteSet(1 .. m + 1)
    BY <2>a, FS_Interval
  <2>c. \A q \in Q : q \in Nat /\ q <= m + 1
    BY <2>a
  <2>1. IsFiniteSet(Q) /\ Cardinality(Q) \in Nat
    BY <2>b, FS_Subset, FS_CardinalityType
  <2>2. R \in SUBSET (1 .. m) /\ IsFiniteSet(R)
    BY <2>a, <2>1, FS_RemoveElement
  <2>3. CASE m + 1 \notin Q
    <3>1. Q \in SUBSET (1 .. m)
      BY <2>a, <2>3
    <3> QED
      BY <3>1, <2>0 DEF Good
  <2>4. CASE m + 1 \in Q /\ g = 1
    <3>a. \A q \in Q : q >= m + 1 <=> q = m + 1
      BY <2>a, <2>c
    <3>1. {q \in Q : q >= m + 1} = {m + 1}
      BY <3>a, <2>4, Zenon
    <3> QED
      BY <3>1, <2>4, FS_Singleton
  <2>5. CASE m + 1 \in Q /\ g # 1
    <3>1. Cardinality(R) = Cardinality(Q) - 1
      BY <2>1, <2>5, FS_RemoveElement
    <3>2. g - 1 \in 1 .. Cardinality(R)
      BY <2>1, <2>5, <3>1
    <3>3. PICK p \in R : Cardinality({q \in R : q >= p}) = g - 1
      BY <2>0, <2>2, <3>2 DEF Good
    <3>4. {q \in Q : q >= p} = {q \in R : q >= p} \cup {m + 1}
      BY <2>a, <2>c, <2>2, <2>5, <3>3
    <3>5. IsFiniteSet({q \in R : q >= p}) /\ m + 1 \notin {q \in R : q >= p}
      <4>1. {q \in R : q >= p} \in SUBSET R
        OBVIOUS
      <4> HIDE DEF R
      <4>2. IsFiniteSet({q \in R : q >= p})
        BY <4>1, <2>2, FS_Subset
      <4> QED
        BY <4>2 DEF R
    <3>6. Cardinality({q \in Q : q >= p}) = (g - 1) + 1
      BY <3>3, <3>4, <3>5, FS_AddElement
    <3>7. (g - 1) + 1 = g /\ p \in Q
      BY <2>1
    <3> QED
      BY <3>6, <3>7, Zenon
  <2> QED
    BY <2>a, <2>3, <2>4, <2>5
<1>3. S = Nat
  <2> HIDE DEF S
  <2>1. S \in SUBSET Nat
    BY DEF S
  <2> QED
    BY <1>1, <1>2, <2>1, SetInduction
<1> QED
  BY <1>3

-----------------------------------------------------------------------------

(* Removing by swap gives a list one shorter, every element of which was   *)
(* in the list at another position than the removed one.                   *)
LEMMA SwapRemoveFacts ==
  ASSUME NEW E, NEW s \in Seq(E), NEW i \in 1 .. Len(s)
  PROVE  /\ SwapRemove(s, i) \in Seq(E)
         /\ Len(SwapRemove(s, i)) = Len(s) - 1
         /\ \A k \in 1 .. Len(s) - 1 :
              SwapRemove(s, i)[k] = IF k = i THEN s[Len(s)] ELSE s[k]
<1>1. Len(s) \in Nat /\ Len(s) - 1 \in Nat /\ Len(s) \in 1 .. Len(s)
  OBVIOUS
<1>2. \A k \in 1 .. Len(s) - 1 : (IF k = i THEN s[Len(s)] ELSE s[k]) \in E
  BY <1>1
<1> QED
  BY <1>1, <1>2 DEF SwapRemove

(* A set of positions of a list is finite.                                 *)
LEMMA PositionsFinite ==
  ASSUME NEW n \in Nat, NEW P \in SUBSET (1 .. n)
  PROVE  IsFiniteSet(P) /\ Cardinality(P) \in Nat
<1>1. IsFiniteSet(1 .. n)
  BY FS_Interval
<1>2. IsFiniteSet(P)
  BY <1>1, FS_Subset
<1> QED
  BY <1>2, FS_CardinalityType

(* The j-th hole is filled with a message to keep.                         *)
LEMMA FillerKept ==
  ASSUME NEW n \in Nat, NEW P \in SUBSET (1 .. n),
         NEW j \in 1 .. Cardinality(P), j \notin P
  PROVE  FromEnd(P, Cardinality((1 .. j) \ P)) \in P
<1> DEFINE H == (1 .. j) \ P
<1>1. IsFiniteSet(P) /\ Cardinality(P) \in Nat
  BY PositionsFinite
<1>2. j \in Nat /\ j >= 1 /\ IsFiniteSet(1 .. j) /\ Cardinality(1 .. j) = j
  BY <1>1, FS_Interval
<1>3. H \in SUBSET (1 .. j) /\ j \in H
  BY <1>2
<1>4. IsFiniteSet(H) /\ Cardinality(H) <= j /\ Cardinality(H) \in Nat /\ Cardinality(H) # 0
  BY <1>2, <1>3, FS_Subset, FS_CardinalityType, FS_EmptySet
<1>5. Cardinality(H) \in 1 .. Cardinality(P)
  BY <1>1, <1>2, <1>4
<1>6. \E p \in P : Cardinality({q \in P : q >= p}) = Cardinality(H)
  BY <1>5, RankExists
<1> QED
  BY <1>6 DEF FromEnd

(* What ipc_remove_messages_for_fd, or ipc_close_all, leaves of a list:    *)
(* messages of the list, none of them for the descriptors of the call.     *)
LEMMA RemoveForFacts ==
  ASSUME NEW E, NEW s \in Seq(E), NEW F
  PROVE  /\ RemoveFor(s, F) \in Seq(E)
         /\ \A j \in 1 .. Len(RemoveFor(s, F)) :
              \E k \in 1 .. Len(s) : /\ RemoveFor(s, F)[j] = s[k]
                                    /\ s[k].fd \notin F
<1> DEFINE P == Kept(s, F)
           N == Cardinality(P)
           at(j) == IF j \in P THEN j ELSE FromEnd(P, Cardinality((1 .. j) \ P))
<1>1. Len(s) \in Nat /\ P \in SUBSET (1 .. Len(s))
  BY DEF Kept
<1>2. N \in Nat
  <2> HIDE DEF P
  <2> QED
    BY <1>1, PositionsFinite
<1>3. \A j \in 1 .. N : at(j) \in P
  BY <1>1, FillerKept
<1>4. RemoveFor(s, F) = [j \in 1 .. N |-> s[at(j)]]
  BY DEF RemoveFor
<1>5. \A j \in 1 .. N : /\ at(j) \in 1 .. Len(s)
                        /\ s[at(j)] \in E
                        /\ s[at(j)].fd \notin F
  BY <1>1, <1>3 DEF Kept
<1> HIDE DEF P, N, at
<1>6. RemoveFor(s, F) \in Seq(E) /\ Len(RemoveFor(s, F)) = N
  BY <1>2, <1>4, <1>5
<1>7. \A j \in 1 .. N : RemoveFor(s, F)[j] = s[at(j)]
  BY <1>4
<1> QED
  BY <1>5, <1>6, <1>7

(* The messages that fill the holes are those beyond the end of the new    *)
(* list: there are as many of them as there are holes.                     *)
LEMMA FillerBeyond ==
  ASSUME NEW n \in Nat, NEW P \in SUBSET (1 .. n),
         NEW j \in 1 .. Cardinality(P), j \notin P
  PROVE  LET p == FromEnd(P, Cardinality((1 .. j) \ P))
         IN  /\ Cardinality({q \in P : q >= p}) = Cardinality((1 .. j) \ P)
             /\ p > Cardinality(P)
<1> DEFINE N == Cardinality(P)
           H == (1 .. j) \ P
           p == FromEnd(P, Cardinality(H))
           All == (1 .. N) \ P
           Beyond == P \ (1 .. N)
           Up == {q \in P : q >= p}
<1>1. IsFiniteSet(P) /\ N \in Nat
  BY PositionsFinite
<1>2. /\ j \in Nat /\ j >= 1 /\ IsFiniteSet(1 .. j) /\ Cardinality(1 .. j) = j
      /\ IsFiniteSet(1 .. N) /\ Cardinality(1 .. N) = N
  BY <1>1, FS_Interval
<1>3. H \in SUBSET (1 .. j) /\ j \in H /\ H \in SUBSET All
  BY <1>1, <1>2
<1>4. IsFiniteSet(H) /\ Cardinality(H) <= j /\ Cardinality(H) \in Nat /\ Cardinality(H) # 0
  BY <1>2, <1>3, FS_Subset, FS_CardinalityType, FS_EmptySet
<1>5. Cardinality(H) \in 1 .. N
  BY <1>1, <1>2, <1>4
<1>6. \E q \in P : Cardinality({r \in P : r >= q}) = Cardinality(H)
  BY <1>5, RankExists
<1>7. p \in P /\ Cardinality(Up) = Cardinality(H)
  BY <1>6 DEF FromEnd
<1>8. IsFiniteSet(All) /\ Cardinality(All) = N - Cardinality((1 .. N) \cap P)
  BY <1>2, FS_Difference
<1>9. IsFiniteSet(Beyond) /\ Cardinality(Beyond) = N - Cardinality(P \cap (1 .. N))
  BY <1>1, FS_Difference
<1>10. (1 .. N) \cap P = P \cap (1 .. N)
  OBVIOUS
<1>11. Cardinality(H) <= Cardinality(All)
  BY <1>3, <1>8, FS_Subset
<1>12. /\ Cardinality(All) = Cardinality(Beyond)
       /\ Cardinality(Beyond) \in Nat
  <2> HIDE DEF All, Beyond
  <2> QED
    BY <1>8, <1>9, <1>10, FS_CardinalityType
<1>13. ASSUME ~(p > N) PROVE FALSE
  <2>0. p \in P /\ \A q \in P : q \in Nat /\ q >= 1
    BY <1>7
  <2>a. Beyond = {q \in P : q \notin 1 .. N} /\ Up = {q \in P : q >= p}
    OBVIOUS
  <2> HIDE DEF p, N, Up, Beyond
  <2>1. p \in Nat /\ p >= 1 /\ p <= N /\ p \in 1 .. N
    BY <1>1, <1>13, <2>0
  <2>b. \A q \in P : q \notin 1 .. N => q >= p
    BY <1>1, <2>0, <2>1
  <2>2. p \notin Beyond /\ Beyond \cup {p} \in SUBSET Up
    <3>1. p \notin Beyond
      BY <2>1, <2>a
    <3>2. p >= p
      BY <2>1
    <3>3. p \in Up
      BY <2>0, <2>a, <3>2
    <3>4. Beyond \in SUBSET Up
      BY <2>a, <2>b
    <3> QED
      BY <3>1, <3>3, <3>4
  <2>3. IsFiniteSet(Up) /\ Cardinality(Up) \in Nat
    <3>1. Up \in SUBSET P
      BY <2>a
    <3> QED
      BY <1>1, <3>1, FS_Subset, FS_CardinalityType
  <2>4. IsFiniteSet(Beyond \cup {p}) /\ Cardinality(Beyond \cup {p}) = Cardinality(Beyond) + 1
    BY <1>9, <2>2, FS_AddElement
  <2>5. Cardinality(Beyond \cup {p}) <= Cardinality(Up)
    BY <2>2, <2>3, FS_Subset
  <2> QED
    BY <1>4, <1>7, <1>11, <1>12, <2>3, <2>4, <2>5
<1> QED
  BY <1>7, <1>13

(* A later hole is filled with another message.                            *)
LEMMA HolesGrow ==
  ASSUME NEW P, NEW j \in Nat, NEW k \in Nat, j >= 1, j < k, k \notin P
  PROVE  /\ Cardinality((1 .. j) \ P) \in Nat /\ Cardinality((1 .. k) \ P) \in Nat
         /\ Cardinality((1 .. j) \ P) < Cardinality((1 .. k) \ P)
<1> DEFINE A == (1 .. j) \ P
           B == (1 .. k) \ P
<1>1. IsFiniteSet(1 .. j) /\ IsFiniteSet(1 .. k)
  BY FS_Interval
<1>2. A \in SUBSET (1 .. j) /\ B \in SUBSET (1 .. k)
  OBVIOUS
<1>3. A \cup {k} \in SUBSET B /\ k \notin A
  OBVIOUS
<1> HIDE DEF A, B
<1>4. IsFiniteSet(A) /\ IsFiniteSet(B)
  BY <1>1, <1>2, FS_Subset
<1>5. Cardinality(A) \in Nat /\ Cardinality(B) \in Nat
  BY <1>4, FS_CardinalityType
<1>6. Cardinality(A \cup {k}) = Cardinality(A) + 1
  BY <1>3, <1>4, FS_AddElement
<1>7. Cardinality(A \cup {k}) <= Cardinality(B)
  BY <1>3, <1>4, FS_Subset
<1>8. Cardinality(A) < Cardinality(B)
  BY <1>5, <1>6, <1>7
<1> QED
  BY <1>5, <1>8 DEF A, B

(* The list t has each element of s whose position is in P, once.          *)
Rearranges(at, t, s, P) ==
  /\ at \in [1 .. Len(t) -> P]
  /\ \A j, k \in 1 .. Len(t) : at[j] = at[k] => j = k
  /\ \A k \in P : \E j \in 1 .. Len(t) : at[j] = k
  /\ \A j \in 1 .. Len(t) : t[j] = s[at[j]]

(* The removal neither loses nor duplicates a message: the new list is a   *)
(* rearrangement of the messages to keep.                                  *)
LEMMA RemoveForExact ==
  ASSUME NEW E, NEW s \in Seq(E), NEW F
  PROVE  \E at : Rearranges(at, RemoveFor(s, F), s, Kept(s, F))
<1> DEFINE P == Kept(s, F)
           N == Cardinality(P)
           fill(j) == FromEnd(P, Cardinality((1 .. j) \ P))
           at == [j \in 1 .. N |-> IF j \in P THEN j ELSE fill(j)]
<1>1. Len(s) \in Nat /\ P \in SUBSET (1 .. Len(s))
  BY DEF Kept
<1>2. IsFiniteSet(P) /\ N \in Nat
  <2> HIDE DEF P
  <2> QED
    BY <1>1, PositionsFinite
<1>3. RemoveFor(s, F) = [j \in 1 .. N |-> s[at[j]]]
  BY DEF RemoveFor
<1> HIDE DEF P
<1>4. \A j \in 1 .. N : j \notin P =>
        /\ fill(j) \in P /\ fill(j) > N
        /\ Cardinality({q \in P : q >= fill(j)}) = Cardinality((1 .. j) \ P)
  BY <1>1, FillerKept, FillerBeyond
<1>5. ASSUME NEW j \in 1 .. N, NEW k \in 1 .. N, j \notin P, k \notin P, j < k
      PROVE  fill(j) # fill(k)
  <2>1. j \in Nat /\ k \in Nat /\ j >= 1
    BY <1>2
  <2>2. /\ Cardinality((1 .. j) \ P) \in Nat /\ Cardinality((1 .. k) \ P) \in Nat
        /\ Cardinality((1 .. j) \ P) < Cardinality((1 .. k) \ P)
    BY <1>5, <2>1, HolesGrow
  <2>3. Cardinality((1 .. j) \ P) # Cardinality((1 .. k) \ P)
    BY <2>2
  <2> QED
    BY <1>4, <1>5, <2>3
<1> HIDE DEF fill
<1>6. at \in [1 .. N -> P]
  BY <1>4
<1>7. \A j, k \in 1 .. N : at[j] = at[k] => j = k
  <2> SUFFICES ASSUME NEW j \in 1 .. N, NEW k \in 1 .. N, at[j] = at[k]
               PROVE  j = k
    OBVIOUS
  <2>1. j \in Nat /\ k \in Nat /\ j <= N /\ k <= N
    BY <1>2
  <2>2. CASE j \in P /\ k \in P
    BY <2>2
  <2>a. \A q \in P : q \in Nat
    BY <1>1
  <2>3. CASE j \in P /\ k \notin P
    <3>1. j = fill(k) /\ fill(k) \in Nat /\ fill(k) > N
      BY <1>4, <2>3, <2>a
    <3> QED
      BY <1>2, <2>1, <3>1
  <2>4. CASE j \notin P /\ k \in P
    <3>1. k = fill(j) /\ fill(j) \in Nat /\ fill(j) > N
      BY <1>4, <2>4, <2>a
    <3> QED
      BY <1>2, <2>1, <3>1
  <2>5. CASE j \notin P /\ k \notin P
    <3>1. fill(j) = fill(k)
      BY <2>5
    <3>2. ~(j < k) /\ ~(k < j)
      BY <1>5, <2>5, <3>1
    <3> QED
      BY <2>1, <3>2
  <2> QED
    BY <2>2, <2>3, <2>4, <2>5
<1> HIDE DEF at
<1>8. IsFiniteSet(1 .. N) /\ Cardinality(1 .. N) = N
  BY <1>2, FS_Interval
<1>9. at \in Injection(1 .. N, P)
  BY <1>6, <1>7 DEF Injection, IsInjective
<1>10. at \in Surjection(1 .. N, P)
  BY <1>2, <1>8, <1>9, FS_Injection
<1>11. \A k \in P : \E j \in 1 .. N : at[j] = k
  BY <1>10 DEF Surjection
<1>12. \A j \in 1 .. N : s[at[j]] \in E
  <2>1. \A q \in P : s[q] \in E
    BY <1>1
  <2> QED
    BY <1>6, <2>1
<1>13. Len(RemoveFor(s, F)) = N /\ \A j \in 1 .. N : RemoveFor(s, F)[j] = s[at[j]]
  BY <1>2, <1>3, <1>12
<1>14. Rearranges(at, RemoveFor(s, F), s, P)
  BY <1>6, <1>7, <1>11, <1>13 DEF Rearranges
<1> QED
  BY <1>14 DEF P

(* The search for the first message of a descriptor finds one if there is  *)
(* one, so the unbounded loops of handle_writing_message and               *)
(* fd_switching_write end.                                                 *)
LEMMA FirstForFacts ==
  ASSUME NEW E, NEW s \in Seq(E), NEW fd, HasMessage(s, fd)
  PROVE  FirstFor(s, fd) \in 1 .. Len(s) /\ s[FirstFor(s, fd)].fd = fd
<1> DEFINE S == {k \in 1 .. Len(s) : s[k].fd = fd}
<1>1. S # {} /\ S \in SUBSET Nat
  BY DEF HasMessage
<1>2. PICK x \in S : \A y \in S : x <= y
  BY <1>1, LeastElement
<1>3. \A j \in 1 .. x - 1 : j \in 1 .. Len(s) /\ ~(x <= j)
  OBVIOUS
<1>4. \E k \in 1 .. Len(s) : s[k].fd = fd /\ \A j \in 1 .. k - 1 : s[j].fd # fd
  BY <1>2, <1>3
<1> QED
  BY <1>4 DEF FirstFor

=============================================================================
