---------------------------- MODULE LookupProofs ----------------------------
(***************************************************************************)
(* Proofs about Lookup: for any number of calls of ipc_connection_, and    *)
(* whatever ipcd and the local service do between two system calls of the  *)
(* client, the context only holds open connections to the service, and a   *)
(* call leaves at most the sockets its errors account for.                 *)
(***************************************************************************)
EXTENDS Lookup, FiniteSetTheorems, SequenceTheorems, TLAPS

Numbers == {d.n : d \in fds}

(* What is open and neither in the context nor older than the call.        *)
Stray == Numbers \ (ctx \cup before)

(* An error of the lookup that leaves the connection to ipcd open.         *)
LookupFailed == log \ {"refused", "early", "local"} # {}

Types ==
  /\ pc \in {"app", "contact", "ask", "answer", "receive", "add", "error"}
  /\ nfds \in Nat /\ pfd \in Int /\ ipcd_fd \in Nat
  /\ fds \subseteq [n : Nat, to : {"ipcd", "nowhere", "local", "remote"}]

(* A number names one descriptor, and no future one.                       *)
Named ==
  /\ \A d \in fds : 1 <= d.n /\ d.n <= nfds
  /\ \A b \in before : b \in Nat /\ b <= nfds
  /\ \A d, e \in fds : d.n = e.n => d = e

Leads == \A fd \in ctx : \E d \in fds : d.n = fd /\ d.to \in {"local", "remote"}

(* The conversation: what ipcd has sent agrees with what the client has    *)
(* still to read, and nothing is left of it when the client has given up.  *)
Talk ==
  /\ conv \in {"none", "accepted", "asked", "answered", "gone"}
  /\ conv \in {"none", "accepted", "asked"} => chan = <<>>
  /\ conv = "answered" => chan = IF pc = "answer" THEN <<"ok">> ELSE <<>>
  /\ pc = "contact" => conv = "none"
  /\ pc = "ask" => conv \in {"accepted", "gone"} /\ chan = <<>>
  /\ pc = "answer" => /\ conv \in {"asked", "answered", "gone"}
                      /\ chan \in {<<>>, <<"ok">>, <<"notok">>, <<"fd">>, <<"ok", "fd">>}
  /\ pc = "receive" => conv \in {"answered", "gone"} /\ chan \in {<<>>, <<"fd">>}
  /\ pc \in {"app", "add", "error"} => conv \in {"none", "gone"}

(* A lookup under way holds one connection to ipcd and has had no error.   *)
UnderWay ==
  /\ pc \in {"contact", "ask", "answer", "receive"} =>
       pfd = 0 /\ log = {} /\ routed
  /\ pc \in {"ask", "answer", "receive"} =>
       /\ \E d \in fds : d.n = ipcd_fd /\ d.to = "ipcd"
       /\ Stray \subseteq {ipcd_fd}
  /\ pc = "contact" => Stray = {}

(* After the lookup the descriptor is the one ipcd passed during the call, *)
(* or none.                                                                *)
Given ==
  pc = "add" =>
    /\ "local" \notin log
    /\ pfd > 0 => /\ \E d \in fds : d.n = pfd /\ d.to = "remote"
                  /\ Stray \subseteq {pfd} /\ log = {} /\ pfd \notin before
    /\ pfd <= 0 => \E a : Stray \subseteq IF LookupFailed THEN {a} ELSE {}
    /\ routed /\ log = {} => pfd > 0

Leaks ==
  pc \in {"app", "error"} =>
    \E a, b : Stray \subseteq (IF LookupFailed THEN {a} ELSE {})
                        \cup (IF "local" \in log THEN {b} ELSE {})

LInv == Types /\ Named /\ Leads /\ Talk /\ UnderWay /\ Given /\ Leaks

-----------------------------------------------------------------------------
LEMMA PairAppend ==
  ASSUME NEW x, NEW y
  PROVE  Append(<<>>, y) = <<y>> /\ Append(<<x>>, y) = <<x, y>>
<1>1. /\ <<x>> \in Seq({x, y}) /\ <<x, y>> \in Seq({x, y})
      /\ Append(<<x>>, y) \in Seq({x, y})
  OBVIOUS
<1>2. Len(<<x>>) = 1 /\ Len(<<x, y>>) = 2 /\ Len(Append(<<x>>, y)) = 2
  BY <1>1
<1>3. Append(<<x>>, y)[1] = x /\ Append(<<x>>, y)[2] = y
  BY <1>1, <1>2
<1>4. \A i \in 1 .. 2 : Append(<<x>>, y)[i] = <<x, y>>[i]
  BY <1>3
<1>5. Append(<<x>>, y) = <<x, y>>
  BY <1>1, <1>2, <1>4, SeqEqual
<1>6. Append(<<>>, y) = <<y>>
  OBVIOUS
<1> QED
  BY <1>5, <1>6

(* The parts of the invariant that only the client's own state decides.    *)
Own == Types /\ Named /\ Leads /\ UnderWay /\ Given /\ Leaks

(* A step that leaves the client alone keeps them.                         *)
LEMMA OwnKept == Own /\ UNCHANGED client => Own'
<1> SUFFICES ASSUME Own, UNCHANGED client PROVE Own'
  OBVIOUS
<1>1. Stray' = Stray /\ (LookupFailed' <=> LookupFailed)
  BY DEF client, Stray, Numbers, LookupFailed
<1>2. Types' /\ Named' /\ Leads'
  BY DEF Own, client, Types, Named, Leads
<1>3. UnderWay'
  BY <1>1 DEF Own, client, UnderWay
<1>4. Given'
  BY <1>1 DEF Own, client, Given
<1>5. Leaks'
  BY <1>1 DEF Own, client, Leaks
<1> QED
  BY <1>2, <1>3, <1>4, <1>5 DEF Own

(* The client opens descriptor Fresh: what was open keeps its name and the *)
(* strays are those of before and the new one.                             *)
LEMMA OpenFacts ==
  ASSUME Types, Named, Leads, NEW to \in {"ipcd", "nowhere", "local", "remote"},
         fds' = fds \cup {Opened(to)}, nfds' = Fresh, ctx' = ctx, before' = before
  PROVE  /\ Named' /\ Leads'
         /\ fds' \subseteq [n : Nat, to : {"ipcd", "nowhere", "local", "remote"}]
         /\ nfds' \in Nat /\ Fresh \in Nat /\ Fresh > 0
         /\ Opened(to) \in fds' /\ Opened(to).n = Fresh /\ Opened(to).to = to
         /\ Stray' \subseteq Stray \cup {Fresh}
<1>1. Fresh \in Nat /\ Fresh > 0 /\ Fresh > nfds
  BY DEF Types, Fresh
<1>2. Opened(to).n = Fresh /\ Opened(to).to = to
  BY DEF Opened
<1>3. Opened(to) \in [n : Nat, to : {"ipcd", "nowhere", "local", "remote"}]
  BY <1>1 DEF Opened
<1>4. \A d \in fds : d.n \in Nat /\ d.n # Fresh
  BY <1>1 DEF Types, Named
<1>5. Named'
  BY <1>1, <1>2, <1>4 DEF Named, Types, Fresh
<1>6. Leads'
  BY DEF Leads
<1>7. Numbers' = Numbers \cup {Fresh}
  BY <1>2 DEF Numbers
<1> QED
  BY <1>1, <1>2, <1>3, <1>5, <1>6, <1>7 DEF Types, Stray

(* The client closes its connection to ipcd, which is not in the context.  *)
LEMMA CloseFacts ==
  ASSUME Types, Named, Leads, UnderWay, pc \in {"answer", "receive"}
  PROVE  /\ Without(ipcd_fd) \subseteq fds
         /\ \A fd \in ctx : \E d \in Without(ipcd_fd) :
              d.n = fd /\ d.to \in {"local", "remote"}
         /\ {d.n : d \in Without(ipcd_fd)} \ (ctx \cup before) = {}
<1>1. PICK c \in fds : c.n = ipcd_fd /\ c.to = "ipcd"
  BY DEF UnderWay
<1>2. \A d \in fds : d.to \in {"local", "remote"} => d.n # ipcd_fd
  BY <1>1 DEF Named
<1>3. \A fd \in ctx : \E d \in Without(ipcd_fd) :
        d.n = fd /\ d.to \in {"local", "remote"}
  BY <1>2 DEF Leads, Without
<1>4. {d.n : d \in Without(ipcd_fd)} \subseteq Numbers \ {ipcd_fd}
  BY DEF Without, Numbers
<1>5. Stray \subseteq {ipcd_fd}
  BY DEF UnderWay
<1> QED
  BY <1>3, <1>4, <1>5 DEF Without, Stray

-----------------------------------------------------------------------------
(* One lemma per operation of the client.                                  *)

LEMMA ConnectionStep == LInv /\ ipc_connection_ => LInv'
<1> SUFFICES ASSUME LInv, ipc_connection_ PROVE LInv'
  OBVIOUS
<1> USE DEF LInv
<1>1. Types' /\ Named' /\ Leads'
  BY DEF ipc_connection_, Types, Named, Leads
<1>2. Talk'
  BY DEF ipc_connection_, Talk
<1>3. Stray' = {}
  BY DEF ipc_connection_, Stray, Numbers
<1>4. UnderWay' /\ Given' /\ Leaks'
  BY <1>3 DEF ipc_connection_, UnderWay, Given, Leaks
<1> QED
  BY <1>1, <1>2, <1>4

LEMMA ContactStep == LInv /\ ContactIpcd => LInv'
<1> SUFFICES ASSUME LInv, ContactIpcd PROVE LInv'
  OBVIOUS
<1> USE DEF LInv
<1>0. Stray = {} /\ pfd = 0 /\ log = {} /\ routed /\ conv = "none" /\ chan = <<>>
  BY DEF ContactIpcd, UnderWay, Talk
<1>1. CASE "ipcd" \in up
  <2>1. /\ fds' = fds \cup {Opened("ipcd")} /\ nfds' = Fresh /\ ctx' = ctx
        /\ before' = before /\ ipcd_fd' = Fresh /\ conv' = "accepted" /\ pc' = "ask"
        /\ log' = log /\ pfd' = pfd /\ routed' = routed /\ chan' = chan
    BY <1>1 DEF ContactIpcd
  <2>2. /\ Named' /\ Leads' /\ Opened("ipcd") \in fds'
        /\ fds' \subseteq [n : Nat, to : {"ipcd", "nowhere", "local", "remote"}]
        /\ nfds' \in Nat /\ Fresh \in Nat
        /\ Opened("ipcd").n = Fresh /\ Opened("ipcd").to = "ipcd"
        /\ Stray' \subseteq Stray \cup {Fresh}
    BY <2>1, OpenFacts
  <2>3. Types'
    BY <2>1, <2>2, <1>0 DEF Types
  <2>4. Talk'
    BY <2>1, <1>0 DEF Talk
  <2>5. UnderWay' /\ Given' /\ Leaks'
    BY <2>1, <2>2, <1>0 DEF UnderWay, Given, Leaks
  <2> QED
    BY <2>2, <2>3, <2>4, <2>5
<1>2. CASE "ipcd" \notin up
  <2>1. /\ fds' = fds \cup {Opened("nowhere")} /\ nfds' = Fresh /\ ctx' = ctx
        /\ before' = before /\ ipcd_fd' = ipcd_fd /\ conv' = conv /\ pc' = "add"
        /\ log' = log \cup {"connect"} /\ pfd' = pfd /\ chan' = chan
    BY <1>2 DEF ContactIpcd
  <2>2. /\ Named' /\ Leads'
        /\ fds' \subseteq [n : Nat, to : {"ipcd", "nowhere", "local", "remote"}]
        /\ nfds' \in Nat /\ Stray' \subseteq Stray \cup {Fresh}
    BY <2>1, OpenFacts
  <2>3. Types'
    BY <2>1, <2>2, <1>0 DEF Types
  <2>4. Talk'
    BY <2>1, <1>0 DEF Talk
  <2>5. LookupFailed' /\ "local" \notin log' /\ log' # {}
    BY <2>1, <1>0 DEF LookupFailed
  <2>6. UnderWay' /\ Given' /\ Leaks'
    BY <2>1, <2>2, <2>5, <1>0 DEF UnderWay, Given, Leaks
  <2> QED
    BY <2>2, <2>3, <2>4, <2>6
<1> QED
  BY <1>1, <1>2

LEMMA AskStep == LInv /\ Ask => LInv'
<1> SUFFICES ASSUME LInv, Ask PROVE LInv'
  OBVIOUS
<1> USE DEF LInv
<1>0. log = {} /\ pfd = 0 /\ Stray \subseteq {ipcd_fd} /\ chan = <<>>
  BY DEF Ask, UnderWay, Talk
<1>1. Types' /\ Named' /\ Leads'
  BY DEF Ask, Types, Named, Leads
<1>2. Talk'
  BY DEF Ask, Talk
<1>3. Stray' = Stray
  BY DEF Ask, Stray, Numbers
<1>4. UnderWay' /\ Leaks'
  BY <1>3 DEF Ask, UnderWay, Leaks
<1>5. pc' = "add" => LookupFailed' /\ "local" \notin log' /\ log' # {}
  BY <1>0 DEF Ask, LookupFailed
<1>6. Given'
  BY <1>0, <1>3, <1>5 DEF Ask, Given
<1> QED
  BY <1>1, <1>2, <1>4, <1>6

LEMMA AnswerStep == LInv /\ ReadAnswer => LInv'
<1> SUFFICES ASSUME LInv, ReadAnswer PROVE LInv'
  OBVIOUS
<1> USE DEF LInv
<1>0. /\ pc = "answer" /\ log = {} /\ pfd = 0 /\ Stray \subseteq {ipcd_fd} /\ chan' = <<>>
      /\ conv' = conv /\ ctx' = ctx /\ before' = before /\ pfd' = pfd /\ nfds' = nfds
      /\ ipcd_fd' = ipcd_fd /\ routed' = routed /\ routed
  BY DEF ReadAnswer, UnderWay
<1>a. Types /\ Named /\ Leads /\ UnderWay
  OBVIOUS
<1>1. CASE chan = <<"ok">>
  <2>1. pc' = "receive" /\ fds' = fds /\ log' = log
    BY <1>1 DEF ReadAnswer
  <2>2. Types' /\ Named' /\ Leads'
    BY <1>0, <2>1 DEF Types, Named, Leads
  <2>3. conv \in {"answered", "gone"}
    BY <1>0, <1>1 DEF Talk
  <2>4. Talk'
    BY <1>0, <2>1, <2>3 DEF Talk
  <2>5. Stray' = Stray
    BY <1>0, <2>1 DEF Stray, Numbers
  <2>6. UnderWay' /\ Given' /\ Leaks'
    BY <1>0, <2>1, <2>5 DEF UnderWay, Given, Leaks
  <2> QED
    BY <2>2, <2>4, <2>6
<1>2. CASE chan # <<"ok">>
  <2>1. pc' = "add"
    BY <1>2 DEF ReadAnswer
  <2>2. conv = "gone"
    BY <1>0, <1>2 DEF Talk, ReadAnswer
  <2>3. Talk'
    BY <1>0, <2>1, <2>2 DEF Talk
  <2>4. CASE fds' = Without(ipcd_fd) /\ \E e \in {"refused", "early"} : log' = {e}
    <3>1. /\ fds' \subseteq fds
          /\ \A fd \in ctx : \E d \in fds' : d.n = fd /\ d.to \in {"local", "remote"}
          /\ {d.n : d \in fds'} \ (ctx \cup before) = {}
      BY <1>0, <1>a, <2>4, CloseFacts
    <3>2. Types' /\ Named' /\ Leads'
      BY <1>0, <2>1, <3>1 DEF Types, Named, Leads
    <3>3. Stray' = {} /\ log' # {} /\ "local" \notin log'
      BY <1>0, <2>4, <3>1 DEF Stray, Numbers
    <3>4. UnderWay' /\ Given' /\ Leaks'
      BY <1>0, <2>1, <3>3 DEF UnderWay, Given, Leaks
    <3> QED
      BY <2>3, <3>2, <3>4
  <2>5. CASE fds' = fds /\ \E e \in {"glued", "answer"} : log' = {e}
    <3>1. Types' /\ Named' /\ Leads'
      BY <1>0, <2>1, <2>5 DEF Types, Named, Leads
    <3>2. Stray' = Stray
      BY <1>0, <2>5 DEF Stray, Numbers
    <3>3. LookupFailed' /\ log' # {} /\ "local" \notin log'
      BY <2>5 DEF LookupFailed
    <3>4. UnderWay' /\ Given' /\ Leaks'
      BY <1>0, <2>1, <3>2, <3>3 DEF UnderWay, Given, Leaks
    <3> QED
      BY <2>3, <3>1, <3>4
  <2> QED
    BY <1>0, <1>2, <2>4, <2>5 DEF ReadAnswer
<1> QED
  BY <1>1, <1>2

LEMMA ReceiveStep == LInv /\ ipc_receive_fd => LInv'
<1> SUFFICES ASSUME LInv, ipc_receive_fd PROVE LInv'
  OBVIOUS
<1> USE DEF LInv
<1>0. /\ pc = "receive" /\ pc' = "add" /\ log = {} /\ Stray \subseteq {ipcd_fd}
      /\ conv' = conv /\ ctx' = ctx /\ before' = before /\ ipcd_fd' = ipcd_fd
      /\ chan \in {<<>>, <<"fd">>}
  BY DEF ipc_receive_fd, UnderWay, Talk
<1>a. Types /\ Named /\ Leads /\ UnderWay
  OBVIOUS
<1>b. conv = "gone"
  BY <1>0 DEF Talk, ipc_receive_fd
<1>c. Talk'
  BY <1>0, <1>b DEF Talk
<1>1. CASE chan = <<"fd">>
  <2>1. /\ nfds' = Fresh /\ fds' = Without(ipcd_fd) \cup {Opened("remote")}
        /\ pfd' = Fresh /\ log' = log
    BY <1>1 DEF ipc_receive_fd
  <2>2. /\ Without(ipcd_fd) \subseteq fds
        /\ \A fd \in ctx : \E d \in Without(ipcd_fd) :
             d.n = fd /\ d.to \in {"local", "remote"}
        /\ {d.n : d \in Without(ipcd_fd)} \ (ctx \cup before) = {}
    BY <1>0, <1>a, CloseFacts
  <2>3. Fresh \in Nat /\ Fresh > 0 /\ Fresh > nfds
    BY DEF Types, Fresh
  <2>4. /\ Opened("remote").n = Fresh /\ Opened("remote").to = "remote"
        /\ Opened("remote") \in [n : Nat, to : {"ipcd", "nowhere", "local", "remote"}]
    BY <2>3 DEF Opened
  <2>5. Types'
    BY <1>0, <2>1, <2>2, <2>3, <2>4 DEF Types
  <2>6. \A d \in Without(ipcd_fd) : d.n \in Nat /\ d.n # Fresh /\ 1 <= d.n /\ d.n <= nfds
    BY <2>2, <2>3 DEF Types, Named
  <2>7. Named'
    BY <1>0, <2>1, <2>2, <2>3, <2>4, <2>6 DEF Named, Types, Fresh
  <2>8. Leads'
    BY <1>0, <2>1, <2>2 DEF Leads
  <2>9. Stray' \subseteq {pfd'}
    BY <1>0, <2>1, <2>2, <2>4 DEF Stray, Numbers
  <2>10. \E d \in fds' : d.n = pfd' /\ d.to = "remote"
    BY <2>1, <2>4
  <2>a. pfd' \notin before'
    BY <1>0, <1>a, <2>1, <2>3 DEF Named, Types
  <2>11. UnderWay' /\ Given' /\ Leaks'
    BY <1>0, <2>1, <2>3, <2>9, <2>10, <2>a DEF UnderWay, Given, Leaks
  <2> QED
    BY <1>c, <2>5, <2>7, <2>8, <2>11
<1>2. CASE chan = <<>>
  <2>1. pfd' = -1 /\ log' = log \cup {"receive"} /\ nfds' = nfds /\ fds' = fds
    BY <1>2 DEF ipc_receive_fd
  <2>2. Types' /\ Named' /\ Leads'
    BY <1>0, <2>1 DEF Types, Named, Leads
  <2>3. Stray' = Stray
    BY <1>0, <2>1 DEF Stray, Numbers
  <2>4. LookupFailed' /\ log' # {} /\ "local" \notin log'
    BY <1>0, <2>1 DEF LookupFailed
  <2>5. UnderWay' /\ Given' /\ Leaks'
    BY <1>0, <2>1, <2>3, <2>4 DEF UnderWay, Given, Leaks
  <2> QED
    BY <1>c, <2>2, <2>5
<1> QED
  BY <1>0, <1>1, <1>2

LEMMA AddStep == LInv /\ Add => LInv'
<1> SUFFICES ASSUME LInv, Add PROVE LInv'
  OBVIOUS
<1> USE DEF LInv
<1>0. /\ pc = "add" /\ "local" \notin log /\ conv' = conv /\ chan' = chan
      /\ ipcd_fd' = ipcd_fd /\ before' = before
  BY DEF Add, Given
<1>a. Types /\ Named /\ Leads
  OBVIOUS
<1>b. pc' \in {"app", "error"} /\ Talk'
  BY <1>0 DEF Add, Talk
<1>1. CASE pfd > 0
  <2>1. ctx' = ctx \cup {pfd} /\ pc' = "app" /\ UNCHANGED <<pfd, fds, nfds, log>>
    BY <1>1 DEF Add, NotInitiated, Types
  <2>2. (\E d \in fds : d.n = pfd /\ d.to = "remote") /\ Stray \subseteq {pfd}
    BY <1>0, <1>1 DEF Given
  <2>3. Types' /\ Named' /\ Leads'
    BY <1>0, <2>1, <2>2 DEF Types, Named, Leads
  <2>4. Stray' = {}
    BY <1>0, <2>1, <2>2 DEF Stray, Numbers
  <2>5. UnderWay' /\ Given' /\ Leaks'
    BY <2>1, <2>4 DEF UnderWay, Given, Leaks
  <2> QED
    BY <1>b, <2>3, <2>5
<1>2. CASE pfd <= 0
  <2>1. PICK a : Stray \subseteq IF LookupFailed THEN {a} ELSE {}
    BY <1>0, <1>2 DEF Given
  <2>2. CASE "local" \in up
    <3>1. /\ fds' = fds \cup {Opened("local")} /\ nfds' = Fresh /\ pfd' = Fresh
          /\ ctx' = ctx \cup {Fresh} /\ pc' = "app" /\ log' = log
      BY <1>2, <2>2 DEF Add, NotInitiated
    <3>2. Fresh \in Nat /\ Fresh > 0 /\ Fresh > nfds
      BY DEF Types, Fresh
    <3>3. /\ Opened("local").n = Fresh /\ Opened("local").to = "local"
          /\ Opened("local") \in [n : Nat, to : {"ipcd", "nowhere", "local", "remote"}]
      BY <3>2 DEF Opened
    <3>4. Types'
      BY <1>0, <3>1, <3>2, <3>3 DEF Types
    <3>5. \A d \in fds : d.n \in Nat /\ d.n # Fresh
      BY <3>2 DEF Types, Named
    <3>6. Named'
      BY <1>0, <3>1, <3>2, <3>3, <3>5 DEF Named, Types, Fresh
    <3>7. Leads'
      BY <3>1, <3>3 DEF Leads
    <3>8. Stray' \subseteq Stray /\ LookupFailed' = LookupFailed
      BY <1>0, <3>1, <3>3 DEF Stray, Numbers, LookupFailed
    <3>9. UnderWay' /\ Given' /\ Leaks'
      BY <2>1, <3>1, <3>8 DEF UnderWay, Given, Leaks
    <3> QED
      BY <1>b, <3>4, <3>6, <3>7, <3>9
  <2>3. CASE "local" \notin up
    <3>1. /\ fds' = fds \cup {Opened("nowhere")} /\ nfds' = Fresh /\ pfd' = pfd
          /\ ctx' = ctx /\ pc' = "error" /\ log' = log \cup {"local"}
      BY <1>2, <2>3 DEF Add, NotInitiated
    <3>2. /\ Named' /\ Leads'
          /\ fds' \subseteq [n : Nat, to : {"ipcd", "nowhere", "local", "remote"}]
          /\ nfds' \in Nat /\ Stray' \subseteq Stray \cup {Fresh}
      BY <1>0, <1>a, <3>1, OpenFacts
    <3>3. Types'
      BY <1>0, <3>1, <3>2 DEF Types
    <3>4. (LookupFailed' <=> LookupFailed) /\ "local" \in log'
      BY <3>1 DEF LookupFailed
    <3>5. Stray' \subseteq (IF LookupFailed' THEN {a} ELSE {})
                      \cup (IF "local" \in log' THEN {Fresh} ELSE {})
      BY <2>1, <3>2, <3>4
    <3>6. UnderWay' /\ Given' /\ Leaks'
      BY <3>1, <3>5 DEF UnderWay, Given, Leaks
    <3> QED
      BY <1>b, <3>2, <3>3, <3>6
  <2> QED
    BY <2>2, <2>3
<1> QED
  BY <1>1, <1>2 DEF Types

LEMMA ErrorStep == LInv /\ SeeError => LInv'
<1> SUFFICES ASSUME LInv, SeeError PROVE LInv'
  OBVIOUS
<1> USE DEF LInv
<1>1. Types' /\ Named' /\ Leads'
  BY DEF SeeError, Types, Named, Leads
<1>2. Talk'
  BY DEF SeeError, Talk
<1>3. Stray' = Stray /\ LookupFailed' = LookupFailed
  BY DEF SeeError, Stray, Numbers, LookupFailed
<1>4. UnderWay' /\ Given' /\ Leaks'
  BY <1>3 DEF SeeError, UnderWay, Given, Leaks
<1> QED
  BY <1>1, <1>2, <1>4

(* Steps of ipcd and of the services.                                      *)
LEMMA OthersStep ==
  ASSUME LInv, Ipcd \/ IpcdDies \/ LocalDies \/ \E s \in {"ipcd", "local"} : Restarts(s)
  PROVE  LInv'
<1>1. UNCHANGED client /\ pc' = pc
  BY DEF Ipcd, Answer, ipc_provide_fd, IpcdDies, LocalDies, Restarts, client
<1>2. Own'
  BY <1>1, OwnKept DEF LInv, Own
<1>3. CASE Answer
  <2>1. pc = "answer"
    BY <1>3 DEF LInv, Types, Talk, Answer
  <2>2. Talk'
    BY <1>1, <1>3, <2>1 DEF Talk, Answer
  <2> QED
    BY <1>2, <2>2 DEF LInv, Own
<1>4. CASE ipc_provide_fd
  <2>1. pc \in {"answer", "receive"} /\ conv' = "gone" /\ chan' = Append(chan, "fd")
    BY <1>4 DEF LInv, Types, Talk, ipc_provide_fd
  <2>2. chan = IF pc = "answer" THEN <<"ok">> ELSE <<>>
    BY <1>4 DEF LInv, Talk, ipc_provide_fd
  <2>3. Append(<<>>, "fd") = <<"fd">> /\ Append(<<"ok">>, "fd") = <<"ok", "fd">>
    BY PairAppend
  <2>4. Talk'
    BY <1>1, <2>1, <2>2, <2>3 DEF Talk
  <2> QED
    BY <1>2, <2>4 DEF LInv, Own
<1>5. CASE IpcdDies
  BY <1>1, <1>2, <1>5 DEF LInv, Own, Talk, IpcdDies
<1>6. CASE LocalDies \/ \E s \in {"ipcd", "local"} : Restarts(s)
  BY <1>1, <1>2, <1>6 DEF LInv, Own, Talk, LocalDies, Restarts
<1> QED
  BY <1>3, <1>4, <1>5, <1>6 DEF Ipcd

-----------------------------------------------------------------------------

LEMMA InitInv == Init => LInv
  BY DEF Init, LInv, Types, Named, Leads, Talk, UnderWay, Given, Leaks, Stray, Numbers

LEMMA NextInv == LInv /\ [Next]_vars => LInv'
<1> SUFFICES ASSUME LInv, [Next]_vars PROVE LInv'
  OBVIOUS
<1>1. CASE UNCHANGED vars
  <2>1. UNCHANGED client /\ Talk'
    BY <1>1 DEF vars, client, LInv, Talk
  <2> QED
    BY <2>1, OwnKept DEF LInv, Own
<1> QED
  BY <1>1, ConnectionStep, ContactStep, AskStep, AnswerStep, ReceiveStep, AddStep,
     ErrorStep, OthersStep DEF Next, Client

LEMMA Invariance == Spec => []LInv
  BY InitInv, NextInv, PTL DEF Spec

(* A connection of the context is an open descriptor that leads to the     *)
(* service: what ipc_connection_ adds is never its own connection to ipcd, *)
(* nor a socket that did not connect, nor -1.                              *)
THEOREM ContextLeadsAlways == Spec => []ContextLeads
<1>1. LInv => ContextLeads
  <2> SUFFICES ASSUME LInv, NEW fd \in ctx
               PROVE  LeadsTo(fd) \in {{"local"}, {"remote"}}
    BY DEF ContextLeads
  <2>1. PICK d \in fds : d.n = fd /\ d.to \in {"local", "remote"}
    BY DEF LInv, Leads
  <2>2. {e \in fds : e.n = fd} = {d}
    BY <2>1 DEF LInv, Named
  <2>3. LeadsTo(fd) = {d.to}
    BY <2>2 DEF LeadsTo
  <2> QED
    BY <2>1, <2>3
<1> QED
  BY <1>1, Invariance, PTL

(* The sockets a call leaves open are counted by its errors: none when the *)
(* lookup goes well or is refused, one for any other failure of the lookup *)
(* and one for a failure of the local service.                             *)
THEOREM LeaksBoundedAlways == Spec => []LeaksBounded
<1>1. LInv => LeaksBounded
  <2> SUFFICES ASSUME LInv, pc \in {"app", "error"}
               PROVE  LeaksBounded
    BY DEF LeaksBounded
  <2> DEFINE E == {e \in {"ipcd", "local"} :
                     IF e = "local" THEN e \in log
                     ELSE log \ {"refused", "early", "local"} # {}}
  <2>1. PICK a, b : Stray \subseteq (IF LookupFailed THEN {a} ELSE {})
                              \cup (IF "local" \in log THEN {b} ELSE {})
    BY DEF LInv, Leaks
  <2>2. E = (IF LookupFailed THEN {"ipcd"} ELSE {})
              \cup (IF "local" \in log THEN {"local"} ELSE {})
    BY DEF LookupFailed
  <2>3. SUFFICES Cardinality(Stray) <= Cardinality(E)
    BY DEF LeaksBounded, Stray, Numbers
  <2> HIDE DEF E
  <2>4. CASE ~LookupFailed /\ "local" \notin log
    BY <2>1, <2>2, <2>4, FS_EmptySet
  <2>5. CASE (LookupFailed /\ "local" \notin log) \/ (~LookupFailed /\ "local" \in log)
    <3>1. PICK x, y : Stray \subseteq {x} /\ E = {y}
      BY <2>1, <2>2, <2>5
    <3> QED
      BY <3>1, FS_Singleton, FS_Subset, Cardinality({x}) = 1
  <2>6. CASE LookupFailed /\ "local" \in log
    <3>1. Stray \subseteq {a} \cup {b} /\ E = {"ipcd"} \cup {"local"}
      BY <2>1, <2>2, <2>6
    <3>2. IsFiniteSet({"ipcd"}) /\ Cardinality({"ipcd"}) = 1 /\ IsFiniteSet({a})
          /\ Cardinality({a}) = 1
      BY FS_Singleton
    <3>3. Cardinality({"ipcd"} \cup {"local"}) = 2
      <4>1. "local" \notin {"ipcd"}
        OBVIOUS
      <4>2. Cardinality({"ipcd"} \cup {"local"}) = Cardinality({"ipcd"}) + 1
        BY <3>2, <4>1, FS_AddElement, Zenon
      <4> QED
        BY <3>2, <4>2
    <3>4. IsFiniteSet({a} \cup {b}) /\ Cardinality({a} \cup {b}) \in {1, 2}
      BY <3>2, FS_AddElement
    <3>5. IsFiniteSet(Stray) /\ Cardinality(Stray) <= Cardinality({a} \cup {b})
      BY <3>1, <3>4, FS_Subset
    <3>6. Cardinality(Stray) \in Nat
      BY <3>5, FS_CardinalityType
    <3> QED
      BY <3>1, <3>3, <3>4, <3>5, <3>6
  <2> QED
    BY <2>4, <2>5, <2>6
<1> QED
  BY <1>1, Invariance, PTL

(* When the lookup of a call goes well, what the call adds to the context  *)
(* is the descriptor ipcd passed during that very call, alone, whatever    *)
(* the other processes do between its steps and whatever earlier calls     *)
(* left open or added.                                                     *)
THEOREM RemoteUsedAlways == Spec => RemoteUsed
<1> DEFINE Used == pc = "add" /\ pc' = "app" /\ routed /\ log = {} =>
                     /\ pfd \notin before /\ LeadsTo(pfd) = {"remote"}
                     /\ ctx' = ctx \cup {pfd}
<1>1. LInv /\ [Next]_vars => [Used]_vars
  <2> SUFFICES ASSUME LInv, Next, pc = "add", pc' = "app", routed, log = {}
               PROVE  /\ pfd \notin before /\ LeadsTo(pfd) = {"remote"}
                      /\ ctx' = ctx \cup {pfd}
    OBVIOUS
  <2>1. Add
    BY DEF Next, Client, ipc_connection_, ContactIpcd, Ask, ReadAnswer, ipc_receive_fd,
           SeeError, Ipcd, Answer, ipc_provide_fd, IpcdDies, LocalDies, Restarts, client
  <2>2. pfd > 0 /\ pfd \notin before
    BY DEF LInv, Given, Types
  <2>3. PICK d \in fds : d.n = pfd /\ d.to = "remote"
    BY <2>2 DEF LInv, Given
  <2>4. {e \in fds : e.n = pfd} = {d}
    BY <2>3 DEF LInv, Named
  <2>5. LeadsTo(pfd) = {"remote"}
    BY <2>3, <2>4 DEF LeadsTo
  <2>6. ctx' = ctx \cup {pfd}
    BY <2>1, <2>2 DEF Add, NotInitiated, LInv, Types
  <2> QED
    BY <2>2, <2>5, <2>6
<1> QED
  BY <1>1, Invariance, PTL DEF Spec, RemoteUsed

(* No failure of ipcd, at any step of the lookup, makes the call fail      *)
(* while the local service runs.                                           *)
THEOREM FallsBackAlways == Spec => FallsBack
<1> DEFINE Falls == pc' = "error" /\ pc # "error" => "local" \notin up
<1>1. [Next]_vars => [Falls]_vars
  BY DEF Next, Client, ipc_connection_, ContactIpcd, Ask, ReadAnswer, ipc_receive_fd, Add,
         SeeError, Ipcd, Answer, ipc_provide_fd, IpcdDies, LocalDies, Restarts, client, vars
<1> QED
  BY <1>1, PTL DEF Spec, FallsBack

=============================================================================
