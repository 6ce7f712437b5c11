-------------------------- MODULE ServicePathProofs --------------------------
(***************************************************************************)
(* Proofs about ServicePath: for any servers, clients, services and users, *)
(* any depth of the run-time directory and any number of instances.        *)
(***************************************************************************)
EXTENDS ServicePath, TLAPS

ServerSteps == {"off", "setup", "mkdir", "stat", "unlink", "bind", "listen", "up",
                "rm_stat", "rm_unlink", "failed"}
ClientSteps == {"off", "setup", "mkdir", "connect", "connected", "served", "failed"}

Types ==
  /\ dirs \in [1 .. Depth -> User \cup {Anyone, None}]
  /\ path \in [Service -> [sock : Nat, user : User \cup {None}]]
  /\ nstarts \in Nat
  /\ pc \in [Proc -> ServerSteps \cup ClientSteps]
  /\ \A p \in Server : pc[p] \in ServerSteps
  /\ \A c \in Client : pc[c] \in ClientSteps
  /\ k \in [Proc -> Nat] /\ sock \in [Proc -> Nat]
  /\ alone \in [Server -> BOOLEAN]

(* Two instances of a service that run at once are not alone.              *)
Sole ==
  \A p, q \in Server :
    p # q /\ Serves[p] = Serves[q] /\ pc[p] # "off" /\ pc[q] # "off" => ~alone[p]

(* A server has a socket of its own from its start to its ipc_close.       *)
Socks ==
  /\ \A p \in Server :
       /\ sock[p] <= nstarts
       /\ sock[p] = 0 <=> pc[p] \in {"off", "rm_stat", "rm_unlink"}
  /\ \A p, q \in Server : p # q /\ sock[p] = sock[q] => sock[p] = 0

(* A path that leads to the socket of a server was bound by that server.   *)
Owned ==
  \A s \in Service :
    /\ path[s].sock <= nstarts
    /\ Existing(s) => path[s].user \in User
    /\ \A p \in Server :
         Existing(s) /\ sock[p] = path[s].sock =>
           Serves[p] = s /\ UserOf[p] = path[s].user /\ pc[p] \in {"listen", "up"}

(* What a server knows of the directory at each step.                      *)
Ready ==
  \A p \in Server :
    /\ pc[p] = "mkdir" => \A i \in 1 .. Depth : i < k[p] => dirs[i] # None
    /\ pc[p] \in {"stat", "unlink", "bind"} => \A i \in 1 .. Depth : dirs[i] # None
    /\ pc[p] \in {"listen", "up", "rm_stat", "rm_unlink"} =>
         \A i \in 1 .. Depth : Enters(p, i)

(* A server that has bound its path and is alone still has it.             *)
Serving ==
  \A p \in Server :
    /\ pc[p] \in {"listen", "up"} /\ alone[p] => path[Serves[p]].sock = sock[p]
    /\ pc[p] = "up" => sock[p] \in listening

OtherUser(p) ==
  \/ \E j \in 1 .. Depth : dirs[j] \in User \ {UserOf[p]}
  \/ path[Serves[p]].user \in User \ {UserOf[p]}

(* Only another user stops a server that is alone.                         *)
Blocked ==
  \A p \in Server :
    alone[p] /\ (pc[p] = "failed" \/ (pc[p] = "bind" /\ Existing(Serves[p]))) =>
      OtherUser(p)

(* The process that has still to remove the path may do so.                *)
Kept ==
  \A s \in Service :
    Existing(s) /\ s \notin died =>
      \/ \E p \in Server : sock[p] = path[s].sock
      \/ \E p \in Server : /\ Serves[p] = s /\ pc[p] \in {"rm_stat", "rm_unlink"}
                           /\ UserOf[p] = path[s].user

PInv == Types /\ Sole /\ Socks /\ Owned /\ Ready /\ Serving /\ Blocked /\ Kept

-----------------------------------------------------------------------------
(* Only a server is at the steps of usock_init after the directory and of  *)
(* ipc_close, only a client at those of usock_connect.                     *)
LEMMA ServerOnly ==
  ASSUME PInv, NEW p \in Proc,
         pc[p] \in {"stat", "unlink", "bind", "listen", "up", "rm_stat", "rm_unlink"}
  PROVE  p \in Server
  BY DEF PInv, Types, Proc, ClientSteps

LEMMA ClientOnly ==
  ASSUME PInv, NEW p \in Proc, pc[p] \in {"connect", "connected", "served"}
  PROVE  p \in Client
  BY DEF PInv, Types, Proc, ServerSteps

LEMMA ServerService ==
  /\ \A p \in Server : p \in Proc /\ Serves[p] \in Service /\ UserOf[p] \in User
  /\ \A c \in Client : c \notin Server
  BY ServesAssumption, ProcAssumption DEF Proc

(* A step to step st of one process keeps the types of pc.                 *)
LEMMA GotoTypes ==
  ASSUME Types, NEW p \in Proc, NEW st, Goto(p, st),
         p \in Server => st \in ServerSteps, p \in Client => st \in ClientSteps
  PROVE  /\ pc' \in [Proc -> ServerSteps \cup ClientSteps]
         /\ \A q \in Server : pc'[q] \in ServerSteps
         /\ \A c \in Client : pc'[c] \in ClientSteps
  BY DEF Types, Goto, Proc

(* The components of the directory that p may not enter were made by       *)
(* another user, once they all exist.                                      *)
LEMMA NoEntry ==
  ASSUME PInv, NEW p \in Server, NEW j \in 1 .. Depth, dirs[j] # None, ~Enters(p, j)
  PROVE  dirs[j] \in User \ {UserOf[p]}
  BY DEF PInv, Types, Enters

(* Kept holds for a service whose path does not change if the processes    *)
(* that vouch for it keep their socket or go on removing the path.         *)
LEMMA KeptOne ==
  ASSUME PInv, NEW s \in Service, Existing(s), s \notin died, path'[s] = path[s],
         \A q \in Server :
           /\ sock[q] = path[s].sock =>
                \/ sock'[q] = sock[q]
                \/ Serves[q] = s /\ pc'[q] = "rm_stat" /\ UserOf[q] = path[s].user
           /\ Serves[q] = s /\ pc[q] \in {"rm_stat", "rm_unlink"} /\ UserOf[q] = path[s].user =>
                pc'[q] \in {"rm_stat", "rm_unlink"}
  PROVE  \/ \E q \in Server : sock'[q] = path'[s].sock
         \/ \E q \in Server : /\ Serves[q] = s /\ pc'[q] \in {"rm_stat", "rm_unlink"}
                              /\ UserOf[q] = path'[s].user
<1>1. CASE \E q \in Server : sock[q] = path[s].sock
  BY <1>1
<1>2. CASE \E q \in Server : /\ Serves[q] = s /\ pc[q] \in {"rm_stat", "rm_unlink"}
                             /\ UserOf[q] = path[s].user
  BY <1>2
<1> QED
  BY <1>1, <1>2 DEF PInv, Kept

LEMMA KeptSame ==
  ASSUME PInv, path' = path, died' = died, sock' = sock,
         \A q \in Server : pc[q] \in {"rm_stat", "rm_unlink"} =>
                             pc'[q] \in {"rm_stat", "rm_unlink"}
  PROVE  Kept'
  BY DEF PInv, Kept, Existing

-----------------------------------------------------------------------------
(* One lemma per operation.                                                *)

LEMMA StartStep == ASSUME PInv, NEW p \in Proc, Start(p) PROVE PInv'
<1>1. Types'
  <2>1. Goto(p, "setup") /\ p \in Server
    BY DEF Start
  <2>2. /\ pc' \in [Proc -> ServerSteps \cup ClientSteps]
        /\ \A q \in Server : pc'[q] \in ServerSteps
        /\ \A c \in Client : pc'[c] \in ClientSteps
    BY <2>1, ServerService, GotoTypes DEF PInv, ServerSteps
  <2>3. alone' \in [Server -> BOOLEAN]
    BY DEF PInv, Types, Start
  <2>4. nstarts' \in Nat /\ sock' \in [Proc -> Nat]
    BY DEF PInv, Types, Start
  <2> QED
    BY <2>2, <2>3, <2>4 DEF PInv, Types, Start
<1>2. Sole'
  BY ServerService DEF PInv, Types, Sole, Start, Goto, Others
<1>3. Socks'
  BY ServerService DEF PInv, Types, Socks, Start, Goto, Others
<1>4. Owned'
  BY DEF PInv, Types, Owned, Start, Goto, Others, Existing
<1>5. Ready'
  BY DEF PInv, Types, Ready, Start, Goto, Others, Enters
<1>6. Serving'
  BY DEF PInv, Types, Serving, Start, Goto, Others, Existing
<1>7. Blocked'
  BY DEF PInv, Types, Blocked, Start, Goto, Others, OtherUser, Existing
<1>8. Kept'
  <2> SUFFICES ASSUME NEW s \in Service, Existing(s)', s \notin died'
               PROVE  \/ \E q \in Server : sock'[q] = path'[s].sock
                      \/ \E q \in Server : /\ Serves[q] = s /\ pc'[q] \in {"rm_stat", "rm_unlink"}
                                           /\ UserOf[q] = path'[s].user
    BY DEF Kept
  <2>1. Existing(s) /\ s \notin died /\ path' = path /\ pc[p] = "off"
    BY DEF Start, Existing
  <2>2. sock[p] = 0 /\ path[s].sock # 0
    BY <2>1, ServerService DEF PInv, Socks, Start, Existing
  <2>3. \A q \in Server : q # p => sock'[q] = sock[q] /\ pc'[q] = pc[q]
    BY ServerService DEF PInv, Types, Start, Goto
  <2> QED
    BY <2>1, <2>2, <2>3, KeptOne, ServerService
<1> QED
  BY <1>1, <1>2, <1>3, <1>4, <1>5, <1>6, <1>7, <1>8 DEF PInv

LEMMA StartConnectStep == ASSUME PInv, NEW p \in Proc, StartConnect(p) PROVE PInv'
<1>1. Types'
  BY DEF PInv, Types, StartConnect, Goto, ServerSteps, ClientSteps, Proc
<1>2. Sole'
  BY ServerService DEF PInv, Types, Sole, StartConnect, Goto
<1>3. Socks'
  BY ServerService DEF PInv, Types, Socks, StartConnect, Goto
<1>4. Owned'
  BY DEF PInv, Types, Owned, StartConnect, Goto, Existing
<1>5. Ready'
  BY DEF PInv, Types, Ready, StartConnect, Goto, Enters
<1>6. Serving'
  BY DEF PInv, Types, Serving, StartConnect, Goto, Existing
<1>7. Blocked'
  BY DEF PInv, Types, Blocked, StartConnect, Goto, OtherUser, Existing
<1>8. Kept'
  BY ServerService, SMTT(30) DEF PInv, Types, Kept, StartConnect, Goto, Existing
<1> QED
  BY <1>1, <1>2, <1>3, <1>4, <1>5, <1>6, <1>7, <1>8 DEF PInv

LEMMA SetupStep == ASSUME PInv, NEW p \in Proc, directory_setup_(p) PROVE PInv'
<1>1. Types'
  <2>1. PICK st : /\ Goto(p, st)
                  /\ p \in Server => st \in ServerSteps
                  /\ p \in Client => st \in ClientSteps
    BY ServerOnly, ClientOnly, ServerService, ProcAssumption
       DEF directory_setup_, AfterSetup, ServerSteps, ClientSteps
  <2>2. /\ pc' \in [Proc -> ServerSteps \cup ClientSteps]
        /\ \A q \in Server : pc'[q] \in ServerSteps
        /\ \A c \in Client : pc'[c] \in ClientSteps
    BY <2>1, GotoTypes DEF PInv
  <2>3. k' \in [Proc -> Nat] /\ sock' \in [Proc -> Nat]
    BY ServesAssumption, SMTT(30) DEF PInv, Types, directory_setup_
  <2> QED
    BY <2>2, <2>3 DEF PInv, Types, directory_setup_
<1>2. Sole'
  BY ServerService DEF PInv, Types, Sole, directory_setup_, Goto, AfterSetup
<1>3. Socks'
  BY ServerService DEF PInv, Types, Socks, directory_setup_, Goto, AfterSetup
<1>4. Owned'
  BY ServerService DEF PInv, Types, Owned, directory_setup_, Goto, Existing, AfterSetup
<1>5. Ready'
  <2> SUFFICES ASSUME NEW q \in Server
               PROVE  /\ pc'[q] = "mkdir" => \A i \in 1 .. Depth : i < k'[q] => dirs'[i] # None
                      /\ pc'[q] \in {"stat", "unlink", "bind"} =>
                           \A i \in 1 .. Depth : dirs'[i] # None
                      /\ pc'[q] \in {"listen", "up", "rm_stat", "rm_unlink"} =>
                           \A i \in 1 .. Depth : Enters(q, i)'
    BY DEF Ready
  <2>1. dirs' = dirs /\ q \in Proc
    BY ServerService DEF directory_setup_
  <2>2. CASE q # p
    BY <2>1, <2>2 DEF PInv, Types, Ready, Enters, directory_setup_, Goto
  <2>3. CASE q = p /\ ~exists_(p)
    <3>1. pc'[q] = "mkdir" /\ k'[q] = 1
      BY <2>1, <2>3 DEF PInv, Types, directory_setup_, Goto
    <3> QED
      BY <3>1, DepthAssumption
  <2>4. CASE q = p /\ exists_(p)
    <3>1. pc'[q] \in {"stat", "failed"}
      BY <2>1, <2>4 DEF PInv, Types, directory_setup_, Goto, AfterSetup
    <3>2. \A i \in 1 .. Depth : dirs[i] # None
      BY <2>4, ServerService, OwnerAssumption, DepthAssumption
         DEF exists_, Searches, Enters
    <3> QED
      BY <2>1, <3>1, <3>2
  <2> QED
    BY <2>2, <2>3, <2>4
<1>6. Serving'
  BY ServerService DEF PInv, Types, Serving, directory_setup_, Goto, Existing, AfterSetup
<1>7. Blocked'
  <2> SUFFICES ASSUME NEW q \in Server, alone'[q],
                      pc'[q] = "failed" \/ (pc'[q] = "bind" /\ Existing(Serves[q])')
               PROVE  OtherUser(q)'
    BY DEF Blocked
  <2>1. dirs' = dirs /\ path' = path /\ alone' = alone /\ q \in Proc
    BY ServerService DEF directory_setup_
  <2>2. SUFFICES OtherUser(q)
    BY <2>1 DEF OtherUser
  <2>3. CASE q # p
    <3>1. pc'[q] = pc[q]
      BY <2>1, <2>3 DEF PInv, Types, directory_setup_, Goto
    <3> QED
      BY <2>1, <3>1 DEF PInv, Blocked, Existing
  <2>4. CASE q = p
    <3>1. exists_(p) /\ ~is_writable_(p)
      BY <2>1, <2>4 DEF PInv, Types, directory_setup_, Goto, AfterSetup
    <3> QED
      BY <2>4, <3>1, NoEntry, DepthAssumption DEF exists_, is_writable_, OtherUser
  <2> QED
    BY <2>3, <2>4
<1>8. Kept'
  <2>1. path' = path /\ died' = died /\ sock' = sock
    BY DEF directory_setup_
  <2>2. \A q \in Server : pc[q] \in {"rm_stat", "rm_unlink"} =>
                            pc'[q] \in {"rm_stat", "rm_unlink"}
    BY ServerService, ServerOnly DEF PInv, Types, directory_setup_, Goto
  <2> QED
    BY <2>1, <2>2, KeptSame
<1> QED
  BY <1>1, <1>2, <1>3, <1>4, <1>5, <1>6, <1>7, <1>8 DEF PInv

LEMMA MkdirStep == ASSUME PInv, NEW p \in Proc, mkdir_p_(p) PROVE PInv'
<1>1. Types'
  <2>1. CASE Searches(p, k[p]) /\ pc' = pc
    <3>1. k[p] \in Nat /\ UserOf[p] \in User
      BY ServesAssumption DEF PInv, Types
    <3>2. k' \in [Proc -> Nat]
      BY <2>1, <3>1, SMTT(30) DEF PInv, Types, mkdir_p_, Goto
    <3>3. dirs' \in [1 .. Depth -> User \cup {Anyone, None}]
      BY <2>1, <3>1 DEF PInv, Types, mkdir_p_
    <3> QED
      BY <2>1, <3>2, <3>3 DEF PInv, Types, mkdir_p_
  <2>2. CASE Goto(p, "failed") /\ UNCHANGED <<dirs, k>>
    <3>1. /\ pc' \in [Proc -> ServerSteps \cup ClientSteps]
          /\ \A q \in Server : pc'[q] \in ServerSteps
          /\ \A c \in Client : pc'[c] \in ClientSteps
      BY <2>2, GotoTypes DEF PInv, ServerSteps, ClientSteps
    <3> QED
      BY <2>2, <3>1 DEF PInv, Types, mkdir_p_
  <2> QED
    BY <2>1, <2>2 DEF mkdir_p_
<1>2. Sole'
  BY ServerService DEF PInv, Types, Sole, mkdir_p_, Goto
<1>3. Socks'
  BY ServerService DEF PInv, Types, Socks, mkdir_p_, Goto
<1>4. Owned'
  BY ServerService DEF PInv, Types, Owned, mkdir_p_, Goto, Existing
<1>5. Ready'
  <2> SUFFICES ASSUME NEW q \in Server
               PROVE  /\ pc'[q] = "mkdir" => \A i \in 1 .. Depth : i < k'[q] => dirs'[i] # None
                      /\ pc'[q] \in {"stat", "unlink", "bind"} =>
                           \A i \in 1 .. Depth : dirs'[i] # None
                      /\ pc'[q] \in {"listen", "up", "rm_stat", "rm_unlink"} =>
                           \A i \in 1 .. Depth : Enters(q, i)'
    BY DEF Ready
  <2>1. q \in Proc /\ k[p] \in Nat /\ k[q] \in Nat /\ UserOf[p] \in User
    BY ServerService, ServesAssumption DEF PInv, Types
  <2>2. \A i \in 1 .. Depth : dirs[i] # None => dirs'[i] = dirs[i]
    BY DEF PInv, Types, mkdir_p_
  <2>3. \A i \in 1 .. Depth : Enters(q, i) => Enters(q, i)'
    BY <2>1, <2>2, ServerService, OwnerAssumption DEF Enters
  <2>4. CASE q # p \/ pc' # pc
    <3>1. (pc'[q] = pc[q] /\ k'[q] = k[q]) \/ pc'[q] = "failed"
      BY <2>1, <2>4 DEF PInv, Types, mkdir_p_, Goto
    <3> QED
      BY <2>2, <2>3, <3>1 DEF PInv, Ready
  <2>5. CASE q = p /\ pc' = pc
    <3>1. /\ pc[q] = "mkdir" /\ k'[q] = k[q] + 1 /\ k[q] <= Depth
          /\ dirs' = IF dirs[k[p]] = None THEN [dirs EXCEPT ![k[p]] = UserOf[p]] ELSE dirs
      BY <2>1, <2>5 DEF PInv, Types, mkdir_p_, Goto
    <3>2. \A i \in 1 .. Depth : i = k[q] => dirs'[i] # None
      BY <2>1, <2>5, <3>1, OwnerAssumption DEF PInv, Types
    <3>3. \A i \in 1 .. Depth : i < k[q] => dirs'[i] # None
      BY <2>2, <3>1 DEF PInv, Ready
    <3>4. \A i \in 1 .. Depth : i < k[q] + 1 => i < k[q] \/ i = k[q]
      BY <2>1, DepthAssumption
    <3> QED
      BY <2>5, <3>1, <3>2, <3>3, <3>4
  <2> QED
    BY <2>4, <2>5
<1>6. Serving'
  BY ServerService DEF PInv, Types, Serving, mkdir_p_, Goto, Existing
<1>7. Blocked'
  <2> SUFFICES ASSUME NEW q \in Server, alone'[q],
                      pc'[q] = "failed" \/ (pc'[q] = "bind" /\ Existing(Serves[q])')
               PROVE  OtherUser(q)'
    BY DEF Blocked
  <2>1. q \in Proc /\ k[p] \in Nat /\ path' = path /\ alone' = alone
    BY ServerService DEF PInv, Types, mkdir_p_
  <2>2. \A i \in 1 .. Depth : dirs[i] # None => dirs'[i] = dirs[i]
    BY DEF PInv, Types, mkdir_p_
  <2>3. SUFFICES OtherUser(q)
    BY <2>1, <2>2, OwnerAssumption DEF OtherUser
  <2>4. CASE pc'[q] = pc[q]
    BY <2>1, <2>4 DEF PInv, Blocked, Existing
  <2>5. CASE pc'[q] # pc[q]
    <3>1. q = p /\ pc[p] = "mkdir" /\ ~Searches(p, k[p]) /\ k[p] <= Depth
      BY <2>1, <2>5 DEF PInv, Types, mkdir_p_, Goto
    <3>2. PICK i \in 1 .. k[p] - 1 : ~Enters(p, i)
      BY <3>1 DEF Searches
    <3>3. i \in 1 .. Depth /\ i < k[p]
      BY <2>1, <3>1, <3>2, DepthAssumption
    <3>4. dirs[i] # None
      BY <3>1, <3>3 DEF PInv, Ready
    <3> QED
      BY <3>1, <3>2, <3>3, <3>4, NoEntry DEF OtherUser
  <2> QED
    BY <2>4, <2>5
<1>8. Kept'
  <2>1. path' = path /\ died' = died /\ sock' = sock
    BY DEF mkdir_p_
  <2>2. \A q \in Server : pc[q] \in {"rm_stat", "rm_unlink"} =>
                            pc'[q] \in {"rm_stat", "rm_unlink"}
    BY ServerService, ServerOnly DEF PInv, Types, mkdir_p_, Goto
  <2> QED
    BY <2>1, <2>2, KeptSame
<1> QED
  BY <1>1, <1>2, <1>3, <1>4, <1>5, <1>6, <1>7, <1>8 DEF PInv

LEMMA MkdirDoneStep == ASSUME PInv, NEW p \in Proc, MkdirDone(p) PROVE PInv'
<1>1. Types'
  <2>1. PICK st : /\ Goto(p, st)
                  /\ p \in Server => st \in ServerSteps
                  /\ p \in Client => st \in ClientSteps
    BY ServerOnly, ClientOnly, ServerService, ProcAssumption
       DEF MkdirDone, AfterSetup, ServerSteps, ClientSteps
  <2>2. /\ pc' \in [Proc -> ServerSteps \cup ClientSteps]
        /\ \A q \in Server : pc'[q] \in ServerSteps
        /\ \A c \in Client : pc'[c] \in ClientSteps
    BY <2>1, GotoTypes DEF PInv
  <2>3. k' \in [Proc -> Nat] /\ sock' \in [Proc -> Nat]
    BY ServesAssumption DEF PInv, Types, MkdirDone
  <2> QED
    BY <2>2, <2>3 DEF PInv, Types, MkdirDone
<1>2. Sole'
  BY DEF PInv, Types, Sole, MkdirDone, Goto, AfterSetup
<1>3. Socks'
  BY DEF PInv, Types, Socks, MkdirDone, Goto, AfterSetup
<1>4. Owned'
  BY DEF PInv, Types, Owned, MkdirDone, Goto, Existing, AfterSetup
<1>5. Ready'
  BY DepthAssumption DEF PInv, Types, Ready, MkdirDone, Goto, Enters, AfterSetup
<1>6. Serving'
  BY DEF PInv, Types, Serving, MkdirDone, Goto, Existing, AfterSetup
<1>7. Blocked'
  BY DEF PInv, Types, Blocked, MkdirDone, Goto, OtherUser, Existing, AfterSetup
<1>8. Kept'
  BY ServerService, ZenonT(30) DEF PInv, Types, Kept, MkdirDone, Goto, Existing, AfterSetup
<1> QED
  BY <1>1, <1>2, <1>3, <1>4, <1>5, <1>6, <1>7, <1>8 DEF PInv

LEMMA StatStep == ASSUME PInv, NEW p \in Proc, Stat(p) PROVE PInv'
<1>1. Types'
  BY DEF PInv, Types, Stat, Goto, ServerSteps, ClientSteps, Proc
<1>2. Sole'
  BY DEF PInv, Types, Sole, Stat, Goto
<1>3. Socks'
  BY DEF PInv, Types, Socks, Stat, Goto
<1>4. Owned'
  BY DEF PInv, Types, Owned, Stat, Goto, Existing
<1>5. Ready'
  BY DEF PInv, Types, Ready, Stat, Goto, Enters
<1>6. Serving'
  BY DEF PInv, Types, Serving, Stat, Goto, Existing
<1>7. Blocked'
  BY DEF PInv, Types, Blocked, Stat, Goto, OtherUser, Existing
<1>8. Kept'
  <2> SUFFICES ASSUME NEW s \in Service, Existing(s)', s \notin died'
               PROVE  \/ \E q \in Server : sock'[q] = path'[s].sock
                      \/ \E q \in Server : /\ Serves[q] = s /\ pc'[q] \in {"rm_stat", "rm_unlink"}
                                           /\ UserOf[q] = path'[s].user
    BY DEF Kept
  <2>1. Existing(s) /\ s \notin died /\ path' = path /\ sock' = sock
    BY DEF Stat, Existing
  <2>2. \A q \in Server : Serves[q] = s /\ pc[q] \in {"rm_stat", "rm_unlink"} =>
                            pc'[q] \in {"rm_stat", "rm_unlink"}
    BY <2>1, ServerService DEF PInv, Types, Stat, Goto
  <2> QED
    BY <2>1, <2>2, KeptOne
<1> QED
  BY <1>1, <1>2, <1>3, <1>4, <1>5, <1>6, <1>7, <1>8 DEF PInv

LEMMA UnlinkStep == ASSUME PInv, NEW p \in Proc, Unlink(p) PROVE PInv'
<1>1. Types'
  BY DEF PInv, Types, Unlink, Goto, UnlinkThen, NoFile, ServerSteps, ClientSteps, Proc
<1>2. Sole'
  BY DEF PInv, Types, Sole, Unlink, Goto, UnlinkThen, NoFile
<1>3. Socks'
  BY DEF PInv, Types, Socks, Unlink, Goto, UnlinkThen, NoFile
<1>4. Owned'
  BY DEF PInv, Types, Owned, Unlink, Goto, UnlinkThen, NoFile, Existing
<1>5. Ready'
  BY DEF PInv, Types, Ready, Unlink, Goto, UnlinkThen, NoFile, Enters
<1>6. Serving'
  <2> SUFFICES ASSUME NEW q \in Server
               PROVE  /\ pc'[q] \in {"listen", "up"} /\ alone'[q] =>
                           path'[Serves[q]].sock = sock'[q]
                      /\ pc'[q] = "up" => sock'[q] \in listening'
    BY DEF Serving
  <2>1. p \in Server
    BY ServerOnly DEF Unlink
  <2>2. CASE q = p
    BY <2>1, <2>2, ServerService DEF PInv, Types, Unlink, UnlinkThen, Goto
  <2>3. CASE q # p
    <3>1. pc'[q] = pc[q] /\ sock' = sock /\ alone' = alone /\ listening' = listening
      BY <2>3, ServerService DEF PInv, Types, Unlink, UnlinkThen, Goto
    <3>2. pc[q] \in {"listen", "up"} /\ alone[q] => Serves[q] # Serves[p]
      BY <2>1, <2>3 DEF PInv, Sole, Unlink
    <3>3. Serves[q] # Serves[p] => path'[Serves[q]] = path[Serves[q]]
      BY <2>1, ServerService DEF PInv, Types, Unlink, UnlinkThen
    <3> QED
      BY <3>1, <3>2, <3>3 DEF PInv, Serving
  <2> QED
    BY <2>2, <2>3
<1>7. Blocked'
  <2> SUFFICES ASSUME NEW q \in Server, alone'[q],
                      pc'[q] = "failed" \/ (pc'[q] = "bind" /\ Existing(Serves[q])')
               PROVE  OtherUser(q)'
    BY DEF Blocked
  <2>1. p \in Server /\ dirs' = dirs /\ alone' = alone
    BY ServerOnly DEF Unlink
  <2>2. CASE q = p
    <3>1. pc[p] = "unlink" /\ pc'[q] = "bind" /\ Existing(Serves[q])'
      BY <2>1, <2>2, ServerService DEF PInv, Types, Unlink, UnlinkThen, Goto
    <3>2. ~MayUnlink(p) /\ path' = path
      BY <2>1, <2>2, <3>1, ServerService
         DEF PInv, Types, Unlink, UnlinkThen, Existing, NoFile
    <3>3. \A i \in 1 .. Depth : dirs[i] # None
      BY <2>1, <3>1 DEF PInv, Ready
    <3>4. CASE ~Searches(p, Depth) \/ ~Enters(p, Depth)
      <4>1. PICK i \in 1 .. Depth : ~Enters(p, i)
        BY <3>4, DepthAssumption DEF Searches
      <4> QED
        BY <2>1, <2>2, <3>2, <3>3, <4>1, NoEntry DEF OtherUser
    <3>5. CASE UserOf[p] # path[Serves[p]].user
      BY <2>1, <2>2, <3>1, <3>2, <3>5, ServerService DEF PInv, Owned, OtherUser, Existing
    <3> QED
      BY <3>2, <3>4, <3>5 DEF MayUnlink
  <2>3. CASE q # p
    <3>1. pc'[q] = pc[q]
      BY <2>3, ServerService DEF PInv, Types, Unlink, UnlinkThen, Goto
    <3>2. Serves[q] # Serves[p]
      BY <2>1, <2>3, <3>1 DEF PInv, Sole, Unlink
    <3>3. path'[Serves[q]] = path[Serves[q]]
      BY <2>1, <3>2, ServerService DEF PInv, Types, Unlink, UnlinkThen
    <3> QED
      BY <2>1, <3>1, <3>3 DEF PInv, Blocked, Existing, OtherUser
  <2> QED
    BY <2>2, <2>3
<1>8. Kept'
  <2> SUFFICES ASSUME NEW s \in Service, Existing(s)', s \notin died'
               PROVE  \/ \E q \in Server : sock'[q] = path'[s].sock
                      \/ \E q \in Server : /\ Serves[q] = s /\ pc'[q] \in {"rm_stat", "rm_unlink"}
                                           /\ UserOf[q] = path'[s].user
    BY DEF Kept
  <2>1. /\ p \in Server /\ Serves[p] \in Service /\ pc[p] \in {"unlink", "rm_unlink"}
        /\ died' = died /\ sock' = sock
    BY ServerOnly, ServerService DEF Unlink
  <2>2. \A q \in Server : q # p => pc'[q] = pc[q]
    BY ServerService DEF PInv, Types, Unlink, UnlinkThen, Goto
  <2>3. path'[s] = path[s] /\ Existing(s) /\ (s = Serves[p] => ~MayUnlink(p))
    BY <2>1, ServerService DEF PInv, Types, Unlink, UnlinkThen, Existing, NoFile
  <2>4. pc[p] = "rm_unlink" /\ s = Serves[p] => UserOf[p] # path[s].user
    BY <2>1, <2>3, DepthAssumption DEF PInv, Ready, Searches, MayUnlink
  <2> QED
    BY <2>1, <2>2, <2>3, <2>4, KeptOne
<1> QED
  BY <1>1, <1>2, <1>3, <1>4, <1>5, <1>6, <1>7, <1>8 DEF PInv

LEMMA BindStep == ASSUME PInv, NEW p \in Proc, Bind(p) PROVE PInv'
<1>1. Types'
  <2>1. p \in Server /\ Serves[p] \in Service /\ UserOf[p] \in User
    BY ServerOnly, ServerService DEF Bind
  <2>2. Goto(p, "listen") \/ Goto(p, "failed")
    BY DEF Bind
  <2>3. /\ pc' \in [Proc -> ServerSteps \cup ClientSteps]
        /\ \A q \in Server : pc'[q] \in ServerSteps
        /\ \A c \in Client : pc'[c] \in ClientSteps
    BY <2>1, <2>2, ServerService, GotoTypes DEF PInv, ServerSteps
  <2>4. sock[p] \in Nat
    BY DEF PInv, Types
  <2>5. path' \in [Service -> [sock : Nat, user : User \cup {None}]]
    <3>1. [sock |-> sock[p], user |-> UserOf[p]] \in [sock : Nat, user : User \cup {None}]
      BY <2>1, <2>4
    <3> QED
      BY <2>1, <3>1 DEF PInv, Types, Bind
  <2> QED
    BY <2>3, <2>5 DEF PInv, Types, Bind
<1>2. Sole'
  BY ServerService DEF PInv, Types, Sole, Bind, Goto
<1>3. Socks'
  BY ServerService DEF PInv, Types, Socks, Bind, Goto
<1>4. Owned'
  <2>0. p \in Server /\ p \in Proc /\ Serves[p] \in Service /\ UserOf[p] \in User
    BY ServerOnly, ServerService DEF Bind
  <2>1. CASE Goto(p, "failed") /\ path' = path /\ died' = died
    BY <2>0, <2>1, ServerService DEF PInv, Types, Owned, Bind, Goto, Existing
  <2>2. CASE /\ Goto(p, "listen") /\ ~Existing(Serves[p]) /\ died' = died \ {Serves[p]}
             /\ path' = [path EXCEPT ![Serves[p]] = [sock |-> sock[p], user |-> UserOf[p]]]
             /\ Searches(p, Depth) /\ Enters(p, Depth)
    <3>1. /\ path'[Serves[p]] = [sock |-> sock[p], user |-> UserOf[p]]
          /\ \A s \in Service : s # Serves[p] => path'[s] = path[s]
      BY <2>0, <2>2 DEF PInv, Types
    <3>2. /\ sock' = sock /\ nstarts' = nstarts /\ pc'[p] = "listen"
          /\ \A q \in Server : q # p => pc'[q] = pc[q]
      BY <2>0, <2>2, ServerService DEF PInv, Types, Bind, Goto
    <3>3. sock[p] # 0 /\ sock[p] <= nstarts
      BY <2>0 DEF PInv, Socks, Bind
    <3>4. \A q \in Server : sock[q] = sock[p] => q = p
      BY <2>0, <3>3 DEF PInv, Socks
    <3>5. \A s \in Service : Existing(s) => sock[p] # path[s].sock
      BY <2>0 DEF PInv, Owned, Bind
    <3>6. ASSUME NEW s \in Service, s # Serves[p]
          PROVE  /\ path'[s].sock <= nstarts'
                 /\ Existing(s)' => path'[s].user \in User
                 /\ \A q \in Server :
                      Existing(s)' /\ sock'[q] = path'[s].sock =>
                        /\ Serves[q] = s /\ UserOf[q] = path'[s].user
                        /\ pc'[q] \in {"listen", "up"}
      <4>1. path'[s] = path[s] /\ (Existing(s)' <=> Existing(s))
        BY <3>1, <3>6 DEF Existing
      <4> QED
        BY <3>2, <3>5, <3>6, <4>1 DEF PInv, Owned
    <3>7. /\ path'[Serves[p]].sock = sock[p] /\ path'[Serves[p]].user = UserOf[p]
      BY <3>1
    <3> QED
      BY <2>0, <3>2, <3>3, <3>4, <3>6, <3>7 DEF Owned
  <2> QED
    BY <2>1, <2>2 DEF Bind
<1>5. Ready'
  <2> SUFFICES ASSUME NEW q \in Server
               PROVE  /\ pc'[q] = "mkdir" => \A i \in 1 .. Depth : i < k'[q] => dirs'[i] # None
                      /\ pc'[q] \in {"stat", "unlink", "bind"} =>
                           \A i \in 1 .. Depth : dirs'[i] # None
                      /\ pc'[q] \in {"listen", "up", "rm_stat", "rm_unlink"} =>
                           \A i \in 1 .. Depth : Enters(q, i)'
    BY DEF Ready
  <2>1. dirs' = dirs /\ k' = k /\ q \in Proc
    BY ServerService DEF Bind
  <2>2. \A i \in 1 .. Depth : Enters(q, i)' <=> Enters(q, i)
    BY <2>1 DEF Enters
  <2>3. CASE q # p
    <3>1. pc'[q] = pc[q]
      BY <2>1, <2>3 DEF PInv, Types, Bind, Goto
    <3> QED
      BY <2>1, <2>2, <3>1 DEF PInv, Ready
  <2>4. CASE q = p
    <3>1. pc'[q] = "failed" \/ (pc'[q] = "listen" /\ Searches(p, Depth) /\ Enters(p, Depth))
      BY <2>1, <2>4 DEF PInv, Types, Bind, Goto
    <3>2. Searches(p, Depth) /\ Enters(p, Depth) => \A i \in 1 .. Depth : Enters(p, i)
      BY DepthAssumption DEF Searches
    <3> QED
      BY <2>2, <2>4, <3>1, <3>2
  <2> QED
    BY <2>3, <2>4
<1>6. Serving'
  <2> SUFFICES ASSUME NEW q \in Server
               PROVE  /\ pc'[q] \in {"listen", "up"} /\ alone'[q] =>
                           path'[Serves[q]].sock = sock'[q]
                      /\ pc'[q] = "up" => sock'[q] \in listening'
    BY DEF Serving
  <2>1. p \in Server /\ p \in Proc /\ q \in Proc /\ Serves[p] \in Service /\ Serves[q] \in Service
    BY ServerOnly, ServerService DEF Bind
  <2>2. sock' = sock /\ alone' = alone /\ listening' = listening
    BY DEF Bind
  <2>3. CASE q = p
    <3>1. pc'[q] = "failed" \/ (pc'[q] = "listen" /\ path'[Serves[q]].sock = sock[q])
      BY <2>1, <2>3 DEF PInv, Types, Bind, Goto
    <3> QED
      BY <2>2, <3>1
  <2>4. CASE q # p
    <3>1. pc'[q] = pc[q]
      BY <2>1, <2>4 DEF PInv, Types, Bind, Goto
    <3>2. pc[q] \in {"listen", "up"} /\ alone[q] => Serves[q] # Serves[p]
      BY <2>1, <2>4 DEF PInv, Sole, Bind
    <3>3. Serves[q] # Serves[p] => path'[Serves[q]] = path[Serves[q]]
      BY <2>1 DEF PInv, Types, Bind
    <3> QED
      BY <2>2, <3>1, <3>2, <3>3 DEF PInv, Serving
  <2> QED
    BY <2>3, <2>4
<1>7. Blocked'
  <2> SUFFICES ASSUME NEW q \in Server, alone'[q],
                      pc'[q] = "failed" \/ (pc'[q] = "bind" /\ Existing(Serves[q])')
               PROVE  OtherUser(q)'
    BY DEF Blocked
  <2>1. /\ p \in Server /\ p \in Proc /\ q \in Proc /\ Serves[p] \in Service
        /\ Serves[q] \in Service /\ dirs' = dirs /\ alone' = alone /\ pc[p] = "bind"
    BY ServerOnly, ServerService DEF Bind
  <2>2. CASE q = p
    <3>1. /\ Existing(Serves[p]) \/ ~Searches(p, Depth) \/ ~Enters(p, Depth)
          /\ path' = path
      BY <2>1, <2>2 DEF PInv, Types, Bind, Goto
    <3>2. CASE Existing(Serves[p])
      BY <2>1, <2>2, <3>1, <3>2 DEF PInv, Blocked, OtherUser
    <3>3. CASE ~Searches(p, Depth) \/ ~Enters(p, Depth)
      <4>1. PICK i \in 1 .. Depth : ~Enters(p, i)
        BY <3>3, DepthAssumption DEF Searches
      <4>2. dirs[i] # None
        BY <2>1 DEF PInv, Ready
      <4> QED
        BY <2>1, <2>2, <4>1, <4>2, NoEntry DEF OtherUser
    <3> QED
      BY <3>1, <3>2, <3>3
  <2>3. CASE q # p
    <3>1. pc'[q] = pc[q]
      BY <2>1, <2>3 DEF PInv, Types, Bind, Goto
    <3>2. Serves[q] # Serves[p]
      BY <2>1, <2>3, <3>1 DEF PInv, Sole
    <3>3. path'[Serves[q]] = path[Serves[q]]
      BY <2>1, <3>2 DEF PInv, Types, Bind
    <3> QED
      BY <2>1, <3>1, <3>3 DEF PInv, Blocked, Existing, OtherUser
  <2> QED
    BY <2>2, <2>3
<1>8. Kept'
  <2> SUFFICES ASSUME NEW s \in Service, Existing(s)', s \notin died'
               PROVE  \/ \E q \in Server : sock'[q] = path'[s].sock
                      \/ \E q \in Server : /\ Serves[q] = s /\ pc'[q] \in {"rm_stat", "rm_unlink"}
                                           /\ UserOf[q] = path'[s].user
    BY DEF Kept
  <2>0. p \in Server /\ p \in Proc /\ Serves[p] \in Service /\ pc[p] = "bind" /\ sock' = sock
    BY ServerOnly, ServerService DEF Bind
  <2>1. \A q \in Server : q # p => pc'[q] = pc[q]
    BY ServerService DEF PInv, Types, Bind, Goto
  <2>2. CASE path'[s] = path[s]
    <3>1. Existing(s)
      BY <2>2 DEF Existing
    <3>2. s \notin died
      BY <2>0, <3>1 DEF Bind
    <3> QED
      BY <2>0, <2>1, <2>2, <3>1, <3>2, KeptOne
  <2>3. CASE path'[s] # path[s]
    <3>1. s = Serves[p] /\ path'[s].sock = sock[p]
      BY <2>0, <2>3 DEF PInv, Types, Bind
    <3> QED
      BY <2>0, <3>1
  <2> QED
    BY <2>2, <2>3
<1> QED
  BY <1>1, <1>2, <1>3, <1>4, <1>5, <1>6, <1>7, <1>8 DEF PInv

LEMMA ListenStep == ASSUME PInv, NEW p \in Proc, Listen(p) PROVE PInv'
<1>1. Types'
  BY DEF PInv, Types, Listen, Goto, ServerSteps, ClientSteps, Proc
<1>2. Sole'
  BY DEF PInv, Types, Sole, Listen, Goto
<1>3. Socks'
  BY DEF PInv, Types, Socks, Listen, Goto
<1>4. Owned'
  BY DEF PInv, Types, Owned, Listen, Goto, Existing
<1>5. Ready'
  BY DEF PInv, Types, Ready, Listen, Goto, Enters
<1>6. Serving'
  BY DEF PInv, Types, Serving, Listen, Goto, Existing
<1>7. Blocked'
  BY DEF PInv, Types, Blocked, Listen, Goto, OtherUser, Existing
<1>8. Kept'
  BY ServerService, ZenonT(30) DEF PInv, Types, Kept, Listen, Goto, Existing
<1> QED
  BY <1>1, <1>2, <1>3, <1>4, <1>5, <1>6, <1>7, <1>8 DEF PInv

LEMMA AcceptStep == ASSUME PInv, NEW p \in Proc, usock_accept(p) PROVE PInv'
<1>1. Types'
  BY DEF PInv, Types, usock_accept, Goto, ServerSteps, ClientSteps, Proc
<1>2. Sole'
  BY DEF PInv, Types, Sole, usock_accept, Goto
<1>3. Socks'
  BY DEF PInv, Types, Socks, usock_accept, Goto
<1>4. Owned'
  BY DEF PInv, Types, Owned, usock_accept, Goto, Existing
<1>5. Ready'
  BY DEF PInv, Types, Ready, usock_accept, Goto, Enters
<1>6. Serving'
  BY DEF PInv, Types, Serving, usock_accept, Goto, Existing
<1>7. Blocked'
  BY DEF PInv, Types, Blocked, usock_accept, Goto, OtherUser, Existing
<1>8. Kept'
  <2>1. path' = path /\ died' = died /\ sock' = sock
    BY DEF usock_accept
  <2>2. \A q \in Server : pc[q] \in {"rm_stat", "rm_unlink"} =>
                            pc'[q] \in {"rm_stat", "rm_unlink"}
    BY ServerService, ServerOnly DEF PInv, Types, usock_accept, Goto
  <2> QED
    BY <2>1, <2>2, KeptSame
<1> QED
  BY <1>1, <1>2, <1>3, <1>4, <1>5, <1>6, <1>7, <1>8 DEF PInv

LEMMA CloseStep == ASSUME PInv, NEW p \in Proc, ipc_close(p) PROVE PInv'
<1>1. Types'
  BY DEF PInv, Types, ipc_close, Goto, ServerSteps, ClientSteps, Proc
<1>2. Sole'
  BY DEF PInv, Types, Sole, ipc_close, Goto
<1>3. Socks'
  BY DEF PInv, Types, Socks, ipc_close, Goto
<1>4. Owned'
  BY DEF PInv, Types, Owned, ipc_close, Goto, Existing
<1>5. Ready'
  BY DEF PInv, Types, Ready, ipc_close, Goto, Enters
<1>6. Serving'
  <2> SUFFICES ASSUME NEW q \in Server
               PROVE  /\ pc'[q] \in {"listen", "up"} /\ alone'[q] =>
                           path'[Serves[q]].sock = sock'[q]
                      /\ pc'[q] = "up" => sock'[q] \in listening'
    BY DEF Serving
  <2>1. /\ p \in Server /\ p \in Proc /\ q \in Proc /\ path' = path /\ alone' = alone
        /\ listening' = listening \ {sock[p]}
    BY ServerOnly, ServerService DEF ipc_close
  <2>2. CASE q = p
    BY <2>1, <2>2 DEF PInv, Types, ipc_close, Goto
  <2>3. CASE q # p
    <3>1. pc'[q] = pc[q] /\ sock'[q] = sock[q]
      BY <2>1, <2>3 DEF PInv, Types, ipc_close, Goto
    <3>2. pc[q] = "up" => sock[q] # sock[p]
      BY <2>1, <2>3 DEF PInv, Socks
    <3> QED
      BY <2>1, <3>1, <3>2 DEF PInv, Serving
  <2> QED
    BY <2>2, <2>3
<1>7. Blocked'
  BY DEF PInv, Types, Blocked, ipc_close, Goto, OtherUser, Existing
<1>8. Kept'
  <2> SUFFICES ASSUME NEW s \in Service, Existing(s)', s \notin died'
               PROVE  \/ \E q \in Server : sock'[q] = path'[s].sock
                      \/ \E q \in Server : /\ Serves[q] = s /\ pc'[q] \in {"rm_stat", "rm_unlink"}
                                           /\ UserOf[q] = path'[s].user
    BY DEF Kept
  <2>1. /\ p \in Server /\ path' = path /\ died' = died /\ pc[p] = "up" /\ pc'[p] = "rm_stat"
        /\ Existing(s)
    BY ServerOnly DEF PInv, Types, ipc_close, Goto, Existing
  <2>2. \A q \in Server : q # p => sock'[q] = sock[q] /\ pc'[q] = pc[q]
    BY ServerService DEF PInv, Types, ipc_close, Goto
  <2>3. sock[p] = path[s].sock => Serves[p] = s /\ UserOf[p] = path[s].user
    BY <2>1 DEF PInv, Owned
  <2> QED
    BY <2>1, <2>2, <2>3, KeptOne
<1> QED
  BY <1>1, <1>2, <1>3, <1>4, <1>5, <1>6, <1>7, <1>8 DEF PInv

LEMMA DieStep == ASSUME PInv, NEW p \in Proc, Die(p) PROVE PInv'
<1>1. Types'
  BY DEF PInv, Types, Die, Goto, ServerSteps, ClientSteps, Proc
<1>2. Sole'
  BY DEF PInv, Types, Sole, Die, Goto
<1>3. Socks'
  BY DEF PInv, Types, Socks, Die, Goto
<1>4. Owned'
  BY DEF PInv, Types, Owned, Die, Goto, Existing
<1>5. Ready'
  BY DEF PInv, Types, Ready, Die, Goto, Enters
<1>6. Serving'
  <2> SUFFICES ASSUME NEW q \in Server
               PROVE  /\ pc'[q] \in {"listen", "up"} /\ alone'[q] =>
                           path'[Serves[q]].sock = sock'[q]
                      /\ pc'[q] = "up" => sock'[q] \in listening'
    BY DEF Serving
  <2>1. /\ p \in Server /\ p \in Proc /\ q \in Proc /\ path' = path /\ alone' = alone
        /\ listening' = listening \ {sock[p]}
    BY ServerOnly, ServerService DEF Die
  <2>2. CASE q = p
    BY <2>1, <2>2 DEF PInv, Types, Die, Goto
  <2>3. CASE q # p
    <3>1. pc'[q] = pc[q] /\ sock'[q] = sock[q]
      BY <2>1, <2>3 DEF PInv, Types, Die, Goto
    <3>2. pc[q] = "up" => sock[q] # sock[p]
      BY <2>1, <2>3 DEF PInv, Socks
    <3> QED
      BY <2>1, <3>1, <3>2 DEF PInv, Serving
  <2> QED
    BY <2>2, <2>3
<1>7. Blocked'
  BY DEF PInv, Types, Blocked, Die, Goto, OtherUser, Existing
<1>8. Kept'
  <2> SUFFICES ASSUME NEW s \in Service, Existing(s)', s \notin died'
               PROVE  \/ \E q \in Server : sock'[q] = path'[s].sock
                      \/ \E q \in Server : /\ Serves[q] = s /\ pc'[q] \in {"rm_stat", "rm_unlink"}
                                           /\ UserOf[q] = path'[s].user
    BY DEF Kept
  <2>1. p \in Server /\ path' = path /\ s \notin died /\ s # Serves[p] /\ Existing(s)
    BY DEF Die, Existing
  <2>2. \A q \in Server : q # p => sock'[q] = sock[q] /\ pc'[q] = pc[q]
    BY ServerService DEF PInv, Types, Die, Goto
  <2>3. sock[p] # path[s].sock
    BY <2>1 DEF PInv, Owned
  <2> QED
    BY <2>1, <2>2, <2>3, KeptOne
<1> QED
  BY <1>1, <1>2, <1>3, <1>4, <1>5, <1>6, <1>7, <1>8 DEF PInv

LEMMA ConnectStep == ASSUME PInv, NEW p \in Proc, usock_connect(p) PROVE PInv'
<1>1. Types'
  <2>1. PICK st : /\ Goto(p, st)
                  /\ p \in Server => st \in ServerSteps
                  /\ p \in Client => st \in ClientSteps
    BY ServerOnly, ClientOnly, ServerService, ProcAssumption
       DEF usock_connect, ServerSteps, ClientSteps
  <2>2. /\ pc' \in [Proc -> ServerSteps \cup ClientSteps]
        /\ \A q \in Server : pc'[q] \in ServerSteps
        /\ \A c \in Client : pc'[c] \in ClientSteps
    BY <2>1, GotoTypes DEF PInv
  <2>3. k' \in [Proc -> Nat] /\ sock' \in [Proc -> Nat]
    BY ServesAssumption DEF PInv, Types, usock_connect
  <2> QED
    BY <2>2, <2>3 DEF PInv, Types, usock_connect
<1>2. Sole'
  BY ServerService DEF PInv, Types, Sole, usock_connect, Goto
<1>3. Socks'
  BY ServerService, ClientOnly DEF PInv, Types, Socks, usock_connect, Goto
<1>4. Owned'
  <2>1. p \in Client /\ p \notin Server
    BY ClientOnly, ServerService DEF usock_connect
  <2>2. path' = path /\ nstarts' = nstarts
    BY DEF usock_connect
  <2>3. \A q \in Server : sock'[q] = sock[q] /\ pc'[q] = pc[q]
    BY <2>1, ServerService DEF PInv, Types, usock_connect, Goto
  <2> QED
    BY <2>2, <2>3 DEF PInv, Owned, Existing
<1>5. Ready'
  BY ServerService DEF PInv, Types, Ready, usock_connect, Goto, Enters
<1>6. Serving'
  BY ServerService DEF PInv, Types, Serving, usock_connect, Goto, Existing
<1>7. Blocked'
  BY ServerService, ClientOnly
     DEF PInv, Types, Blocked, usock_connect, Goto, OtherUser, Existing
<1>8. Kept'
  <2>1. p \in Client /\ p \notin Server
    BY ClientOnly, ServerService DEF usock_connect
  <2>2. path' = path /\ died' = died
    BY DEF usock_connect
  <2>3. \A q \in Server : sock'[q] = sock[q] /\ pc'[q] = pc[q]
    BY <2>1, ServerService DEF PInv, Types, usock_connect, Goto
  <2> QED
    BY <2>2, <2>3 DEF PInv, Kept, Existing
<1> QED
  BY <1>1, <1>2, <1>3, <1>4, <1>5, <1>6, <1>7, <1>8 DEF PInv

LEMMA ExitStep == ASSUME PInv, NEW p \in Proc, Exit(p) PROVE PInv'
<1>1. Types'
  BY DEF PInv, Types, Exit, Goto, ServerSteps, ClientSteps, Proc
<1>2. Sole'
  BY DEF PInv, Types, Sole, Exit, Goto
<1>3. Socks'
  BY DEF PInv, Types, Socks, Exit, Goto
<1>4. Owned'
  BY DEF PInv, Types, Owned, Exit, Goto, Existing
<1>5. Ready'
  BY DEF PInv, Types, Ready, Exit, Goto, Enters
<1>6. Serving'
  BY DEF PInv, Types, Serving, Exit, Goto, Existing
<1>7. Blocked'
  BY DEF PInv, Types, Blocked, Exit, Goto, OtherUser, Existing
<1>8. Kept'
  <2> SUFFICES ASSUME NEW s \in Service, Existing(s)', s \notin died'
               PROVE  \/ \E q \in Server : sock'[q] = path'[s].sock
                      \/ \E q \in Server : /\ Serves[q] = s /\ pc'[q] \in {"rm_stat", "rm_unlink"}
                                           /\ UserOf[q] = path'[s].user
    BY DEF Kept
  <2>1. path' = path /\ s \notin died /\ Existing(s) /\ pc[p] \in {"failed", "connected", "served"}
    BY DEF Exit, Existing
  <2>2. \A q \in Server : q # p => sock'[q] = sock[q] /\ pc'[q] = pc[q]
    BY ServerService DEF PInv, Types, Exit, Goto
  <2>3. p \in Server => sock[p] # path[s].sock
    BY <2>1 DEF PInv, Owned
  <2> QED
    BY <2>1, <2>2, <2>3, KeptOne
<1> QED
  BY <1>1, <1>2, <1>3, <1>4, <1>5, <1>6, <1>7, <1>8 DEF PInv

-----------------------------------------------------------------------------

LEMMA InitInv == Init => PInv
<1> SUFFICES ASSUME Init PROVE PInv
  OBVIOUS
<1>1. /\ path = [s \in Service |-> NoFile] /\ nstarts = 0
      /\ pc = [p \in Proc |-> "off"] /\ k = [p \in Proc |-> 0]
      /\ sock = [p \in Proc |-> 0] /\ alone = [p \in Server |-> TRUE]
  BY DEF Init
<1>2. dirs \in [1 .. Depth -> User \cup {Anyone, None}]
  BY DEF Init
<1>3. \A s \in Service : path[s].sock = 0 /\ ~Existing(s)
  BY <1>1 DEF NoFile, Existing
<1>4. path \in [Service -> [sock : Nat, user : User \cup {None}]]
  BY <1>1 DEF NoFile
<1>5. Types
  BY <1>1, <1>2, <1>4 DEF Types, ServerSteps, ClientSteps, Proc
<1>6. \A p \in Server : pc[p] = "off" /\ sock[p] = 0
  BY <1>1 DEF Proc
<1>7. Sole /\ Socks /\ Ready /\ Serving /\ Blocked
  BY <1>1, <1>6 DEF Sole, Socks, Ready, Serving, Blocked
<1>8. Owned /\ Kept
  BY <1>1, <1>3 DEF Owned, Kept
<1> QED
  BY <1>5, <1>7, <1>8 DEF PInv

LEMMA NextInv == PInv /\ [Next]_vars => PInv'
<1> SUFFICES ASSUME PInv, [Next]_vars PROVE PInv'
  OBVIOUS
<1>1. CASE UNCHANGED vars
  BY <1>1 DEF vars, PInv, Types, Sole, Socks, Owned, Ready, Serving, Blocked, Kept,
              Existing, Enters, OtherUser
<1>2. CASE Next
  <2>1. PICK p \in Proc : \/ Start(p) \/ StartConnect(p) \/ Step(p) \/ usock_accept(p)
                          \/ ipc_close(p) \/ Die(p) \/ Exit(p)
    BY <1>2 DEF Next
  <2> QED
    BY <2>1, StartStep, StartConnectStep, SetupStep, MkdirStep, MkdirDoneStep, StatStep,
       UnlinkStep, BindStep, ListenStep, AcceptStep, CloseStep, DieStep, ConnectStep,
       ExitStep DEF Step
<1> QED
  BY <1>1, <1>2

LEMMA Invariance == Spec => []PInv
  BY InitInv, NextInv, PTL DEF Spec

(* A service that runs alone is reachable while it is up, whatever the     *)
(* instances before it left at its path and whatever every other process   *)
(* does between the system calls of usock_init.                            *)
THEOREM ReachableAlways == Spec => []Reachable
<1>1. PInv => Reachable
  BY DEF PInv, Serving, Reachable
<1> QED
  BY <1>1, Invariance, PTL

(* A service that runs alone only fails to start because of another user:  *)
(* never because of a process that creates the same directory at the same  *)
(* time, nor because of what an instance that died left behind.            *)
THEOREM StartSucceedsAlways == Spec => []StartSucceeds
<1>1. PInv => StartSucceeds
  BY DEF PInv, Blocked, StartSucceeds, OtherUser
<1> QED
  BY <1>1, Invariance, PTL

(* Only a process that dies leaves its path: ipc_close removes it, even    *)
(* when instances of several users share the path.                         *)
THEOREM NoStalePathAlways == Spec => []NoStalePath
<1>1. PInv => NoStalePath
  BY DEF PInv, Kept, NoStalePath
<1> QED
  BY <1>1, Invariance, PTL

==============================================================================
