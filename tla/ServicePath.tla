----------------------------- MODULE ServicePath -----------------------------
(***************************************************************************)
(* The path of a service as a resource of several processes: servers that  *)
(* create the run-time directory, remove what a previous instance left and *)
(* bind their socket (ipc_server_init, usock_init, directory_setup_), that *)
(* remove their path when they close it (ipc_close), or die at any moment  *)
(* and leave it behind; clients that connect to it (usock_connect).        *)
(*                                                                         *)
(* Each step is one system call: between two of them the other processes   *)
(* act.  The directory has Depth components, and mkdir_p_ creates them one *)
(* at a time with rights 01750, which let only their owner in.             *)
(***************************************************************************)
EXTENDS Integers

CONSTANTS
  Server,    \* processes that run a service
  Client,    \* processes that connect to one
  Service,   \* names of services
  Serves,    \* the service of each process
  User,      \* users
  UserOf,    \* the user of each process
  Anyone,    \* the owner of a directory every user may write in
  None,      \* the owner of a directory that does not exist
  Depth,     \* number of components of the run-time directory
  MaxStarts  \* bound on the number of instances started

Proc == Server \cup Client

ASSUME ProcAssumption == Server \cap Client = {}
ASSUME ServesAssumption == Serves \in [Proc -> Service] /\ UserOf \in [Proc -> User]
ASSUME OwnerAssumption == Anyone \notin User /\ None \notin User /\ Anyone # None
ASSUME DepthAssumption ==
  Depth \in Nat \ {0} /\ MaxStarts \in Nat

VARIABLES
  dirs,      \* the owner of each component of the directory
  path,      \* the socket at the path of each service: its number and user
  nstarts,   \* instances started so far: each has a socket of its own
  listening, \* the sockets that are listened to
  pc,        \* the step of each process
  k,         \* mkdir_p_: the component to create
  sock,      \* the socket of a server, or the one a client is connected to
  alone,     \* history: no other instance of the service since this one started
  died       \* history: services an instance of which died since the last bind

vars == <<dirs, path, nstarts, listening, pc, k, sock, alone, died>>

NoFile == [sock |-> 0, user |-> None]
Existing(s) == path[s].sock # 0

Goto(p, step) == pc' = [pc EXCEPT ![p] = step]

-----------------------------------------------------------------------------
(* fs.c                                                                    *)

(* Whether process p may search and write in component j.                  *)
Enters(p, j) == dirs[j] \in {UserOf[p], Anyone}
Searches(p, j) == \A i \in 1 .. j - 1 : Enters(p, i)
exists_(p) == Searches(p, Depth) /\ dirs[Depth] # None
is_writable_(p) == Enters(p, Depth)

(* What a process does once the directory is there.                        *)
AfterSetup(p) == IF p \in Server THEN "stat" ELSE "connect"

(* directory_setup_: the directory is there and writable, or is created.   *)
directory_setup_(p) ==
  /\ pc[p] = "setup"
  /\ \/ ~exists_(p) /\ Goto(p, "mkdir") /\ k' = [k EXCEPT ![p] = 1]
     \/ exists_(p) /\ is_writable_(p) /\ Goto(p, AfterSetup(p)) /\ UNCHANGED k
     \/ exists_(p) /\ ~is_writable_(p) /\ Goto(p, "failed") /\ UNCHANGED k
  /\ UNCHANGED <<dirs, path, nstarts, listening, sock, alone, died>>

(* Mistakes to rule out: a component another process has just created is   *)
(* an error, and the loop does not go on after such a component.           *)
mkdir_p_NoEEXIST(p) ==
  /\ pc[p] = "mkdir" /\ k[p] <= Depth
  /\ \/ /\ Searches(p, k[p]) /\ dirs[k[p]] = None
        /\ dirs' = [dirs EXCEPT ![k[p]] = UserOf[p]]
        /\ k' = [k EXCEPT ![p] = @ + 1] /\ UNCHANGED pc
     \/ /\ ~Searches(p, k[p]) \/ dirs[k[p]] \in User
        /\ Goto(p, "failed") /\ UNCHANGED <<dirs, k>>
     \/ /\ dirs[k[p]] = Anyone
        /\ k' = [k EXCEPT ![p] = @ + 1] /\ UNCHANGED <<dirs, pc>>
  /\ UNCHANGED <<path, nstarts, listening, sock, alone, died>>
mkdir_p_Stays(p) ==
  /\ pc[p] = "mkdir" /\ k[p] <= Depth
  /\ Searches(p, k[p]) /\ dirs[k[p]] = None
  /\ dirs' = [dirs EXCEPT ![k[p]] = UserOf[p]]
  /\ k' = [k EXCEPT ![p] = @ + 1]
  /\ UNCHANGED <<path, nstarts, listening, pc, sock, alone, died>>

(* One mkdir(2) of mkdir_p_; EEXIST is not an error.                       *)
mkdir_p_(p) ==
  /\ pc[p] = "mkdir" /\ k[p] <= Depth
  /\ \/ /\ Searches(p, k[p])
        /\ dirs' = IF dirs[k[p]] = None THEN [dirs EXCEPT ![k[p]] = UserOf[p]]
                                        ELSE dirs
        /\ k' = [k EXCEPT ![p] = @ + 1] /\ UNCHANGED pc
     \/ /\ ~Searches(p, k[p])
        /\ Goto(p, "failed") /\ UNCHANGED <<dirs, k>>
  /\ UNCHANGED <<path, nstarts, listening, sock, alone, died>>

MkdirDone(p) ==
  /\ pc[p] = "mkdir" /\ k[p] > Depth
  /\ Goto(p, AfterSetup(p))
  /\ k' = [k EXCEPT ![p] = 0]
  /\ UNCHANGED <<dirs, path, nstarts, listening, sock, alone, died>>

-----------------------------------------------------------------------------
(* usock_remove: stat(2), then unlink(2).  The directory is sticky: only   *)
(* the owner of the file or of the directory removes it.  Its failure is   *)
(* not looked at.                                                          *)

MayUnlink(p) ==
  /\ Searches(p, Depth) /\ Enters(p, Depth)
  /\ UserOf[p] \in {dirs[Depth], path[Serves[p]].user}

UnlinkThen(p, step) ==
  /\ path' = IF MayUnlink(p) THEN [path EXCEPT ![Serves[p]] = NoFile] ELSE path
  /\ Goto(p, step)

Stat(p) ==
  /\ pc[p] \in {"stat", "rm_stat"}
  /\ Goto(p, IF Existing(Serves[p])
             THEN (IF pc[p] = "stat" THEN "unlink" ELSE "rm_unlink")
             ELSE (IF pc[p] = "stat" THEN "bind" ELSE "off"))
  /\ UNCHANGED <<dirs, path, nstarts, listening, k, sock, alone, died>>

Unlink(p) ==
  /\ pc[p] \in {"unlink", "rm_unlink"}
  /\ UnlinkThen(p, IF pc[p] = "unlink" THEN "bind" ELSE "off")
  /\ UNCHANGED <<dirs, nstarts, listening, k, sock, alone, died>>

-----------------------------------------------------------------------------
(* A server.                                                               *)

(* Instances of the same service that run beside p.                        *)
Others(p) == {q \in Server \ {p} : Serves[q] = Serves[p] /\ pc[q] # "off"}

(* ipc_server_init: usock_init begins with the directory.                  *)
Start(p) ==
  /\ p \in Server /\ pc[p] = "off" /\ nstarts < MaxStarts
  /\ nstarts' = nstarts + 1
  /\ sock' = [sock EXCEPT ![p] = nstarts + 1]
  /\ Goto(p, "setup")
  /\ alone' = [q \in Server |-> IF q = p THEN Others(p) = {}
                                ELSE alone[q] /\ q \notin Others(p)]
  /\ UNCHANGED <<dirs, path, listening, k, died>>

(* A mistake to rule out: the path is removed after the bind.              *)
BindThenRemove(p) ==
  /\ pc[p] = "bind"
  /\ path' = [path EXCEPT ![Serves[p]] = NoFile]
  /\ Goto(p, "listen")
  /\ UNCHANGED <<dirs, nstarts, listening, k, sock, alone, died>>

(* bind(2) creates the file; it fails if there is one, or without the      *)
(* right to create it.                                                     *)
Bind(p) ==
  /\ pc[p] = "bind"
  /\ \/ /\ ~Existing(Serves[p]) /\ Searches(p, Depth) /\ Enters(p, Depth)
        /\ path' = [path EXCEPT ![Serves[p]] =
                      [sock |-> sock[p], user |-> UserOf[p]]]
        /\ died' = died \ {Serves[p]}
        /\ Goto(p, "listen")
     \/ /\ Existing(Serves[p]) \/ ~Searches(p, Depth) \/ ~Enters(p, Depth)
        /\ Goto(p, "failed")
        /\ UNCHANGED <<path, died>>
  /\ UNCHANGED <<dirs, nstarts, listening, k, sock, alone>>

Listen(p) ==
  /\ pc[p] = "listen"
  /\ listening' = listening \cup {sock[p]}
  /\ Goto(p, "up")
  /\ UNCHANGED <<dirs, path, nstarts, k, sock, alone, died>>

usock_accept(p) ==
  /\ pc[p] = "up"
  /\ \E c \in Client : pc[c] = "connected" /\ sock[c] = sock[p] /\ Goto(c, "served")
  /\ UNCHANGED <<dirs, path, nstarts, listening, k, sock, alone, died>>

(* A mistake to rule out: the path is not removed.                         *)
ipc_closeKeepsPath(p) ==
  /\ pc[p] = "up"
  /\ listening' = listening \ {sock[p]}
  /\ sock' = [sock EXCEPT ![p] = 0]
  /\ Goto(p, "off")
  /\ UNCHANGED <<dirs, path, nstarts, k, alone, died>>

(* ipc_close of the listening socket: usock_close, then usock_remove.      *)
ipc_close(p) ==
  /\ pc[p] = "up"
  /\ listening' = listening \ {sock[p]}
  /\ sock' = [sock EXCEPT ![p] = 0]
  /\ Goto(p, "rm_stat")
  /\ UNCHANGED <<dirs, path, nstarts, k, alone, died>>

(* The process dies; the kernel closes its sockets and leaves the file.    *)
Die(p) ==
  /\ p \in Server /\ pc[p] \notin {"off", "failed"}
  /\ listening' = listening \ {sock[p]}
  /\ sock' = [sock EXCEPT ![p] = 0]
  /\ k' = [k EXCEPT ![p] = 0]
  /\ died' = died \cup {Serves[p]}
  /\ Goto(p, "off")
  /\ UNCHANGED <<dirs, path, nstarts, alone>>

-----------------------------------------------------------------------------
(* A client.                                                               *)

StartConnect(c) ==
  /\ c \in Client /\ pc[c] = "off"
  /\ Goto(c, "setup")
  /\ UNCHANGED <<dirs, path, nstarts, listening, k, sock, alone, died>>

(* usock_connect.                                                          *)
usock_connect(c) ==
  LET file == path[Serves[c]]
  IN  /\ pc[c] = "connect"
      /\ \/ /\ Searches(c, Depth) /\ Enters(c, Depth) /\ file.sock \in listening
            /\ sock' = [sock EXCEPT ![c] = file.sock]
            /\ Goto(c, "connected")
         \/ /\ ~Searches(c, Depth) \/ ~Enters(c, Depth) \/ file.sock \notin listening
            /\ Goto(c, "failed") /\ UNCHANGED sock
      /\ UNCHANGED <<dirs, path, nstarts, listening, k, alone, died>>

(* A process that failed exits; a client leaves when it wants.             *)
Exit(p) ==
  /\ pc[p] \in {"failed", "connected", "served"}
  /\ Goto(p, "off")
  /\ sock' = [sock EXCEPT ![p] = 0]
  /\ k' = [k EXCEPT ![p] = 0]
  /\ UNCHANGED <<dirs, path, nstarts, listening, alone, died>>

-----------------------------------------------------------------------------

Init ==
  /\ \E given \in 0 .. Depth :
       dirs = [j \in 1 .. Depth |-> IF j <= given THEN Anyone ELSE None]
  /\ path = [s \in Service |-> NoFile]
  /\ nstarts = 0 /\ listening = {}
  /\ pc = [p \in Proc |-> "off"]
  /\ k = [p \in Proc |-> 0]
  /\ sock = [p \in Proc |-> 0]
  /\ alone = [p \in Server |-> TRUE]
  /\ died = {}

(* The system calls of a process under way.                                *)
Step(p) ==
  \/ directory_setup_(p) \/ mkdir_p_(p) \/ MkdirDone(p)
  \/ Stat(p) \/ Unlink(p) \/ Bind(p) \/ Listen(p)
  \/ usock_connect(p)

Next ==
  \E p \in Proc :
    \/ Start(p) \/ StartConnect(p) \/ Step(p)
    \/ usock_accept(p) \/ ipc_close(p) \/ Die(p) \/ Exit(p)

Spec == Init /\ [][Next]_vars /\ \A p \in Proc : WF_vars(Step(p))

-----------------------------------------------------------------------------
(* Properties.                                                             *)

(* A service of which one instance runs at a time is reachable while it is *)
(* up: its path leads to its socket, whatever the instances before it left *)
(* and whatever the other services and the clients do to the directory.    *)
Reachable ==
  \A p \in Server :
    pc[p] = "up" /\ alone[p] =>
      path[Serves[p]].sock = sock[p] /\ sock[p] \in listening

(* A service of which one instance runs at a time starts, again after it   *)
(* died at any step of its life and while other processes create the same  *)
(* directory, unless another user has made the directory or the file.      *)
StartSucceeds ==
  \A p \in Server :
    pc[p] = "failed" /\ alone[p] =>
      \/ \E j \in 1 .. Depth : dirs[j] \in User \ {UserOf[p]}
      \/ path[Serves[p]].user \in User \ {UserOf[p]}

(* A path without its process is only left by a process that died.         *)
NoStalePath ==
  \A s \in Service :
    Existing(s) /\ s \notin died =>
      \/ \E p \in Server : sock[p] = path[s].sock
      \/ \E p \in Server : Serves[p] = s /\ pc[p] \in {"rm_stat", "rm_unlink"}

(* The creation of a service returns: the service is up, or the process is *)
(* told that it failed (or died).                                          *)
StartReturns ==
  \A p \in Server : pc[p] = "setup" ~> pc[p] \in {"up", "failed", "off"}

=============================================================================
