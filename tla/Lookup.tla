------------------------------- MODULE Lookup -------------------------------
(***************************************************************************)
(* How a client reaches a service: ipc_connection_ asks ipcd, the network  *)
(* daemon, when IPC_NETWORK routes the service (ipc_contact_ipcd), and     *)
(* takes the descriptor ipcd passes on (ipc_receive_fd); otherwise, or     *)
(* whenever that fails, it connects to the local service.                  *)
(*                                                                         *)
(* Each step of the client is one system call.  ipcd may be absent, refuse,*)
(* die at any moment, or pass the descriptor without an answer as the      *)
(* example test-networkd-provide-fd does; it answers with a message, then  *)
(* passes the descriptor with ipc_provide_fd, one byte of data that        *)
(* carries it.  recv(2) does not stop between the two (unix(7): ancillary  *)
(* data ends a read after the data it came with, not before): a client     *)
(* that reads late takes both, and the descriptor is closed by the kernel. *)
(***************************************************************************)
EXTENDS Integers, Sequences, FiniteSets

CONSTANTS
  MaxCalls   \* bound on the number of calls of ipc_connection_

ASSUME CallsAssumption == MaxCalls \in Nat

VARIABLES
  pc,     \* the step of the client
  pfd,    \* pollfd.fd: the descriptor to add to the context, 0 or -1
  ipcd_fd,\* the connection to ipcd, 0 if none
  fds,    \* descriptors the client has open, with what they lead to
  nfds,   \* descriptors opened so far
  ctx,    \* descriptors added to the context
  ncalls, \* calls of ipc_connection_ so far
  routed, \* whether IPC_NETWORK names the service
  up,     \* which of ipcd and the local service are running
  conv,   \* ipcd: where it is in the conversation with the client
  chan,   \* what ipcd has sent and the client has not received
  log,    \* history of the call: what went wrong
  before  \* history: descriptors open before the call

vars == <<pc, pfd, ipcd_fd, fds, nfds, ctx, ncalls, routed, up, conv, chan, log,
          before>>

client == <<pc, pfd, ipcd_fd, fds, nfds, ctx, ncalls, routed, log, before>>

Fresh == nfds + 1
Opened(to) == [n |-> Fresh, to |-> to]
Without(fd) == {d \in fds : d.n # fd}
LeadsTo(fd) == {d.to : d \in {e \in fds : e.n = fd}}

-----------------------------------------------------------------------------
(* The client.                                                             *)

(* ipc_connection_ calls ipc_contact_ipcd, which first sets the descriptor *)
(* to 0 and does nothing more for a service that is not routed.            *)
ipc_connection_ ==
  /\ pc = "app" /\ ncalls < MaxCalls
  /\ ncalls' = ncalls + 1
  /\ pfd' = 0 /\ ipcd_fd' = 0 /\ log' = {} /\ before' = {d.n : d \in fds}
  /\ routed' \in BOOLEAN
  /\ pc' = IF routed' THEN "contact" ELSE "add"
  /\ conv' = "none" /\ chan' = <<>>
  /\ UNCHANGED <<fds, nfds, ctx, up>>

(* usock_connect to ipcd; the socket of a failed connection stays open.    *)
ContactIpcd ==
  /\ pc = "contact" /\ nfds' = Fresh
  /\ \/ /\ "ipcd" \in up
        /\ fds' = fds \cup {Opened("ipcd")} /\ ipcd_fd' = Fresh
        /\ conv' = "accepted" /\ pc' = "ask" /\ UNCHANGED log
     \/ /\ "ipcd" \notin up
        /\ fds' = fds \cup {Opened("nowhere")}
        /\ log' = log \cup {"connect"} /\ pc' = "add"
        /\ UNCHANGED <<ipcd_fd, conv>>
  /\ UNCHANGED <<pfd, ctx, ncalls, routed, up, chan, before>>

(* ipc_write_fd of the lookup; it fails if ipcd has gone.                  *)
Ask ==
  /\ pc = "ask"
  /\ \/ conv = "accepted" /\ conv' = "asked" /\ pc' = "answer" /\ UNCHANGED log
     \/ conv = "gone" /\ log' = log \cup {"ask"} /\ pc' = "add" /\ UNCHANGED conv
  /\ UNCHANGED <<pfd, ipcd_fd, fds, nfds, ctx, ncalls, routed, up, chan, before>>

(* Mistakes to rule out: the connection to ipcd stays open after a refusal,*)
(* and an end of file is not looked for.                                   *)
ReadAnswerLeaks ==
  /\ pc = "answer" /\ (chan # <<>> \/ conv = "gone")
  /\ chan' = <<>>
  /\ \/ chan = <<"ok">> /\ pc' = "receive" /\ UNCHANGED log
     \/ /\ chan # <<"ok">> /\ pc' = "add"
        /\ log' = log \cup {IF chan = <<"notok">> THEN "refused" ELSE "answer"}
  /\ UNCHANGED <<pfd, ipcd_fd, fds, nfds, ctx, ncalls, routed, up, conv, before>>
ReadAnswerWaits ==
  /\ pc = "answer" /\ chan = <<"ok">>
  /\ chan' = <<>> /\ pc' = "receive"
  /\ UNCHANGED <<pfd, ipcd_fd, fds, nfds, ctx, ncalls, routed, up, conv, log, before>>

(* ipc_read_fd of the answer: all that was sent up to the byte that        *)
(* carries a descriptor.  The answer alone is "OK" or a refusal; the byte  *)
(* alone has no length and is taken for an empty message, a refusal; the   *)
(* two together are not a message.  Only a refusal closes ipcd_fd.         *)
ReadAnswer ==
  /\ pc = "answer" /\ (chan # <<>> \/ conv = "gone")
  /\ chan' = <<>>
  /\ \/ chan = <<"ok">> /\ pc' = "receive" /\ UNCHANGED <<fds, log>>
     \/ /\ chan \in {<<"notok">>, <<"fd">>}
        /\ fds' = Without(ipcd_fd)
        /\ log' = log \cup {IF chan = <<"notok">> THEN "refused" ELSE "early"}
        /\ pc' = "add"
     \/ /\ chan = <<"ok", "fd">> /\ log' = log \cup {"glued"}
        /\ pc' = "add" /\ UNCHANGED fds
     \/ /\ chan = <<>> /\ log' = log \cup {"answer"}
        /\ pc' = "add" /\ UNCHANGED fds
  /\ UNCHANGED <<pfd, ipcd_fd, nfds, ctx, ncalls, routed, up, conv, before>>

(* A mistake to rule out: the descriptor is not set to -1 at first, and    *)
(* a failed reception leaves the number of another.                        *)
ipc_receive_fdKeeps ==
  /\ pc = "receive" /\ (chan # <<>> \/ conv = "gone")
  /\ \/ /\ chan = <<"fd">> /\ chan' = <<>> /\ nfds' = Fresh
        /\ fds' = Without(ipcd_fd) \cup {Opened("remote")}
        /\ pfd' = Fresh /\ UNCHANGED log
     \/ /\ chan = <<>> /\ pfd' = ipcd_fd /\ log' = log \cup {"receive"}
        /\ UNCHANGED <<chan, nfds, fds>>
  /\ pc' = "add"
  /\ UNCHANGED <<ipcd_fd, ctx, ncalls, routed, up, conv, before>>

(* ipc_receive_fd: the descriptor is -1 unless one is received; ipcd_fd is *)
(* closed only then.                                                       *)
ipc_receive_fd ==
  /\ pc = "receive" /\ (chan # <<>> \/ conv = "gone")
  /\ \/ /\ chan = <<"fd">> /\ chan' = <<>> /\ nfds' = Fresh
        /\ fds' = Without(ipcd_fd) \cup {Opened("remote")}
        /\ pfd' = Fresh /\ UNCHANGED log
     \/ /\ chan = <<>> /\ pfd' = -1 /\ log' = log \cup {"receive"}
        /\ UNCHANGED <<chan, nfds, fds>>
  /\ pc' = "add"
  /\ UNCHANGED <<ipcd_fd, ctx, ncalls, routed, up, conv, before>>

(* A mistake to rule out: what ipcd gave is not looked at.                 *)
NotInitiatedAlways == TRUE

(* "if ipcd did not initiate the connection"                               *)
NotInitiated == pfd <= 0

(* A mistake to rule out: an error of ipc_contact_ipcd ends the call.      *)
AddStrict ==
  /\ pc = "add"
  /\ \/ /\ log # {} /\ pc' = "error" /\ UNCHANGED <<pfd, fds, nfds, ctx, log>>
     \/ /\ log = {} /\ ~NotInitiated
        /\ ctx' = ctx \cup {pfd} /\ pc' = "app" /\ UNCHANGED <<pfd, fds, nfds, log>>
  /\ UNCHANGED <<ipcd_fd, ncalls, routed, up, conv, chan, before>>

(* The end of ipc_connection_: the error of ipc_contact_ipcd is printed,   *)
(* the local service is tried, and the descriptor added to the context.    *)
Add ==
  /\ pc = "add"
  /\ \/ /\ ~NotInitiated
        /\ ctx' = ctx \cup {pfd} /\ pc' = "app"
        /\ UNCHANGED <<pfd, fds, nfds, log>>
     \/ /\ NotInitiated /\ "local" \in up
        /\ fds' = fds \cup {Opened("local")} /\ nfds' = Fresh /\ pfd' = Fresh
        /\ ctx' = ctx \cup {Fresh} /\ pc' = "app"
        /\ UNCHANGED log
     \/ /\ NotInitiated /\ "local" \notin up
        /\ fds' = fds \cup {Opened("nowhere")} /\ nfds' = Fresh
        /\ log' = log \cup {"local"} /\ pc' = "error"
        /\ UNCHANGED <<pfd, ctx>>
  /\ UNCHANGED <<ipcd_fd, ncalls, routed, up, conv, chan, before>>

(* The application sees the error; it may try again.                       *)
SeeError ==
  /\ pc = "error" /\ pc' = "app"
  /\ UNCHANGED <<pfd, ipcd_fd, fds, nfds, ctx, ncalls, routed, up, conv, chan, log,
                 before>>

Client ==
  \/ ContactIpcd \/ Ask \/ ReadAnswer \/ ipc_receive_fd \/ Add \/ SeeError

-----------------------------------------------------------------------------
(* ipcd and the services.                                                  *)

(* ipcd answers, or passes the descriptor at once.                         *)
Answer ==
  /\ conv = "asked"
  /\ \/ chan' = <<"ok">> /\ conv' = "answered"
     \/ chan' = <<"notok">> /\ conv' = "gone"
     \/ chan' = <<"fd">> /\ conv' = "gone"
  /\ UNCHANGED <<client, up>>

(* ipc_provide_fd, then ipc_close_all.                                     *)
ipc_provide_fd ==
  /\ conv = "answered"
  /\ chan' = Append(chan, "fd") /\ conv' = "gone"
  /\ UNCHANGED <<client, up>>

IpcdDies ==
  /\ "ipcd" \in up /\ up' = up \ {"ipcd"}
  /\ conv' = IF conv = "none" THEN "none" ELSE "gone"
  /\ UNCHANGED <<client, chan>>

Restarts(s) ==
  /\ s \notin up /\ up' = up \cup {s}
  /\ UNCHANGED <<client, conv, chan>>

LocalDies ==
  /\ "local" \in up /\ up' = up \ {"local"}
  /\ UNCHANGED <<client, conv, chan>>

Ipcd == Answer \/ ipc_provide_fd

-----------------------------------------------------------------------------

Init ==
  /\ pc = "app" /\ pfd = 0 /\ ipcd_fd = 0
  /\ fds = {} /\ nfds = 0 /\ ctx = {} /\ ncalls = 0
  /\ routed = FALSE /\ up \in SUBSET {"ipcd", "local"}
  /\ conv = "none" /\ chan = <<>> /\ log = {} /\ before = {}

Next ==
  \/ ipc_connection_ \/ Client
  \/ Ipcd \/ IpcdDies \/ LocalDies \/ \E s \in {"ipcd", "local"} : Restarts(s)

(* The client goes on as long as its system calls return.  Nothing is      *)
(* assumed of ipcd: it reads from a daemon without a limit of time         *)
(* (ipcd.zig) and may never answer.                                        *)
Spec == Init /\ [][Next]_vars /\ WF_vars(Client)

-----------------------------------------------------------------------------
(* Properties.                                                             *)

(* A connection of the context leads to the service, local or remote, over *)
(* an open descriptor; never to ipcd nor to nothing.                       *)
ContextLeads == \A fd \in ctx : LeadsTo(fd) \in {{"local"}, {"remote"}}

(* As long as the local service runs, the application gets a connection,   *)
(* whatever ipcd does: absent, refusing, or dead at any step.              *)
FallsBack == [][pc' = "error" /\ pc # "error" => "local" \notin up]_vars

(* What ipcd announced and passed during this call is the one connection   *)
(* the call adds, and no older descriptor takes its place.  A call whose   *)
(* client read the answer together with the byte that carries the          *)
(* descriptor has an error in its log: this says nothing of it.            *)
RemoteUsed ==
  [][pc = "add" /\ pc' = "app" /\ routed /\ log = {} =>
       /\ pfd \notin before /\ LeadsTo(pfd) = {"remote"}
       /\ ctx' = ctx \cup {pfd}]_vars

(* A call leaves nothing open but the connection it adds when the lookup   *)
(* goes well or is refused.  Any other failure of the lookup leaves one    *)
(* socket open, and a failure of the local service another.                *)
LeaksBounded ==
  pc \in {"app", "error"} =>
    Cardinality({d.n : d \in fds} \ (ctx \cup before)) <=
      Cardinality({e \in {"ipcd", "local"} :
                     IF e = "local" THEN e \in log
                     ELSE log \ {"refused", "early", "local"} # {}})

(* The client waits for an ipcd that keeps the connection and is silent.   *)
Silent == pc \in {"answer", "receive"} /\ chan = <<>> /\ conv # "gone"

(* Every call of ipc_connection_ returns, whatever ipcd sends and wherever *)
(* it dies or is started again, unless it keeps the connection open and    *)
(* silent for ever: ipc_read_fd and ipc_receive_fd have no time limit.     *)
CallReturns == (pc # "app" ~> pc = "app") \/ <>[]Silent

=============================================================================
