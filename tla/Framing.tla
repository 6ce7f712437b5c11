------------------------------- MODULE Framing -------------------------------
(***************************************************************************)
(* Messages over a stream socket, byte by byte: a writer that formats a    *)
(* message and sends it (ipc_message_format, ipc_write_fd, usock_send) and *)
(* a reader that receives and parses it (ipc_read_fd, usock_recv,          *)
(* ipc_message_format_read).                                               *)
(*                                                                         *)
(* A stream has no message boundaries: one recv(2) may take a part of a    *)
(* message, or several messages.  The sizes are scaled: the length is      *)
(* written in two bytes of base Base instead of four of base 256, and      *)
(* uint32_t arithmetic is modulo Word.                                     *)
(***************************************************************************)
EXTENDS Integers, Sequences

CONSTANTS
  Base,       \* a byte is in 0 .. Base - 1
  Word,       \* uint32_t and size_t arithmetic is modulo Word
  MaxSize,    \* IPC_MAX_MESSAGE_SIZE, also the size of the buffers
  MaxPayload, \* bound on the payloads the writer sends
  Types,      \* types of the messages
  UserTypes,  \* their user types
  Content,    \* the bytes of their payloads
  NULL,       \* no payload, no message
  Unit,       \* the kernel passes a long send(2) on in pieces of Unit bytes
  Interrupts, \* whether send(2) may stop after a part of the message
  MaxMsgs     \* bound on the number of messages sent

Header == 4   \* IPC_HEADER_SIZE: type, length (2 bytes here), user type
Byte == 0 .. Base - 1

(* A message fits in the buffer.  ipc_message_format accepts a payload of  *)
(* up to MaxSize bytes; one whose header does not fit too is left out.     *)
ASSUME SizeAssumption ==
  /\ Base \in Nat /\ MaxPayload \in Nat /\ MaxMsgs \in Nat
  /\ MaxSize \in Nat /\ Word \in Nat
  /\ Unit \in Nat \ {0} /\ 1 < Base /\ MaxPayload < Base * Base
  /\ Header + MaxPayload <= MaxSize /\ 2 * (MaxSize + Header) < Word
ASSUME TypesAssumption == Types \cup UserTypes \cup Content \subseteq Byte
ASSUME NullAssumption == NULL \notin Seq(Byte)
ASSUME InterruptsAssumption == Interrupts \in BOOLEAN

Payload == UNION {[1 .. n -> Content] : n \in 0 .. MaxPayload}

VARIABLES
  stream,   \* bytes sent and not yet received
  cuts,     \* where in the stream a recv(2) may stop short of its buffer
  writer,   \* "open", or how the writer has left: "gone", "reset"
  reader,   \* usock_recv: its step, the buffer, msize and msize_read
  nsent,    \* history: number of bytes sent
  ends,     \* history: where in the stream a whole message ends
  written,  \* history: the messages sent, the last one perhaps in part
  received, \* history: the messages given to the reader's application
  whole,    \* history: only whole messages were sent and received at a time
  glued     \* history: some recv(2) took more than one message

vars == <<stream, cuts, writer, reader, nsent, ends, written, received, whole, glued>>

-----------------------------------------------------------------------------
(* Encoding and decoding.                                                  *)

htonl(n) == <<n \div Base, n % Base>>
ntohl(hi, lo) == hi * Base + lo

(* The refusals of ipc_message_format: too long, or a length that does not *)
(* agree with the presence of a payload.                                   *)
ipc_message_format(type, utype, payload, length) ==
  IF \/ length > MaxSize
     \/ length = 0 /\ payload # NULL
     \/ length > 0 /\ payload = NULL
  THEN NULL
  ELSE [type |-> type, user_type |-> utype,
        payload |-> IF payload = NULL THEN <<>> ELSE payload]

(* A mistake to rule out: the length is not put in network order.          *)
ipc_message_format_writeHostOrder(m) ==
  <<m.type, Len(m.payload) % Base, Len(m.payload) \div Base, m.user_type>>
    \o m.payload

ipc_message_format_write(m) ==
  <<m.type>> \o htonl(Len(m.payload)) \o <<m.user_type>> \o m.payload

(* What remains of n bytes once the header is taken off; fewer bytes than  *)
(* a header give a huge number.                                            *)
WithoutHeader(n) == (n - Header) % Word

(* A mistake to rule out: the payload is taken from the wrong place.       *)
ipc_message_format_readOffset(buf, n) ==
  LET length == ntohl(buf[2], buf[3])
  IN  IF length > MaxSize \/ (length # WithoutHeader(n) /\ length # 0)
      THEN NULL
      ELSE [type |-> buf[1], user_type |-> buf[4],
            payload |-> SubSeq(buf, Header, Header + length - 1)]

(* The message in the first n bytes of the buffer.  A length of 0 is       *)
(* accepted whatever n is.                                                 *)
ipc_message_format_read(buf, n) ==
  LET length == ntohl(buf[2], buf[3])
  IN  IF \/ n > MaxSize \/ length > MaxSize
         \/ length # WithoutHeader(n) /\ length # 0
      THEN NULL
      ELSE [type |-> buf[1], user_type |-> buf[4],
            payload |-> SubSeq(buf, Header + 1, Header + length)]

-----------------------------------------------------------------------------
(* The writer.                                                             *)

(* The ends of the pieces of len bytes sent at offset from.                *)
Pieces(from, len) == {from + k : k \in {j \in 1 .. len : j % Unit = 0 \/ j = len}}

(* usock_send: one send(2), which takes the bytes, all of them or, when it *)
(* is interrupted, only some.                                              *)
usock_send(bytes) ==
  \/ /\ stream' = stream \o bytes
     /\ nsent' = nsent + Len(bytes)
     /\ cuts' = cuts \cup Pieces(nsent, Len(bytes))
     /\ ends' = ends \cup {nsent + Len(bytes)}
     /\ UNCHANGED whole
  \/ /\ Interrupts
     /\ \E n \in 1 .. Len(bytes) - 1 :
          /\ stream' = stream \o SubSeq(bytes, 1, n)
          /\ nsent' = nsent + n
          /\ cuts' = cuts \cup Pieces(nsent, n)
     /\ whole' = FALSE
     /\ UNCHANGED ends

(* ipc_write_fd of a formatted message.  send(2) fails once the reader has *)
(* closed, and the writer is told so; it is also told when only a part of  *)
(* the message was taken.                                                  *)
ipc_write_fd(m) ==
  /\ writer = "open" /\ Len(written) < MaxMsgs
  /\ reader.pc \in {"idle", "reading"}
  /\ usock_send(ipc_message_format_write(m))
  /\ written' = Append(written, m)
  /\ UNCHANGED <<writer, reader, received, glued>>

(* The application formats a message, then sends it.                       *)
Write(type, utype, payload, length) ==
  LET m == ipc_message_format(type, utype, payload, length)
  IN  m # NULL /\ ipc_write_fd(m)

(* close(2), or a death the reader sees as an error.                       *)
Leave(how) ==
  /\ writer = "open"
  /\ writer' = how
  /\ UNCHANGED <<stream, cuts, reader, nsent, ends, written, received, whole, glued>>

-----------------------------------------------------------------------------
(* The reader.                                                             *)

Buffer == [k \in 1 .. MaxSize |-> 0]

(* ipc_read_fd is called when poll(2) reports the socket as readable.      *)
StartRead ==
  /\ reader.pc = "idle" /\ (stream # <<>> \/ writer # "open")
  /\ reader' = [pc |-> "reading", buf |-> Buffer, msize |-> 0, msize_read |-> 0]
  /\ UNCHANGED <<stream, cuts, writer, nsent, ends, written, received, whole, glued>>

(* A mistake to rule out: the bytes of the header are counted twice.       *)
AgainTwice(msize, n) == msize > 0 /\ msize + Header > WithoutHeader(n)

(* The condition of the loop of usock_recv.                                *)
Again(msize, n) == msize > 0 /\ msize > WithoutHeader(n)

(* "Do not allow messages with a longer size than expected".               *)
TooLong(msize) == msize > MaxSize

(* recv(2) takes n bytes, always to the start of the buffer.  The length   *)
(* is read from what the first call gave.  At the end of the loop the      *)
(* message is parsed; an error ends the connection (handle_new_message).   *)
Recv(n) ==
  LET buf   == [k \in 1 .. MaxSize |-> IF k <= n THEN stream[k] ELSE reader.buf[k]]
      msize == IF reader.msize = 0 THEN ntohl(buf[2], buf[3]) ELSE reader.msize
      nread == reader.msize_read + n
      m     == ipc_message_format_read(buf, nread)
      from  == nsent - Len(stream)
  IN  /\ reader.pc = "reading" /\ n \in 1 .. Len(stream)
      /\ n <= MaxSize /\ (from + n \in cuts \/ n = MaxSize)
      /\ stream' = SubSeq(stream, n + 1, Len(stream))
      /\ whole' = (whole /\ from + n \in ends)
      /\ glued' = (glued \/ \E e \in ends : from < e /\ e < from + n)
      /\ \/ /\ ~TooLong(msize) /\ Again(msize, nread)
            /\ reader' = [reader EXCEPT !.buf = buf, !.msize = msize,
                                        !.msize_read = nread]
            /\ UNCHANGED received
         \/ /\ ~TooLong(msize) /\ ~Again(msize, nread) /\ m # NULL
            /\ reader' = [pc |-> "idle", buf |-> Buffer, msize |-> 0, msize_read |-> 0]
            /\ received' = Append(received, m)
         \/ /\ TooLong(msize) \/ (~Again(msize, nread) /\ m = NULL)
            /\ reader' = [pc |-> "error", buf |-> Buffer, msize |-> 0, msize_read |-> 0]
            /\ UNCHANGED received
      /\ UNCHANGED <<cuts, writer, nsent, ends, written>>

(* recv(2) gives 0 at the end of the stream, or an error once after a      *)
(* reset.  In the middle of a message the end of the stream is not an exit *)
(* of the loop.                                                            *)
RecvEnd ==
  /\ reader.pc = "reading" /\ stream = <<>> /\ writer # "open"
  /\ \/ /\ writer = "gone"
        /\ reader' = IF Again(reader.msize, reader.msize_read) THEN reader
                     ELSE [reader EXCEPT !.pc = "closed"]
     \/ writer = "reset" /\ reader' = [reader EXCEPT !.pc = "error"]
  /\ UNCHANGED <<stream, cuts, writer, nsent, ends, written, received, whole, glued>>

-----------------------------------------------------------------------------

Init ==
  /\ stream = <<>> /\ cuts = {} /\ writer = "open"
  /\ reader = [pc |-> "idle", buf |-> Buffer, msize |-> 0, msize_read |-> 0]
  /\ nsent = 0 /\ ends = {}
  /\ written = <<>> /\ received = <<>>
  /\ whole = TRUE /\ glued = FALSE

Writer ==
  \/ \E type \in Types, utype \in UserTypes, payload \in Payload \cup {NULL} :
       Write(type, utype, payload, IF payload = NULL THEN 0 ELSE Len(payload))
  \/ \E how \in {"gone", "reset"} : Leave(how)
Reader == StartRead \/ (\E n \in 1 .. MaxSize : Recv(n)) \/ RecvEnd

(* The connection is over.                                                 *)
Over == reader.pc \in {"closed", "error"} /\ UNCHANGED vars

Next == Writer \/ Reader \/ Over

Spec == Init /\ [][Next]_vars /\ WF_vars(Reader)

-----------------------------------------------------------------------------
(* Properties.                                                             *)

(* The messages s are among those of t, in the same order.                 *)
Subsequence(s, t) ==
  \E f \in [1 .. Len(s) -> 1 .. Len(t)] :
    /\ \A i \in 1 .. Len(s) : s[i] = t[f[i]]
    /\ \A i, j \in 1 .. Len(s) : i < j => f[i] < f[j]

(* While recv(2) takes whole messages, even several at once, what the      *)
(* application is given was written, is unaltered, and in order: a length  *)
(* field is never read from the wrong place.                               *)
Intact == whole => Subsequence(received, written)

(* While recv(2) takes exactly one message at a time, none is lost and the *)
(* connection of the reader fails only when the writer was reset.          *)
OneAtATime ==
  whole /\ ~glued =>
    /\ Len(received) <= Len(written)
    /\ received = SubSeq(written, 1, Len(received))
    /\ reader.pc = "error" => writer = "reset"
    /\ reader.pc = "closed" => received = written

(* A message the writer was told is sent is given to the application of    *)
(* the reader, or else a recv(2) did not take exactly one message: the     *)
(* loop of usock_recv neither waits for more than was sent nor goes on for *)
(* ever.                                                                   *)
EveryMessageRead ==
  \A k \in 1 .. MaxMsgs :
    Len(written) >= k ~> (Len(received) >= k \/ glued \/ ~whole)

(* Whatever pieces recv(2) takes, the application is only given messages   *)
(* that were written.                                                      *)
ReadWasWritten ==
  \A i \in 1 .. Len(received) : \E j \in 1 .. Len(written) : received[i] = written[j]

=============================================================================
