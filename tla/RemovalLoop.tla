----------------------------- MODULE RemovalLoop -----------------------------
(***************************************************************************)
(* The loop of ipc_remove_messages_for_fd (communication.c), one iteration *)
(* per step.  The loop runs over an array that ipc_messages_del compacts   *)
(* under it by moving the last element into the hole; the index is taken   *)
(* back (i--, which wraps a size_t when i is 0) so that the moved element  *)
(* is examined as well.                                                    *)
(*                                                                         *)
(* Indices are those of the C code, from 0.                                *)
(***************************************************************************)
EXTENDS IpcMessages

CONSTANTS Fd,         \* descriptors
          MaxMessages \* bound on the length of the initial list

ASSUME MaxMessagesAssumption == MaxMessages \in Nat

VARIABLES input,         \* the list and the descriptor the call is given
          messages,      \* ctx->tx
          i,             \* the loop index
          looping_count, \* the loop bound
          round,         \* iterations so far
          pc

vars == <<input, messages, i, looping_count, round, pc>>

(* Messages carry their position in the first list, so that they differ.   *)
Message == [fd : Fd, id : 1 .. MaxMessages]
Lists == UNION {{s \in [1 .. n -> Message] : \A k \in 1 .. n : s[k].id = k} :
                  n \in 0 .. MaxMessages}

Init ==
  /\ input \in [list : Lists, fd : Fd]
  /\ messages = input.list
  /\ i = 0
  /\ looping_count = Len(input.list)
  /\ round = 0
  /\ pc = "loop"

(* A mistake to rule out: the index is not taken back after a removal.     *)
RemoveRoundSkips ==
  /\ pc = "loop" /\ i < looping_count
  /\ messages[i + 1].fd = input.fd
  /\ messages' = ipc_messages_del(messages, i + 1)
  /\ looping_count' = looping_count - 1
  /\ i' = i + 1
  /\ round' = round + 1
  /\ UNCHANGED <<input, pc>>

(* A mistake to rule out: the loop bound is not lowered with the size.     *)
RemoveRoundKeepsBound ==
  /\ pc = "loop" /\ i < looping_count
  /\ i < Len(messages) => messages[i + 1].fd = input.fd
  /\ messages' = ipc_messages_del(messages, i + 1)
  /\ round' = round + 1
  /\ UNCHANGED <<input, i, looping_count, pc>>

(* The body of the loop for a message to remove: delete it and restart the *)
(* round.  i-- followed by i++ is the identity modulo the width of size_t. *)
RemoveRound ==
  /\ pc = "loop" /\ i < looping_count
  /\ messages[i + 1].fd = input.fd
  /\ messages' = ipc_messages_del(messages, i + 1)
  /\ looping_count' = looping_count - 1
  /\ round' = round + 1
  /\ UNCHANGED <<input, i, pc>>

(* The body of the loop for any other message.                             *)
KeepRound ==
  /\ pc = "loop" /\ i < looping_count
  /\ messages[i + 1].fd # input.fd
  /\ i' = i + 1
  /\ round' = round + 1
  /\ UNCHANGED <<input, messages, looping_count, pc>>

Leave ==
  /\ pc = "loop" /\ i >= looping_count
  /\ pc' = "done"
  /\ UNCHANGED <<input, messages, i, looping_count, round>>

Done == pc = "done" /\ UNCHANGED vars

Next == RemoveRound \/ KeepRound \/ Leave \/ Done

Spec == Init /\ [][Next]_vars /\ WF_vars(Next)

-----------------------------------------------------------------------------

(* The loop never examines a message beyond the end of the compacted       *)
(* array: looping_count follows tx.size although it is a local copy of it. *)
InBounds == looping_count = Len(messages) /\ i <= looping_count

(* On return no message for the descriptor is left, and every message for  *)
(* another descriptor is still there, once: neither the moved last element *)
(* nor the one that follows a removed one escapes the loop.                *)
RemovesExactly ==
  pc = "done" =>
    /\ \A k \in 1 .. Len(messages) : messages[k].fd # input.fd
    /\ \A k \in 1 .. Len(messages) :
         \E j \in 1 .. Len(input.list) : messages[k] = input.list[j]
    /\ \A k \in Kept(input.list, {input.fd}) :
         \E j \in 1 .. Len(messages) : messages[j] = input.list[k]
    /\ \A j, k \in 1 .. Len(messages) : messages[j] = messages[k] => j = k

(* The list the loop leaves is, order included, the one the closed form    *)
(* used by the model of the context gives.                                 *)
MatchesClosedForm ==
  pc = "done" => messages = ipc_remove_messages_for_fd(input.list, input.fd)

(* The loop ends, after one round per message of the initial list: taking  *)
(* the index back never makes it run forever.                              *)
Terminates == <>(pc = "done" /\ round = Len(input.list))

=============================================================================
