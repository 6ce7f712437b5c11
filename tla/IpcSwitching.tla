---------------------------- MODULE IpcSwitching ----------------------------
(***************************************************************************)
(* The relation between switched descriptors (struct ipc_switchings, the   *)
(* field switchdb of struct ipc_ctx) and the operations of network.c on    *)
(* it.  A record binds an origin to a destination and holds, for each end, *)
(* the callbacks that read and write its messages; Null is the NULL        *)
(* pointer, which stands for default_cb_in and default_cb_out.             *)
(***************************************************************************)
EXTENDS Integers, Sequences

Null == "null"

Switching(Fd, Callback) ==
  [orig : Fd, dest : Fd,
   orig_in : Callback, orig_out : Callback,
   dest_in : Callback, dest_out : Callback]

Ends(r) == {r.orig, r.dest}

(* A mistake to rule out: messages always go to the destination.           *)
OtherEndDest(r, fd) == r.dest

(* The end of r that is not fd; an fd that is both ends counts as orig.    *)
OtherEnd(r, fd) == IF fd = r.orig THEN r.dest ELSE r.orig

(* ipc_switching_get_: whether fd has a record, and the first one it has.  *)
HasRecord(db, fd) == \E k \in 1 .. Len(db) : fd \in Ends(db[k])
RecordIndex(db, fd) ==
  CHOOSE k \in 1 .. Len(db) :
    fd \in Ends(db[k]) /\ \A j \in 1 .. k - 1 : fd \notin Ends(db[j])
ipc_switching_get_(db, fd) == db[RecordIndex(db, fd)]

ipc_switching_add(db, orig, dest) ==
  Append(db, [orig |-> orig, dest |-> dest,
              orig_in |-> Null, orig_out |-> Null,
              dest_in |-> Null, dest_out |-> Null])

(* A mistake to rule out: the size is not decremented.                     *)
ipc_switching_delKeepsSize(db, fd) ==
  IF HasRecord(db, fd)
  THEN [db EXCEPT ![RecordIndex(db, fd)].orig = db[Len(db)].orig,
                  ![RecordIndex(db, fd)].dest = db[Len(db)].dest]
  ELSE db

(* ipc_switching_del.  The last record takes the place of the removed one, *)
(* but only its two descriptors are copied: the four callbacks of the      *)
(* removed record stay.                                                    *)
ipc_switching_del(db, fd) ==
  IF HasRecord(db, fd)
  THEN LET i == RecordIndex(db, fd)
           last == db[Len(db)]
       IN  [k \in 1 .. Len(db) - 1 |->
              IF k = i THEN [db[i] EXCEPT !.orig = last.orig, !.dest = last.dest]
                       ELSE db[k]]
  ELSE db

(* ipc_switching_callbacks: both callbacks of one end.                     *)
ipc_switching_callbacks(db, fd, cb_in, cb_out) ==
  IF HasRecord(db, fd)
  THEN LET i == RecordIndex(db, fd)
       IN  IF db[i].orig = fd
           THEN [db EXCEPT ![i].orig_in = cb_in, ![i].orig_out = cb_out]
           ELSE [db EXCEPT ![i].dest_in = cb_in, ![i].dest_out = cb_out]
  ELSE db

(* The callbacks in force for fd.                                          *)
InCallback(r, fd)  == IF r.orig = fd THEN r.orig_in  ELSE r.dest_in
OutCallback(r, fd) == IF r.orig = fd THEN r.orig_out ELSE r.dest_out

=============================================================================
