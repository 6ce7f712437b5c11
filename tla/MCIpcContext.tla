---------------------------- MODULE MCIpcContext ----------------------------
(***************************************************************************)
(* Instances of IpcContext for TLC.  Descriptor numbers and callbacks are  *)
(* model values that the specification treats alike, so that the runs that *)
(* check no liveness may use their symmetry.                               *)
(***************************************************************************)
EXTENDS IpcOutbox, TLC

Symmetry == Permutations(Fd) \cup Permutations(Callback)

=============================================================================
