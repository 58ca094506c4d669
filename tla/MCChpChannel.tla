---------------------------- MODULE MCChpChannel ----------------------------
(* Instances of ChpChannel for TLC. *)
EXTENDS ChpChannel

CONSTANTS p, q    \* ChpSim objects

(* The usual case: two processes, each running in slot 0 of its own _pc[]. *)
TwoProcs == [e \in End |-> IF e = "snd" THEN p ELSE q]
SlotZero == [e \in End |-> 0]

(* A channel local to one process: two of its threads use it. *)
OneProc == [e \in End |-> p]
TwoSlots == [e \in End |-> IF e = "snd" THEN 0 ELSE 1]
=============================================================================
