---------------------------- MODULE MCChpSelect ----------------------------
(* Three threads: one waits for two channels and a variable, one for a     *)
(* channel and the variable, one for the variable alone.                   *)
EXTENDS ChpSelect

CONSTANTS t1, t2, t3, c1, c2, c3, v1

MCThread == {t1, t2, t3}
MCChan == {c1, c2, c3}
MCProbes == (t1 :> {c1, c2}) @@ (t2 :> {c3}) @@ (t3 :> {})
MCReads == [t \in MCThread |-> {v1}]
=============================================================================
