------------------------------ MODULE ChpData ------------------------------
(***************************************************************************)
(* A CHP process with its data: the threads of ChpThreads execute the      *)
(* assignments and evaluate the guards of ChpExpr on the variables of the  *)
(* process.  The text of the process is also the body of a function, so    *)
(* that what the process computes, one statement of one thread at a time,  *)
(* can be compared with what the interpreter of functions computes.        *)
(* Events, delays and the threads of other processes are in ChpSelect and  *)
(* ChpChannel; the variables here are not shared.                          *)
(***************************************************************************)
EXTENDS ChpThreads, ChpExpr

CONSTANTS
  Code,    \* root -> the function with the text of the program
  Input    \* root -> the arguments it may be run on, as cells of numbers

VARIABLES
  val,     \* the variables of the process in ActSimState
  input,   \* the arguments, which the variables of that name start with
  halted   \* a fatal error has ended the simulation

data == <<val, input, halted>>
dvars == <<vars, data>>

Text == Fun[Code[root]]
env == [val |-> val, decl |-> Text.decl, fn |-> FALSE, rec |-> TRUE, stop |-> FALSE]

(* Before it is written a boolean is X, an integer a BigInt that has not   *)
(* been given its width.                                                   *)
Unwritten(type) == [w |-> 1, v |-> IF type.kind = "bool" THEN 2 ELSE 0]
initial(decl) ==
  [x \in DOMAIN decl |-> [i \in DOMAIN decl[x].cell |-> Unwritten(decl[x].cell[i])]]
cells(type, numbers) == [i \in DOMAIN type.cell |-> [w |-> type.cell[i].w, v |-> numbers[i]]]
args == [i \in DOMAIN input |-> cells(Text.decl[Text.port[i]], input[i])]
loaded ==
  [x \in DOMAIN Text.decl |->
     IF \E i \in DOMAIN input : Text.port[i] = x
     THEN args[CHOOSE i \in DOMAIN input : Text.port[i] = x]
     ELSE initial(Text.decl)[x]]

DataInit ==
  /\ Init
  /\ input \in Input[root]
  /\ val = loaded
  /\ halted = FALSE

-----------------------------------------------------------------------------
At(s, kinds) == ~halted /\ Running(s, kinds)
Name(s) == Graph[pc[s]].name

(* CHPSIM_ASSIGN: the thread moves on, then the expression is evaluated.   *)
Perform(s) ==
  /\ At(s, {"stmt", "nop"})
  /\ Execute(s)
  /\ \E after \in {IF Graph[pc[s]].kind = "nop" THEN env ELSE assign(Assign[Name(s)], env)} :
       val' = after.val /\ halted' = after.stop
  /\ UNCHANGED input

Spawn(s) ==
  /\ At(s, {"fork"})
  /\ Fork(s)
  /\ UNCHANGED data

(* CHPSIM_COND, LOOP: every guard is evaluated, the first that is true     *)
(* counts; without one a selection waits and a loop ends.                  *)
Enter(s, vals) ==
  /\ ~Stops(vals) /\ choice(vals) # 0
  /\ Move(s, Settled[[node |-> Graph[pc[s]].all[choice(vals)], tot |-> tot]])
  /\ UNCHANGED <<root, runs, turns, data>>
Leave(s, vals) ==
  /\ ~Stops(vals) /\ choice(vals) = 0
  /\ Exit(s)
  /\ UNCHANGED data
Fatal(vals) ==
  /\ Stops(vals)
  /\ halted' = TRUE
  /\ UNCHANGED <<vars, val, input>>
Decide(s) ==
  /\ At(s, {"select", "loop"})
  /\ \E vals \in {guards(Name(s), env)} : Enter(s, vals) \/ Leave(s, vals) \/ Fatal(vals)

DataNext == \E s \in Slot : Perform(s) \/ Spawn(s) \/ Decide(s)
DataSpec == DataInit /\ [][DataNext]_dvars

-----------------------------------------------------------------------------
(* Whatever has been written holds a value of the width it was declared    *)
(* with, however wide the values were from which it was computed, and a    *)
(* boolean is FALSE or TRUE.                                               *)
WidthsKept ==
  \A x \in DOMAIN val : \A i \in DOMAIN val[x] :
    LET type == Text.decl[x].cell[i] IN
    val[x][i] = Unwritten(type) \/ (val[x][i].w = type.w /\ val[x][i].v \in 0 .. 2^type.w - 1)

read(c) == [i \in DOMAIN c |-> setWidth(c[i], Text.decl["self"].cell[i].w)]

(* A text means the same as a process and as a function: when all threads  *)
(* of the process have ended, in whatever order they ran, "self" holds what *)
(* the function returns for the same arguments, and the one is ended by a  *)
(* fatal error exactly when the other is.                                  *)
SameAsProcess ==
  (halted \/ \A s \in Slot : pc[s] = NULL) =>
    \E r \in {funcEval(Text, args, Code[root] \in Recorded)} :
      IF halted THEN r = <<Stop>> ELSE read(val["self"]) = r
=============================================================================
