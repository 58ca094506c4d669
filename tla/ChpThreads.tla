----------------------------- MODULE ChpThreads -----------------------------
(***************************************************************************)
(* The threads of one CHP process: the slots of _pc[], the stack of free   *)
(* slots _holes[], the fork and join of parallel composition, and the join *)
(* counters _tot[].  The program is a graph (see ChpGraph), a constant     *)
(* here; the initial state picks one of several.                           *)
(*                                                                         *)
(* A slot that holds a node has exactly one event pending, or is blocked   *)
(* and will have one (ChpChannel, WakeOnce); both are a step that has yet  *)
(* to be taken, at any time.  Data and guards are left out: a selection    *)
(* may take any branch, a loop any branch or its exit.  The option         *)
(* sim.chp.inf_loop_opt is off.                                            *)
(***************************************************************************)
EXTENDS ChpProgram

CONSTANTS
  Stmts,     \* names of statements
  Order,     \* root -> pairs of statements, one before the other
  Must,      \* root -> statements that every execution completes once
  MaxTurns   \* bound on the number of times a loop body is entered

ASSUME TurnsAssumption == MaxTurns \in Nat
ASSUME OrderAssumption ==
  \A g \in Roots : \A d \in Order[g] :
    d \in Stmts \X Stmts /\ OneAfterOther(g, Body(g), d[1], d[2])
ASSUME MustAssumption ==
  \A g \in Roots : \A x \in Must[g] : x \in Stmts /\ OnEveryWay(g, Body(g), x)

VARIABLES
  root,     \* the program
  pc,       \* _pc[]: the node of each slot, NULL when the slot is free
  holes,    \* _holes[]: from pcused on, the free slots
  pcused,   \* _pcused: number of slots in use
  tot,      \* _tot[]: branches that have arrived at the join in progress
  failed,   \* an Assert was reached
  runs,     \* history: how often each statement has completed
  turns     \* loop bodies entered

vars == <<root, pc, holes, pcused, tot, failed, runs, turns>>

Slot == 0 .. Npc[root] - 1

TypeOK ==
  /\ root \in Roots
  /\ pc \in [Slot -> Node \cup {NULL}]
  /\ holes \in [Slot -> Slot \cup {-1}]
  /\ pcused \in 0 .. Npc[root]
  /\ tot \in [Counters -> Nat]
  /\ failed \in BOOLEAN
  /\ runs \in [Stmts -> Nat]
  /\ turns \in 0 .. MaxTurns

Init ==
  /\ root \in Roots
  /\ pc = [s \in Slot |-> IF s = 0 THEN root ELSE NULL]
  /\ holes = [i \in Slot |-> IF i = 0 THEN -1 ELSE i]
  /\ pcused = 1
  /\ tot = [i \in Counters |-> 0]
  /\ failed = FALSE
  /\ runs = [x \in Stmts |-> 0]
  /\ turns = 0

-----------------------------------------------------------------------------
(* ChpSimGraph::completed: where a thread goes after node n, and the join  *)
(* counters then.  At a join it waits, as a count, until it is the last.   *)
CompletedNoReset(n, t) ==    \* mutant: the counter is not cleared
  LET m == Graph[n].next
      i == Graph[m].totidx
  IN IF m = NULL \/ Graph[n].kind = "select" THEN [node |-> NULL, tot |-> t]
     ELSE IF Graph[m].wait = 0 THEN [node |-> m, tot |-> t]
     ELSE [node |-> IF t[i] + 1 = Graph[m].wait THEN m ELSE NULL,
           tot  |-> [t EXCEPT ![i] = @ + 1]]
CompletedEarly(n, t) ==    \* mutant: the first to arrive goes on
  [node |-> IF Graph[n].kind = "select" THEN NULL ELSE Graph[n].next, tot |-> t]

Completed(n, t) ==
  LET m == Graph[n].next
      i == Graph[m].totidx
  IN IF m = NULL \/ Graph[n].kind = "select" THEN [node |-> NULL, tot |-> t]
     ELSE IF Graph[m].wait = 0 THEN [node |-> m, tot |-> t]
     ELSE IF t[i] + 1 = Graph[m].wait THEN [node |-> m, tot |-> [t EXCEPT ![i] = 0]]
     ELSE [node |-> NULL, tot |-> [t EXCEPT ![i] = @ + 1]]

(* _nextEvent goes on through the nodes that have no statement.            *)
Place == [node : Node \cup {NULL}, tot : [Counters -> Nat]]
Settled[r \in Place] ==
  IF r.node = NULL \/ HasStmt(r.node) THEN r ELSE Settled[Completed(r.node, r.tot)]

(* A thread has moved to r; one that has ended gives its slot back         *)
(* (_updatepc).                                                            *)
MoveKeepSlot(s, r) ==    \* mutant: pcused is not decremented
  /\ pc' = [pc EXCEPT ![s] = r.node]
  /\ tot' = r.tot
  /\ failed' = (r.node = NULL /\ pcused = 0)
  /\ IF r.node = NULL /\ pcused > 0
       THEN holes' = [holes EXCEPT ![pcused - 1] = s] /\ pcused' = pcused
       ELSE UNCHANGED <<holes, pcused>>
MoveReleasedTwice(s, r) ==    \* mutant: Step gives the slot back once more
  /\ pc' = [pc EXCEPT ![s] = r.node]
  /\ tot' = r.tot
  /\ failed' = (r.node = NULL /\ pcused = 0)
  /\ IF r.node = NULL /\ pcused > 0
       THEN holes' = [holes EXCEPT ![pcused - 1] = s] /\ pcused' = pcused - 2
       ELSE UNCHANGED <<holes, pcused>>

Move(s, r) ==
  /\ pc' = [pc EXCEPT ![s] = r.node]
  /\ tot' = r.tot
  /\ failed' = (r.node = NULL /\ pcused = 0)
  /\ IF r.node = NULL /\ pcused > 0
       THEN holes' = [holes EXCEPT ![pcused - 1] = s] /\ pcused' = pcused - 1
       ELSE UNCHANGED <<holes, pcused>>

Running(s, kinds) == ~failed /\ pc[s] \in Node /\ Graph[pc[s]].kind \in kinds

(* CHPSIM_ASSIGN, SEND, RECV, FUNC, NOP once they no longer block. *)
Execute(s) ==
  /\ Running(s, {"stmt", "nop"})
  /\ Move(s, Settled[Completed(pc[s], tot)])
  /\ runs' = IF Graph[pc[s]].kind = "stmt" THEN [runs EXCEPT ![Graph[pc[s]].name] = @ + 1]
                                          ELSE runs
  /\ UNCHANGED <<root, turns>>

(* CHPSIM_FORK: the first branch stays in the slot, each of the others     *)
(* takes a slot off the stack.                                             *)
TakenInOrder(k) == pcused + k - 1    \* mutant: the next slot, free or not
Taken(k) == holes[pcused + k - 1]

Fork(s) ==
  /\ Running(s, {"fork"})
  /\ LET all == Live(pc[s])
         more == Len(all) - 1
     IN IF pcused + more > Npc[root]
          THEN failed' = TRUE /\ UNCHANGED <<pc, holes, pcused>>
          ELSE /\ pc' = [q \in Slot |->
                           IF q = s THEN all[1]
                           ELSE IF \E k \in 1 .. more : q = Taken(k)
                           THEN all[1 + CHOOSE k \in 1 .. more : q = Taken(k)]
                           ELSE pc[q]]
               /\ holes' = [i \in Slot |-> IF i \in pcused .. pcused + more - 1
                                             THEN -1 ELSE holes[i]]
               /\ pcused' = pcused + more
               /\ failed' = failed
  /\ UNCHANGED <<root, tot, runs, turns>>

(* CHPSIM_COND, CONDARB: some guard is true. *)
Choose(s) ==
  /\ Running(s, {"select"})
  /\ \E i \in DOMAIN Graph[pc[s]].all :
       Move(s, Settled[[node |-> Graph[pc[s]].all[i], tot |-> tot]])
  /\ UNCHANGED <<root, runs, turns>>

(* CHPSIM_LOOP: some guard is true, or none is. *)
Turn(s) ==
  /\ Running(s, {"loop"}) /\ turns < MaxTurns
  /\ \E i \in DOMAIN Graph[pc[s]].all :
       Move(s, Settled[[node |-> Graph[pc[s]].all[i], tot |-> tot]])
  /\ turns' = turns + 1
  /\ UNCHANGED <<root, runs>>

Exit(s) ==
  /\ Running(s, {"loop"})
  /\ Move(s, Settled[Completed(pc[s], tot)])
  /\ UNCHANGED <<root, runs, turns>>

Next == \E s \in Slot : Execute(s) \/ Fork(s) \/ Choose(s) \/ Turn(s) \/ Exit(s)

Spec == Init /\ [][Next]_vars

-----------------------------------------------------------------------------
(* The stack above pcused holds every free slot, once, and no other: a     *)
(* fork never gives a branch a slot in which a thread is running, however  *)
(* the threads that ended before it were interleaved.                      *)
Free == pcused .. Npc[root] - 1
SlotsExclusive ==
  /\ \A i \in Free : holes[i] \in Slot /\ pc[holes[i]] = NULL
  /\ \A i, j \in Free : holes[i] = holes[j] => i = j
  /\ \A s \in Slot : pc[s] = NULL => \E i \in Free : holes[i] = s

(* The number of slots computed from the program text is enough: the       *)
(* Asserts on _pcused in Step and _updatepc are never reached.             *)
NoOverflow == ~failed

(* A join counter serves one fork at a time, although forks that are not   *)
(* concurrent share it, and it has counted the branches of that fork in    *)
(* which no thread is left.                                                *)
Occupied(f) ==
  {i \in DOMAIN Graph[f].span : \E s \in Slot : pc[s] \in Graph[f].span[i]}
ForkJoin ==
  \A c \in Counters :
    LET busy == {f \in Forks : Graph[Graph[f].next].totidx = c /\ Occupied(f) # {}}
    IN /\ Cardinality(busy) <= 1
       /\ busy = {} => tot[c] = 0
       /\ \A f \in busy : tot[c] + Cardinality(Occupied(f)) = Graph[Graph[f].next].wait

(* Executions respect the program text: when it puts x before y, every     *)
(* execution of y follows one of x, whatever forks and joins lie between.  *)
Ordered == \A d \in Order[root] : runs[d[1]] \in {runs[d[2]], runs[d[2]] + 1}

(* When no thread is left the program is over: nobody waits at a join, and *)
(* every statement outside selections and loops has been executed, once.   *)
NothingStranded ==
  (\A s \in Slot : pc[s] = NULL) =>
    /\ pcused = 0
    /\ \A c \in Counters : tot[c] = 0
    /\ \A x \in Must[root] : runs[x] = 1
=============================================================================
