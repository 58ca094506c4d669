------------------------------ MODULE ChpGraph ------------------------------
(***************************************************************************)
(* From the body of a CHP process to the graph that ChpSim walks           *)
(* (ChpSimGraph::_buildChpSimGraph), and the number of program counters    *)
(* reserved for it (ChpSim::_max_program_counters).                        *)
(*                                                                         *)
(* A program is a record with field op:                                    *)
(*   "stmt" (name)   an assignment, communication or function call         *)
(*   "skip"                                                                *)
(*   "semi", "comma" (cmd)   sequential, parallel composition of a list    *)
(*   "select", "loop" (name, cmd)  one branch per guard                    *)
(*   "doloop" (name, cmd)  one body, executed at least once                *)
(* Expressions and guards are known by the name of their statement.        *)
(***************************************************************************)
EXTENDS Naturals, Sequences, SequencesExt, FiniteSetsExt

CONSTANT Term    \* closed under the parts of a program

NULL == 0    \* the null pointer; a node is its index in b.node, from 1

(* A node; kind "none" is a node without a statement; span is not in the  *)
(* code: it lists, for each branch of a fork, the nodes built for it.      *)
PlainNode(kind, name) ==
  [kind |-> kind, name |-> name, next |-> NULL, all |-> <<>>, wait |-> 0,
   totidx |-> 0, span |-> <<>>]

(* The builder: the nodes so far, cur_pending_count, max_pending_count.    *)
EmptyBuilder == [node |-> <<>>, cur |-> 0, max |-> 0]

Builder ==
  [node : Seq([kind : STRING, name : STRING, next : Nat, all : Seq(Nat), wait : Nat,
               totidx : Nat, span : Seq(SUBSET Nat)]),
   cur : Nat, max : Nat]

Add(b, nd) == [b EXCEPT !.node = Append(@, nd)]
Last1(b) == Len(b.node)
SetNext(b, n, m) == IF n = NULL THEN b ELSE [b EXCEPT !.node[n].next = m]

(* cur_pending_count after one element of a sequence or of a selection     *)
(* that started from count, the largest so far being used.                 *)
Larger(a, c) == IF a > c THEN a ELSE c

(* s1; s2; ... : the elements are chained, skips leave no trace, and each  *)
(* element starts from the same pending count.                             *)
BuildSemi(acc, r) ==
  [ret  |-> IF acc.ret = NULL THEN r.ret ELSE acc.ret,
   stop |-> IF r.ret = NULL THEN acc.stop ELSE r.stop,
   b    |-> IF r.ret = NULL \/ acc.ret = NULL
              THEN r.b ELSE SetNext(r.b, acc.stop, r.ret),
   used |-> Larger(acc.used, r.b.cur)]
SemiEnd(end) ==
  [ret |-> end.ret, stop |-> end.stop, b |-> [end.b EXCEPT !.cur = end.used]]

(* s1, s2, ... : a fork, a join that counts the branches that are not      *)
(* empty, and a counter for the join.                                      *)
CommaStart(b, fork) ==
  [all |-> <<>>, span |-> <<>>, count |-> 0,
   b |-> [Add(Add(b, PlainNode("fork", "")), PlainNode("none", ""))
            EXCEPT !.cur = b.cur + 1, !.max = Larger(b.max, b.cur + 1),
                   !.node[fork].next = fork + 1]]
BuildComma(acc, r, join) ==
  [all   |-> Append(acc.all, r.ret),
   span  |-> Append(acc.span, (Last1(acc.b) + 1) .. Last1(r.b)),
   count |-> IF r.ret = NULL THEN acc.count ELSE acc.count + 1,
   b     |-> IF r.ret = NULL THEN r.b ELSE SetNext(r.b, r.stop, join)]
CommaEnd(end, fork, totidx) ==
  IF end.count = 0
    THEN [ret |-> NULL, stop |-> NULL,    \* the two nodes are freed
          b |-> [end.b EXCEPT !.node[fork] = PlainNode("none", "")]]
    ELSE [ret |-> fork, stop |-> fork + 1,
          b |-> [end.b EXCEPT !.node[fork].all = end.all,
                              !.node[fork].span = end.span,
                              !.node[fork + 1].wait = end.count,
                              !.node[fork + 1].totidx = totidx]]

(* Selections and loops: a branch leads to the end, or back to the guards; *)
(* an empty branch is that edge.  Branches share pending counts.           *)
GuardedStart(t, b, head) ==
  [all |-> <<>>, used |-> b.cur,
   b |-> SetNext(Add(Add(b, PlainNode(t.op, t.name)), PlainNode("none", "")), head, head + 1)]
BuildGuarded(acc, r, back) ==
  [all  |-> Append(acc.all, IF r.ret = NULL THEN back ELSE r.ret),
   used |-> Larger(acc.used, r.b.cur),
   b    |-> IF r.ret = NULL THEN r.b ELSE SetNext(r.b, r.stop, back)]
GuardedEnd(end, head) ==
  [ret |-> head, stop |-> head + 1,
   b |-> [end.b EXCEPT !.node[head].all = end.all, !.cur = end.used]]

(* *[ body <- G ]: the body is built twice, once in front of the loop.     *)
BuildStmt(kind, name, b) ==
  [ret |-> Last1(b) + 1, stop |-> Last1(b) + 1, b |-> Add(b, PlainNode(kind, name))]
OrNop(r) == IF r.ret # NULL THEN r ELSE BuildStmt("nop", "", r.b)
LoopAfter(name, first, head) ==
  SetNext(SetNext(Add(Add(first.b, PlainNode("loop", name)), PlainNode("none", "")),
                  first.stop, head), head, head + 1)
BuildDoLoop(first, again, head) ==
  [ret |-> first.ret, stop |-> head + 1,
   b |-> [SetNext(again.b, again.stop, head) EXCEPT !.node[head].all = <<again.ret>>]]

Build[t \in Term, b \in Builder] ==
  CASE t.op = "skip" -> [ret |-> NULL, stop |-> NULL, b |-> b]
    [] t.op = "stmt" -> BuildStmt("stmt", t.name, b)
    [] t.op = "semi" ->
         LET Link(acc, u) == BuildSemi(acc, Build[u, [acc.b EXCEPT !.cur = b.cur]])
         IN SemiEnd(FoldLeft(Link, [ret |-> NULL, stop |-> NULL, b |-> b, used |-> b.cur],
                             t.cmd))
    [] t.op = "comma" /\ Len(t.cmd) = 1 -> Build[t.cmd[1], b]
    [] t.op = "comma" /\ Len(t.cmd) # 1 ->
         LET fork == Last1(b) + 1
             Branch(acc, u) == BuildComma(acc, Build[u, acc.b], fork + 1)
         IN CommaEnd(FoldLeft(Branch, CommaStart(b, fork), t.cmd), fork, b.cur)
    [] t.op \in {"select", "loop"} ->
         LET head == Last1(b) + 1
             back == IF t.op = "loop" THEN head ELSE head + 1
             Branch(acc, u) ==
               BuildGuarded(acc, Build[u, [acc.b EXCEPT !.cur = b.cur]], back)
         IN GuardedEnd(FoldLeft(Branch, GuardedStart(t, b, head), t.cmd), head)
    [] t.op = "doloop" ->
         LET first == OrNop(Build[t.cmd[1], b])
             head == Last1(first.b) + 1
             again == OrNop(Build[t.cmd[1], LoopAfter(t.name, first, head)])
         IN BuildDoLoop(first, again, head)

-----------------------------------------------------------------------------
(* The number of slots of _pc[]: what can run at once.                     *)
MaxProgramCounters[t \in Term] ==
  IF t.op \in {"stmt", "skip"} THEN 1
  ELSE LET counts == [i \in DOMAIN t.cmd |-> MaxProgramCounters[t.cmd[i]]] IN
       IF t.op = "comma" THEN FoldLeft(+, 0, counts)
       ELSE Max({1} \cup Range(counts))

-----------------------------------------------------------------------------
(* What the program text says, to compare executions with.  Leaves that    *)
(* are executed exactly once in every execution of t, in any order:        *)
Mandatory[t \in Term] ==
  CASE t.op = "stmt" -> {t.name}
    [] t.op \in {"semi", "comma"} -> UNION {Mandatory[t.cmd[i]] : i \in DOMAIN t.cmd}
    [] OTHER -> {}

(* The pairs <<x, y>> of those such that x must complete before y starts.  *)
Precedes[t \in Term] ==
  IF t.op \in {"stmt", "skip"} THEN {}
  ELSE UNION {Precedes[t.cmd[i]] : i \in DOMAIN t.cmd}
       \cup (IF t.op # "semi" THEN {}
             ELSE UNION {UNION {Mandatory[t.cmd[i]] \X Mandatory[t.cmd[j]] :
                                j \in (i + 1) .. Len(t.cmd)} : i \in DOMAIN t.cmd})
=============================================================================
