----------------------------- MODULE ChpProgram -----------------------------
(***************************************************************************)
(* The program that ChpThreads executes: a graph of nodes, as              *)
(* _buildChpSimGraph leaves it (ChpGraph), and the shape such graphs have. *)
(* The threads rely on this shape: forks nest, a branch is left only       *)
(* through its join, forks that share a counter are never in progress      *)
(* together, and there are enough slots for what can run at once.          *)
(***************************************************************************)
EXTENDS Integers, Sequences, FiniteSets, FiniteSetsExt

CONSTANTS
  Node,      \* the nodes of the graph
  Graph,     \* node -> [kind, name, next, all, wait, totidx, span]
  Roots,     \* the first node of each program
  Npc,       \* root -> number of slots reserved for the program
  Counters   \* the indices of _tot[]

NULL == 0
HasStmt(n) == Graph[n].kind # "none"
Forks == {n \in Node : Graph[n].kind = "fork"}
Live(n) == SelectSeq(Graph[n].all, LAMBDA m : m # NULL)

(* A fork, its join with the counter of the join, its branches.            *)
Join(f) == Graph[f].next
Counter(f) == Graph[Join(f)].totidx
Branches(f) == DOMAIN Graph[f].span
Branch(f, i) == Graph[f].span[i]
Inside(f) == UNION {Branch(f, i) : i \in Branches(f)}

(* The nodes of the program that starts at g.                              *)
Successors(n) ==
  ({Graph[n].next} \cup {Graph[n].all[i] : i \in DOMAIN Graph[n].all}) \ {NULL}
Reached[g \in Roots, k \in Nat] ==
  IF k = 0 THEN {g}
  ELSE LET p == Reached[g, k - 1] IN p \cup UNION {Successors(n) : n \in p}
Body(g) == Reached[g, Cardinality(Node)]

-----------------------------------------------------------------------------
(* The shape of a program whose nodes are B.                               *)
ForksOf(B) == Forks \cap B

Closed(B) ==
  \A n \in B :
    /\ n \in Node
    /\ Graph[n].next \in B \cup {NULL}
    /\ Graph[n].kind = "fork" => \A k \in DOMAIN Live(n) : Live(n)[k] \in B
    /\ Graph[n].kind \in {"select", "loop"} =>
         \A i \in DOMAIN Graph[n].all : Graph[n].all[i] \in B

(* m lies in the same branches of the same forks as n, f apart.            *)
SameBut(B, n, m, f) ==
  \A h \in ForksOf(B) \ {f} : \A i \in Branches(h) : n \in Branch(h, i) <=> m \in Branch(h, i)
Same(B, n, m) ==
  \A h \in ForksOf(B) : \A i \in Branches(h) : n \in Branch(h, i) <=> m \in Branch(h, i)

(* n and m lie in different branches of a fork: they can run at once.      *)
Concurrent(B, n, m) ==
  \E f \in ForksOf(B) : \E i, j \in Branches(f) :
    i # j /\ n \in Branch(f, i) /\ m \in Branch(f, j)

(* A fork starts one thread in each branch that is not empty, its join     *)
(* waits for that many, and neither of the two is in a branch.             *)
ForkShape(B, f) ==
  /\ Join(f) # NULL
  /\ Graph[Join(f)].wait = Len(Live(f))
  /\ Counter(f) \in Counters
  /\ IsFiniteSet(Branches(f)) /\ Inside(f) \subseteq Node
  /\ f \notin Inside(f) /\ Join(f) \notin Inside(f)
  /\ Same(B, f, Join(f))
  /\ \A i, j \in Branches(f) : i # j => Branch(f, i) \cap Branch(f, j) = {}
  /\ \A k \in DOMAIN Live(f) :
       /\ SameBut(B, f, Live(f)[k], f)
       /\ \E i \in Branches(f) : \A l \in DOMAIN Live(f) : Live(f)[l] \in Branch(f, i) <=> l = k

ForksNest(B) ==
  \A f, h \in ForksOf(B) : f # h =>
    /\ \A i \in Branches(f) : h \in Branch(f, i) => Inside(h) \subseteq Branch(f, i)
    /\ Inside(f) \cap Inside(h) # {} => h \in Inside(f) \/ f \in Inside(h)

(* Where a thread that has completed n goes: on in the same branches, to   *)
(* the join of the innermost one, or nowhere, and then it is in none.      *)
Flow(B, n) ==
  LET m == Graph[n].next IN
  /\ Graph[n].kind \in {"select", "loop"} =>
       \A i \in DOMAIN Graph[n].all : Same(B, n, Graph[n].all[i])
  /\ Graph[n].kind \notin {"fork", "select"} =>
       \/ m = NULL /\ \A f \in ForksOf(B) : n \notin Inside(f)
       \/ m # NULL /\ Graph[m].wait = 0 /\ Same(B, n, m)
       \/ \E f \in ForksOf(B) : m = Join(f) /\ n \in Inside(f) /\ SameBut(B, n, m, f)

CountersShared(B) ==
  \A f, h \in ForksOf(B) :
    f # h /\ Counter(f) = Counter(h) => h \notin Inside(f) /\ ~Concurrent(B, f, h)

(* Nodes that can run at once can be given different slots.                *)
Width[f \in Forks] ==
  MapThenSumSet(LAMBDA i : Max({1} \cup {Width[h] : h \in Forks \cap Branch(f, i)}), Branches(f))
Lanes(f, i) == Max({1} \cup {Width[h] : h \in Forks \cap Branch(f, i)})
Lane(n) ==
  MapThenSumSet(LAMBDA f : MapThenSumSet(LAMBDA j : Lanes(f, j),
                  {j \in Branches(f) : \E i \in Branches(f) : j < i /\ n \in Branch(f, i)}),
                Forks)
SlotsSuffice(B, slots) ==
  /\ \A n \in B : Lane(n) \in 0 .. slots - 1
  /\ \A n, m \in B : Concurrent(B, n, m) => Lane(n) # Lane(m)

WellBuilt(g, B) ==
  /\ g \in B /\ HasStmt(g) /\ \A f \in Forks : g \notin Inside(f)
  /\ Npc[g] \in Nat \ {0}
  /\ Closed(B)
  /\ \A f \in ForksOf(B) : ForkShape(B, f)
  /\ \A f \in Forks \ B : Inside(f) \cap (B \cup {NULL}) = {}
  /\ ForksNest(B)
  /\ \A n \in B : Flow(B, n)
  /\ CountersShared(B)
  /\ SlotsSuffice(B, Npc[g])

(* One line of control of a program: X are the statements it starts after, *)
(* Y the ones it ends with, R the nodes on it.  A thread that has completed *)
(* a node n goes on along the line, or ends at a join on its behalf.       *)
Named(B, x) == {n \in B : Graph[n].kind = "stmt" /\ Graph[n].name = x}
GoesOn(X, Y, R) == (R \ Y) \cup X
ToJoin(B, f, i) ==
  {n \in B \cap Branch(f, i) : Graph[n].kind \notin {"fork", "select"} /\ Graph[n].next = Join(f)}
Carries(B, X, Y, R, f, i) ==
  /\ \E k \in DOMAIN Live(f) : Live(f)[k] \in Branch(f, i)
  /\ ToJoin(B, f, i) \cap GoesOn(X, Y, R) # {}

(* Never two at once; whichever way the program takes, a thread stays on   *)
(* the line until Y, and comes to it only by X; at a fork one branch has   *)
(* the line, and so has its join if that branch still has it at the end.   *)
FollowsLine(B, X, Y, R, n) ==
  LET m == Graph[n].next IN
  /\ Graph[n].kind \in {"select", "loop"} =>
       \A i \in DOMAIN Graph[n].all : Graph[n].all[i] \in R <=> n \in R
  /\ Graph[n].kind = "fork" =>
       (n \in R <=> \E k \in DOMAIN Live(n) : Live(n)[k] \in R)
  /\ Graph[n].kind \notin {"fork", "select"} =>
       /\ m = NULL => n \notin GoesOn(X, Y, R)
       /\ m # NULL /\ Graph[m].wait = 0 => (m \in R <=> n \in GoesOn(X, Y, R))
InLine(B, X, Y, R) ==
  /\ R \subseteq B /\ X \subseteq B /\ Y \subseteq R /\ X \cap R = {}
  /\ \A n, m \in R \cup X : ~Concurrent(B, n, m)
  /\ \A n \in B : FollowsLine(B, X, Y, R, n)
  /\ \A f \in ForksOf(B) :
       /\ \A i \in Branches(f) : \A n \in ToJoin(B, f, i) :
            n \in GoesOn(X, Y, R) <=> Carries(B, X, Y, R, f, i)
       /\ Join(f) \in R <=> \E i \in Branches(f) : Carries(B, X, Y, R, f, i)

(* The nodes from X, or from the first node, up to Y.  A fork on the way   *)
(* carries the line through the branch that leads to Y, if there is one.   *)
Through(Y, f) ==
  LET to == {k \in DOMAIN Live(f) : \E i \in Branches(f) : Live(f)[k] \in Branch(f, i)
                                                       /\ Branch(f, i) \cap Y # {}}
  IN  Live(f)[IF to = {} THEN 1 ELSE Min(to)]
Onward(Y, n) ==
  IF Graph[n].kind = "fork" THEN {Through(Y, n)}
  ELSE ({Graph[n].all[i] : i \in DOMAIN Graph[n].all}
         \cup (IF Graph[n].kind = "select" THEN {} ELSE {Graph[n].next})) \ {NULL}
Line(first, X, Y) ==
  LET upto[k \in Nat] ==
        IF k = 0 THEN first
        ELSE LET p == upto[k - 1] IN p \cup UNION {Onward(Y, n) : n \in GoesOn(X, Y, p)}
  IN  upto[Cardinality(Node)]

(* Between two statements in order, and up to one that must be executed.   *)
OrderLine(B, x, y) == Line({}, Named(B, x), Named(B, y))
MustLine(B, g, x) == Line({g}, {}, Named(B, x))
OneAfterOther(g, B, x, y) ==
  InLine(B, Named(B, x), Named(B, y), OrderLine(B, x, y)) /\ g \notin OrderLine(B, x, y)
OnEveryWay(g, B, x) ==
  InLine(B, {}, Named(B, x), MustLine(B, g, x)) /\ g \in MustLine(B, g, x)

(* A branch starts at a statement; a node without a statement leads back   *)
(* in the graph, or to a statement.                                        *)
StartsAtStatements(f) ==
  /\ Live(f) \in Seq(Node) /\ Len(Live(f)) > 0
  /\ \A i \in DOMAIN Live(f) : HasStmt(Live(f)[i])
LeadsBack(n) ==
  /\ Graph[n].next \in Node \cup {NULL}
  /\ ~HasStmt(n) /\ Graph[n].next # NULL => HasStmt(Graph[n].next) \/ Graph[n].next < n

ASSUME NodeAssumption == Node \subseteq Nat \ {0}
ASSUME RootsAssumption == Roots \subseteq Node /\ \A g \in Roots : WellBuilt(g, Body(g))
ASSUME ForkAssumption == \A f \in Forks : StartsAtStatements(f)
ASSUME NextAssumption == \A n \in Node : LeadsBack(n)
=============================================================================
