---------------------------- MODULE MCChpThreads ----------------------------
(* Programs for ChpThreads, turned into graphs by ChpGraph. *)
EXTENDS ChpThreads, SequencesExt

st(name) == [op |-> "stmt", name |-> name]
skip == [op |-> "skip"]
semi(cmd) == [op |-> "semi", cmd |-> cmd]
par(cmd) == [op |-> "comma", cmd |-> cmd]
select(cmd) == [op |-> "select", name |-> "", cmd |-> cmd]
loop(cmd) == [op |-> "loop", name |-> "", cmd |-> cmd]
doloop(body) == [op |-> "doloop", name |-> "", cmd |-> <<body>>]

a == st("a")
b == st("b")
c == st("c")
d == st("d")
e == st("e")
f == st("f")

(* Nested forks, the inner one first, a fork that follows a fork, an empty *)
(* branch, forks in the branches of selections and loops, and slots that   *)
(* are given back in an order other than the one they were taken in.       *)
Programs == <<
  semi(<<par(<<par(<<a, b>>), semi(<<c, par(<<d, e>>)>>)>>), f>>),
  loop(<<semi(<<par(<<a, semi(<<b, c>>), skip>>), par(<<d, e, f>>)>>)>>),
  semi(<<par(<<loop(<<par(<<a, b>>)>>), select(<<par(<<c, d>>), skip>>)>>), e>>),
  semi(<<select(<<par(<<a, b, c>>), par(<<d, skip>>)>>), par(<<e, f>>)>>),
  par(<<doloop(semi(<<a, par(<<b, c>>)>>)), semi(<<par(<<d, e>>), f>>)>>),
  doloop(par(<<skip, semi(<<skip, skip>>)>>))
>>

(* The programs and their parts; none is nested deeper than this.          *)
MaxNesting == 6
Parts[k \in 0 .. MaxNesting] ==
  IF k = 0 THEN Range(Programs)
  ELSE UNION {IF t.op \in {"stmt", "skip"} THEN {t} ELSE {t} \cup Range(t.cmd) :
              t \in Parts[k - 1]}

G == INSTANCE ChpGraph WITH Term <- Parts[MaxNesting]

(* All programs in one graph; counters are numbered from 0 in each.        *)
Built ==
  LET One(acc, t) ==
        LET r == G!Build[t, [acc.b EXCEPT !.cur = 0]] IN
        [b |-> r.b, first |-> Append(acc.first, r.ret)]
  IN FoldLeft(One, [b |-> G!EmptyBuilder, first |-> <<>>], Programs)

MCGraph == Built.b.node
MCNode == DOMAIN MCGraph
MCRoots == ToSet(Built.first)
ProgramOf(g) == Programs[CHOOSE i \in DOMAIN Programs : Built.first[i] = g]
MCNpc == [g \in MCRoots |-> G!MaxProgramCounters[ProgramOf(g)]]
MCCounters == 0 .. Built.b.max - 1
MCStmts == {MCGraph[n].name : n \in {m \in MCNode : MCGraph[m].kind = "stmt"}}
MCOrder == [g \in MCRoots |-> G!Precedes[ProgramOf(g)]]
MCMust == [g \in MCRoots |-> G!Mandatory[ProgramOf(g)]]

-----------------------------------------------------------------------------
(* Every program of two levels over four statements and skip, built on its *)
(* own graph.                                                              *)
Over(S, T) ==
  S \cup {[op |-> o, name |-> "", cmd |-> <<t, u>>] :
           o \in {"semi", "comma", "select", "loop"}, t \in S, u \in T}
    \cup {doloop(t) : t \in S}
First2 == Over({a, skip}, {b, skip})
Last2 == Over({c, skip}, {d, skip})
SmallTerms == Over(First2, Last2) \cup Last2 \cup {b, d}

Small == INSTANCE ChpGraph WITH Term <- SmallTerms
Alone(r, npc) ==
  INSTANCE ChpProgram WITH
    Graph <- r.b.node, Node <- DOMAIN r.b.node, Roots <- {r.ret},
    Npc <- [g \in {r.ret} |-> npc], Counters <- 0 .. r.b.max - 1

(* The graphs that ChpGraph builds have the shape that the threads rely    *)
(* on, with the slots that _max_program_counters reserves.                 *)
ASSUME BuilderShape ==
  \A t \in SmallTerms :
    LET r == Small!Build[t, Small!EmptyBuilder]
        npc == Small!MaxProgramCounters[t]
    IN r.ret # NULL =>
         /\ Alone(r, npc)!WellBuilt(r.ret, Alone(r, npc)!Body(r.ret))
         /\ \A n \in DOMAIN r.b.node : Alone(r, npc)!LeadsBack(n)
         /\ \A n \in Alone(r, npc)!Forks : Alone(r, npc)!StartsAtStatements(n)
         /\ \A x \in Small!Mandatory[t] :
              Alone(r, npc)!OnEveryWay(r.ret, Alone(r, npc)!Body(r.ret), x)
         /\ \A x \in Small!Precedes[t] :
              Alone(r, npc)!OneAfterOther(r.ret, Alone(r, npc)!Body(r.ret), x[1], x[2])
=============================================================================
