----------------------------- MODULE MCPrsGates -----------------------------
(* Two circuits for PrsGates. *)
EXTENDS PrsGates

on(n) == [node |-> n, is |-> 1]
off(n) == [node |-> n, is |-> 0]
strong(up, dn) == [up |-> up, upw |-> {}, dn |-> dn, dnw |-> {}]
stim(n, to, when) == [node |-> n, to |-> to, when |-> when, reset |-> FALSE]
init(n, to, when) == [stim(n, to, when) EXCEPT !.reset = TRUE]

(* One without hazards, in two parts.  The source of test/54.act chooses   *)
(* between t and f and is acknowledged by a.  An arbiter, cross-coupled    *)
(* NANDs with mk_excllo, is followed by a C-element whose pull-up and      *)
(* pull-down are in different processes and which has a weak keeper, and   *)
(* by an OR.  The environment raises the requests when both are down, and  *)
(* lowers one when it is granted and both are up.                          *)
FreeOut == [Gt |-> "t", Gf |-> "f", Gu1 |-> "u1", Gu2 |-> "u2", Gc |-> "c", Gk |-> "k", Ge |-> "e"]
FreeGate == DOMAIN FreeOut
FreeNode == {"R", "a", "t", "f", "r1", "r2", "u1", "u2", "c", "k", "e"}
FreeDrivers ==
  LET choice == <<strong({{off("R"), off("a")}}, {{on("R")}, {on("a")}})>>
      nand(r, u) == <<strong({{off(r)}, {off(u)}}, {{on(r), on(u)}})>>
  IN [Gt |-> choice, Gf |-> choice,
      Gu1 |-> nand("r1", "u2"), Gu2 |-> nand("r2", "u1"),
      Gc |-> <<[up |-> {{on("r1"), on("r2")}}, upw |-> {{off("k")}}, dn |-> {}, dnw |-> {{on("k")}}],
               strong({}, {{off("r1"), off("r2")}})>>,
      Gk |-> <<strong({{off("c")}}, {{on("c")}})>>,
      Ge |-> <<strong({{on("r1")}, {on("r2")}}, {{off("r1"), off("r2")}})>>]
FreeHi == <<{"t", "f"}>>
FreeLo == <<{"u1", "u2"}>>
FreeStimuli ==
  {init("R", 1, <<>>), stim("R", 0, [R |-> 1])}
  \cup {init(n, 0, [R |-> 1]) : n \in {"a", "r1", "r2"}}
  \cup {stim("a", 1, [t |-> 1]), stim("a", 1, [f |-> 1]), stim("a", 0, [t |-> 0, f |-> 0])}
  \cup {stim("r1", 1, [u1 |-> 1, k |-> 1, e |-> 0]), stim("r1", 1, [u1 |-> 1, k |-> 1, r2 |-> 1]),
        stim("r2", 1, [u2 |-> 1, k |-> 1, e |-> 0]), stim("r2", 1, [u2 |-> 1, k |-> 1, r1 |-> 1]),
        stim("r1", 0, [u1 |-> 0, k |-> 0, e |-> 1]), stim("r2", 0, [u2 |-> 0, k |-> 0, e |-> 1])}

(* One whose weak pull-up may be overruled by its pull-down. *)
WeakOut == [Gx |-> "x"]
WeakGate == DOMAIN WeakOut
WeakNode == {"a", "b", "x"}
WeakDrivers == [Gx |-> <<[up |-> {}, upw |-> {{off("a")}}, dn |-> {{on("b")}}, dnw |-> {}]>>]
WeakStimuli ==
  {init(n, 0, <<>>) : n \in {"a", "b"}}
  \cup {stim(n, v, <<>>) : n \in {"a", "b"}, v \in {0, 1}}
None == <<>>

(* One that is full of hazards: nothing stops the inputs from withdrawing  *)
(* or contradicting what they have asked for.                              *)
WildOut == [Gx |-> "x", Gy |-> "y", Gz |-> "z"]
WildGate == DOMAIN WildOut
WildNode == {"a", "b", "x", "y", "z"}
WildDrivers == [Gx |-> <<strong({{on("a")}}, {{on("b")}})>>,
                Gy |-> <<strong({{on("x")}}, {{off("x")}})>>,
                Gz |-> <<strong({{on("a")}}, {{off("a")}})>>]
WildHi == <<{"y", "z"}>>
WildStimuli ==
  {init(n, 0, <<>>) : n \in {"a", "b"}} \cup
  {stim(n, v, <<>>) : n \in {"a", "b"}, v \in Value}
=============================================================================
