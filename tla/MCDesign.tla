------------------------------ MODULE MCDesign ------------------------------
(* Four small designs.  chip: two levels of instances, an array element    *)
(* that is an alias of another, variables of each kind, and a global; its  *)
(* checks are on local nodes and on ports.  bus: a node with three drivers *)
(* in three processes, all of which read a node that others read as well.  *)
(* link: a channel with a wire driven two levels down.  bad: a level that  *)
(* no body of the process has.                                             *)
EXTENDS Design

Counts(b, i, c) == [bool |-> b, int |-> i, chan |-> c]
In == [kind |-> "bool", input |-> TRUE]
Out == [kind |-> "bool", input |-> FALSE]
Of(k) == [kind |-> k, input |-> TRUE]
Inst(n, p, conn) == [name |-> n, of |-> p, primary |-> TRUE, conn |-> conn]
Alias(n, p) == [name |-> n, of |-> p, primary |-> FALSE, conn |-> <<>>]
Gate(out, in) == [out |-> out, in |-> in]

Plain == [port |-> <<>>, local |-> Counts(0, 0, 0), inst |-> <<>>, lang |-> {}, gate |-> <<>>,
          piece |-> <<>>, spec |-> <<>>, types |-> <<>>]

inv == [Plain EXCEPT !.port = <<In, Out>>, !.lang = {"prs"},
                     !.gate = <<Gate(Port(0), <<Port(1)>>)>>]
(* a latch, which also reads its output *)
latch == [Plain EXCEPT !.port = <<In, Out>>, !.lang = {"prs"}, !.local = Counts(1, 0, 0),
                       !.gate = <<Gate(Port(0), <<Port(1), 0>>), Gate(0, <<Port(0), Port(1)>>)>>]
stage == [Plain EXCEPT
  !.port = <<In, Out>>, !.local = Counts(1, 0, 0),
  !.inst = <<Inst("p", "inv", <<Port(1), 0>>), Alias("p1", "inv"), Inst("q", "latch", <<0, Port(0)>>)>>,
  !.spec = <<[kind |-> "timing", root |-> Port(1), a |-> <<0>>, b |-> <<Port(0), Absent>>,
              dir |-> <<"up", "dn", "both">>, margin |-> 0],
             [kind |-> "mk_exclhi", ids |-> <<>>]>>,
  !.types = <<[kind |-> "exclhi", ids |-> <<0, Absent, Port(0)>>]>>]
source == [Plain EXCEPT
  !.port = <<In, Of("chan"), Of("int"), Out>>, !.local = Counts(1, 1, 0), !.lang = {"chp", "prs"},
  !.gate = <<Gate(Port(0), <<Port(1)>>)>>]
chip == [Plain EXCEPT
  !.port = <<Out>>, !.local = Counts(2, 1, 1), !.lang = {"hse"},
  !.gate = <<Gate(Port(0), <<1>>)>>,
  !.inst = <<Inst("s", "source", <<Global(0), 0, 0, 0>>), Inst("m", "stage", <<0, 1>>)>>,
  !.spec = <<[kind |-> "timing", root |-> 0, a |-> <<1>>, b |-> <<Port(0), Port(0)>>,
              dir |-> <<"both", "both", "up">>, margin |-> 1],
             [kind |-> "excllo", ids |-> <<1, Port(0)>>],
             [kind |-> "mk_excllo", ids |-> <<0, Port(0)>>],
             [kind |-> "rand_init", ids |-> <<0>>], [kind |-> "hazard", ids |-> <<1>>]>>]

two == [Plain EXCEPT !.port = <<In, Out>>, !.lang = {"prs"},
                     !.gate = <<Gate(Port(0), <<Port(1), Port(1)>>)>>,
                     !.inst = <<Inst("i", "inv", <<Port(1), Port(0)>>)>>]
bus == [Plain EXCEPT !.local = Counts(3, 0, 0),
                     !.inst = <<Inst("t", "two", <<1, 2>>), Inst("x", "inv", <<2, 0>>),
                                Inst("d", "inv", <<1, 2>>), Inst("g", "latch", <<1, Global(0)>>)>>,
                     !.spec = <<[kind |-> "mk_excllo", ids |-> <<0, 1>>],
                                [kind |-> "excllo", ids |-> <<0, 0>>]>>]

wrap == [Plain EXCEPT !.port = <<In, Out>>, !.inst = <<Inst("i", "inv", <<Port(1), Port(0)>>)>>]
link == [Plain EXCEPT
  !.local = Counts(3, 1, 2),
  !.piece = [r \in {0, 1} |-> [chan |-> 1, side |-> IF r = 0 THEN "out" ELSE "in",
                               dir |-> IF r = 0 THEN "inout" ELSE "outin"]],
  !.inst = <<Inst("w", "wrap", <<1, 0>>), Inst("r", "source", <<2, 0, 0, 1>>),
             Inst("v", "inv", <<1, 2>>)>>]
bad == [Plain EXCEPT !.inst = <<Inst("i", "latch", <<Global(0), Global(0)>>)>>]

MCLibrary == [inv |-> inv, latch |-> latch, stage |-> stage, source |-> source, chip |-> chip,
              two |-> two, bus |-> bus, wrap |-> wrap, link |-> link, bad |-> bad]
MCTops == {"chip", "bus", "link", "bad"}
MCGlobals == Counts(1, 0, 0)
MCInstLevel == [p \in {<<"i">>} |-> "chp"] @@ [p \in {<<"v">>} |-> "device"]
MCProcLevel == [p \in {"source"} |-> "chp"]
=============================================================================
