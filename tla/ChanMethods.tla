---------------------------- MODULE ChanMethods ----------------------------
(***************************************************************************)
(* The methods of a channel type: how a CHP communication is carried out   *)
(* on the wires of a channel when the other end is a circuit.              *)
(* ChanMethods::_compile turns the text of a method into a list of         *)
(* operations, and ChanMethods::runMethod interprets the list from a given *)
(* position until the method ends or waits.                                *)
(*                                                                         *)
(* A text is a record with field op:                                       *)
(*   "skip"                                                                *)
(*   "list" (cmd)        both s1; s2 and s1, s2: executed in order         *)
(*   "wire" (var, to)    var+ or var-                                      *)
(*   "self" (e), "selfack" (e)   the data of the channel := e              *)
(*   "select" (gc)       a list of records g (guard) and s (text)          *)
(* A method that the type does not define is the empty list.               *)
(*                                                                         *)
(* An expression is a disjunction of conjunctions of literals: a set of    *)
(* sets of pairs <<name, value>>.  {{}} is true and {} is false.           *)
(***************************************************************************)
EXTENDS Naturals, Sequences, SequencesExt

CONSTANTS Text,    \* closed under the parts of a text
          Wire     \* the Booleans of the channel type

Done == 255    \* runMethod returns -1, kept in the 8 bits of sufrag_st
X == 2         \* the value of a Boolean nothing has driven

True == {{}}
Open == "open"    \* the target of a GOTO, until the selection is closed

(* One guarded command, placed at position pos: the guard is skipped over  *)
(* when it is false, and the body ends in a jump out of the selection.     *)
Branch(pos, guard, body) ==
  << [type |-> "SEL", e |-> guard, idx |-> pos + Len(body) + 2] >>
    \o body \o << [type |-> "GOTO", idx |-> Open] >>

(* The end of a selection that starts at root: a SKIP that all branches    *)
(* jump to; the last guard, when false, leads back to the first one.       *)
Closed(root, ops) ==
  LET end == root + Len(ops) IN
  Append([i \in DOMAIN ops |->
            CASE ops[i].type = "GOTO" /\ ops[i].idx = Open -> [ops[i] EXCEPT !.idx = end]
              [] ops[i].type = "SEL" /\ ops[i].idx = end   -> [ops[i] EXCEPT !.idx = root]
              [] OTHER -> ops[i]],
         [type |-> "SKIP"])

(* The operations of a text, the first of them at position base.           *)
CodeOf[a \in Nat \X Text] ==
  LET base == a[1]
      x == a[2]
  IN  CASE x.op = "skip"    -> << [type |-> "SKIP"] >>
        [] x.op = "wire"    -> << [type |-> "BOOL", var |-> x.var, to |-> x.to] >>
        [] x.op = "self"    -> << [type |-> "SELF", e |-> x.e] >>
        [] x.op = "selfack" -> << [type |-> "SELFACK", e |-> x.e] >>
        [] x.op = "list"    ->
             FoldLeft(LAMBDA ops, y : ops \o CodeOf[<<base + Len(ops), y>>], <<>>, x.cmd)
        [] x.op = "select"  ->
             Closed(base,
               FoldLeft(LAMBDA ops, gc :
                          ops \o Branch(base + Len(ops), gc.g,
                                        CodeOf[<<base + Len(ops) + 1, gc.s>>]),
                        <<>>, x.gc))

compile(x) == CodeOf[<<0, x>>]

(* The Booleans a text names (_hse_record_ids): they are entered in ch->fH. *)
NamesOf(e) == {l[1] : l \in UNION e} \ {"self", "selfack"}
Recorded[x \in Text] ==
  CASE x.op = "skip"   -> {}
    [] x.op = "wire"   -> {x.var}
    [] x.op \in {"self", "selfack"} -> NamesOf(x.e)
    [] x.op = "list"   -> UNION {Recorded[x.cmd[i]] : i \in DOMAIN x.cmd}
    [] x.op = "select" ->
         UNION {NamesOf(x.gc[i].g) \cup Recorded[x.gc[i].s] : i \in DOMAIN x.gc}

-----------------------------------------------------------------------------
(* What a method works on: the position, the wires, c->data and c->data2,  *)
(* and the wires it has changed.                                           *)
RunState ==
  [pos : Nat, wire : [Wire -> {0, 1, X}], self : {0, 1}, selfack : {0, 1},
   changed : SUBSET Wire]

(* ChpSim::exprEval within a method.  An X is read into one bit: as 0.     *)
Bit(s, name) ==
  IF name = "self" THEN s.self
  ELSE IF name = "selfack" THEN s.selfack
  ELSE s.wire[name] % 2
Holds(e, s) == \E conj \in e : \A l \in conj : Bit(s, l[1]) = l[2]
exprEval(e, s) == IF Holds(e, s) THEN 1 ELSE 0

(* A selection none of whose guards holds.                                 *)
Waits(op, s) == op.type = "SEL" /\ ~Holds(op.e, s) /\ op.idx <= s.pos

Step(op, s) ==
  CASE op.type = "SKIP"    -> [s EXCEPT !.pos = @ + 1]
    [] op.type = "GOTO"    -> [s EXCEPT !.pos = op.idx]
    [] op.type = "BOOL"    -> [s EXCEPT !.pos = @ + 1, !.wire[op.var] = op.to,
                                        !.changed = IF s.wire[op.var] = op.to
                                                      THEN @ ELSE @ \cup {op.var}]
    [] op.type = "SELF"    -> [s EXCEPT !.pos = @ + 1, !.self = exprEval(op.e, s)]
    [] op.type = "SELFACK" -> [s EXCEPT !.pos = @ + 1, !.selfack = exprEval(op.e, s)]
    [] op.type = "SEL"     -> [s EXCEPT !.pos = IF Holds(op.e, s) THEN @ + 1 ELSE op.idx]

(* runMethod: the state in which it returns.                               *)
runMethod(ops, s) ==
  LET run[r \in RunState] ==
        IF r.pos >= Len(ops) THEN [r EXCEPT !.pos = Done]
        ELSE IF Waits(ops[r.pos + 1], r) THEN [r EXCEPT !.pos = ops[r.pos + 1].idx]
        ELSE run[Step(ops[r.pos + 1], r)]
  IN  run[s]

(* runProbe: the value of a probe expression.                              *)
runProbe(e, s) == Holds(e, s)
=============================================================================
