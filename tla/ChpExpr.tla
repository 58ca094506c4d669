------------------------------ MODULE ChpExpr ------------------------------
(***************************************************************************)
(* CHP expressions, assignments and functions: the values ChpSim computes  *)
(* and the widths it computes them with.                                   *)
(*                                                                         *)
(* A value is a BigInt [w, v]: v, less than 2^w, in w bits.  What an       *)
(* expression denotes is a sequence of values, its cells: one, or those of *)
(* an array or a structure.  Values are no wider than a machine word.  An  *)
(* expression is a record [op, arg, ...], arg its operands:                *)
(*   "int", "bool" (v)    a constant                                       *)
(*   "var" (x)            x, or its element arg[1]; a field of a structure *)
(*                        is an element with a constant index              *)
(*   a name in Unary, a name in Binary, "query", "concat"                  *)
(*   "bits" (hi, lo)      "tobool"      "toint" (n)      "call" (f)        *)
(* Left out: division, probes, channel values, enumerations, nested        *)
(* structures and arrays of structures, external functions, watchpoints.   *)
(***************************************************************************)
EXTENDS Integers, Sequences, SequencesExt, FiniteSetsExt, Bitwise

CONSTANTS
  Fun,      \* function -> [port, decl, body]; its result is variable "self"
  Assign,   \* name of a statement -> [to, e]
  Guard,    \* name of a selection or loop -> its guards; else is a true one
  ProcessText  \* the expressions in the bodies of processes

Unary == {"not", "minus1"}
Arith == {"plus", "minus", "mult"}
Bitop == {"and", "or", "xor"}
Shift == {"lsl", "lsr", "asr"}
Compare == {"lt", "gt", "le", "ge", "eq", "ne"}
Binary == Arith \cup Bitop \cup Shift \cup Compare

-----------------------------------------------------------------------------
(* BigInt, as exprEval uses it: operands are dynamic, so that a result is  *)
(* never cut to the width of an operand, unless their width is set.        *)
Wider(a, b) == IF a > b THEN a ELSE b
bitLength[n \in Nat] == IF n < 2 THEN 1 ELSE 1 + bitLength[n \div 2]
Grown(w, n) == [w |-> Wider(w, bitLength[n]), v |-> n]
Modulo(w, n) == [w |-> w, v |-> n % 2^w]
setWidth(x, w) == Modulo(w, x.v)
Flag(b) == [w |-> 1, v |-> IF b THEN 1 ELSE 0]
Signed(x) == IF x.v >= 2^(x.w - 1) THEN x.v - 2^x.w ELSE x.v

(* fatal_error ends the simulation; what stands for the value, then.       *)
Stop == [w |-> 0, v |-> 0]
Stops(c) == \E i \in DOMAIN c : c[i].w = 0

(* w is the width recorded for a difference.                               *)
applyBinary(op, l, r, w) ==
  CASE op = "plus" -> Grown(Wider(l.w, r.w), l.v + r.v)
    [] op = "minus" -> Modulo(Wider(w, r.w), setWidth(l, w).v - r.v)
    [] op = "mult" -> Grown(Wider(l.w, r.w), l.v * r.v)
    [] op = "and" -> [w |-> Wider(l.w, r.w), v |-> l.v & r.v]
    [] op = "or" -> [w |-> Wider(l.w, r.w), v |-> l.v | r.v]
    [] op = "xor" -> [w |-> Wider(l.w, r.w), v |-> l.v ^^ r.v]
    [] op = "lsl" -> [w |-> l.w + r.v, v |-> l.v * 2^r.v]
    [] op = "lsr" -> [w |-> l.w, v |-> l.v \div 2^r.v]
    [] op = "asr" -> Modulo(l.w, Signed(l) \div 2^r.v)
    [] op = "lt" -> Flag(l.v < r.v)
    [] op = "gt" -> Flag(l.v > r.v)
    [] op = "le" -> Flag(l.v <= r.v)
    [] op = "ge" -> Flag(l.v >= r.v)
    [] op = "eq" -> Flag(l.v = r.v)
    [] op = "ne" -> Flag(l.v # r.v)
applyUnary(op, x) ==
  IF op = "not" THEN Modulo(x.w, -x.v - 1) ELSE Modulo(x.w, -x.v)

Number(n) == [w |-> 32, v |-> n]
applyConcat(l, r) ==
  LET shifted == applyBinary("lsl", l, Number(r.w), 0)
  IN applyBinary("or", shifted, setWidth(r, shifted.w), 0)
applyBits(x, hi, lo) == setWidth(applyBinary("lsr", x, Number(lo), 0), hi - lo + 1)

-----------------------------------------------------------------------------
(* Widths.  An environment [val, decl, fn, rec, stop]: the cells of the    *)
(* variables and their types, of a process or, if fn, of a function in a   *)
(* frame of _statestk; rec if the widths of the text being run were        *)
(* recorded; stop after a fatal error.                                     *)

(* The width of an expression according to its type (act_type_expr), from  *)
(* the widths n of its operands.                                           *)
typeRule(e, n, decl) ==
  CASE e.op = "int" -> bitLength[e.v]
    [] e.op \in {"bool", "tobool"} \cup Compare -> 1
    [] e.op = "var" -> decl[e.x].cell[1].w
    [] e.op \in {"plus", "minus"} -> Wider(n[1], n[2]) + 1
    [] e.op = "mult" -> n[1] + n[2]
    [] e.op \in Bitop -> Wider(n[1], n[2])
    [] e.op = "lsl" -> n[1] + 2^n[2] - 1
    [] e.op \in Unary \cup {"lsr", "asr"} -> n[1]
    [] e.op = "query" -> Wider(n[2], n[3])
    [] e.op = "concat" -> FoldLeft(+, 0, n)
    [] e.op = "bits" -> e.hi - e.lo + 1
    [] e.op = "toint" -> e.n
    [] e.op = "call" -> Fun[e.f].decl["self"].cell[1].w
RECURSIVE typeWidth(_, _)
typeWidth(e, decl) ==
  typeRule(e, [i \in DOMAIN e.arg |-> typeWidth(e.arg[i], decl)], decl)

(* exprWidth: the width recorded for e, else the one its value x has.      *)
(* The text of a process is converted, and all widths that are looked up   *)
(* recorded; the body of a function is only visited.                       *)
converted(env) == ~env.fn
NotVisited(env) == FALSE    \* mutant: bodies of functions are not visited
visited(env) == env.fn /\ env.rec
exprWidth(e, x, env) ==
  IF converted(env) \/ visited(env) THEN typeWidth(e, env.decl) ELSE x.w

(* The functions whose bodies are visited: those a process calls.          *)
RECURSIVE Called(_)
Called(e) ==
  (IF e.op = "call" THEN {e.f} ELSE {}) \cup UNION {Called(e.arg[i]) : i \in DOMAIN e.arg}
Recorded == UNION {Called(e) : e \in ProcessText}

-----------------------------------------------------------------------------
(* Variables. *)
Scalar(decl, x) == decl[x].shape = "scalar"
Whole(decl, ref) == decl[ref.x].shape # "scalar" /\ ref.arg = <<>>
zero(type) == [i \in DOMAIN type.cell |-> [w |-> type.cell[i].w, v |-> 0]]

(* computeOffset, or Array::Offset in a function: the place of the cell    *)
(* that ref names, sub being the value of its index, or 0 out of bounds.   *)
position(ref, sub, decl) ==
  IF sub = <<>> THEN 1
  ELSE IF sub[1][1].v < Len(decl[ref.x].cell) THEN sub[1][1].v + 1 ELSE 0

stateEval(ref, i, env) == setWidth(env.val[ref.x][i], env.decl[ref.x].cell[i].w)
frameEval(ref, i, env) == env.val[ref.x][i]
varEval(ref, i, env) ==
  IF i = 0 THEN Stop ELSE IF env.fn THEN frameEval(ref, i, env) ELSE stateEval(ref, i, env)

(* All the cells of a structure or, in a process only, of an array.        *)
structEval(ref, env) == env.val[ref.x]
arrayEval(ref, env) ==
  IF env.fn THEN <<Stop>>
  ELSE [i \in DOMAIN env.val[ref.x] |-> stateEval(ref, i, env)]
wholeEval(ref, env) ==
  IF env.decl[ref.x].shape = "struct" THEN structEval(ref, env) ELSE arrayEval(ref, env)

(* One value from those of the operands.                                   *)
scalar(e, v, env) ==
  CASE e.op = "int" -> [w |-> bitLength[e.v], v |-> e.v]
    [] e.op = "bool" -> Flag(e.v)
    [] e.op \in Binary -> applyBinary(e.op, v[1], v[2], exprWidth(e, v[1], env))
    [] e.op \in Unary -> applyUnary(e.op, setWidth(v[1], exprWidth(e.arg[1], v[1], env)))
    [] e.op = "concat" ->
         LET cut == [i \in DOMAIN v |-> setWidth(v[i], exprWidth(e.arg[i], v[i], env))]
         IN FoldLeft(applyConcat, Head(cut), Tail(cut))
    [] e.op = "bits" -> applyBits(v[1], e.hi, e.lo)
    [] e.op = "tobool" -> Flag(v[1].v # 0)
    [] e.op = "toint" -> setWidth(v[1], e.n)

-----------------------------------------------------------------------------
(* Calls: arguments take the widths of the ports, other variables are 0.   *)
bind(f, x, arg) ==
  IF Scalar(f.decl, x) THEN <<setWidth(arg[1], f.decl[x].cell[1].w)>> ELSE arg
frame(f, args, rec) ==
  [decl |-> f.decl, fn |-> TRUE, rec |-> rec, stop |-> FALSE,
   val |-> [x \in DOMAIN f.decl |->
              IF \E i \in DOMAIN args : f.port[i] = x
              THEN bind(f, x, args[CHOOSE i \in DOMAIN args : f.port[i] = x])
              ELSE zero(f.decl[x])]]
result(env) == IF env.stop THEN <<Stop>> ELSE env.val["self"]

-----------------------------------------------------------------------------
(* Assignments.  A process writes the simulation state, a function the     *)
(* variables of its frame.                                                 *)
store(env, x, c) == [env EXCEPT !.val[x] = c]
halt(env) == [env EXCEPT !.stop = TRUE]

NoWidth(type, x) == x    \* mutant: iwidth is ignored
stateValue(type, x) ==
  IF type.kind = "bool" THEN [w |-> 1, v |-> x.v] ELSE setWidth(x, type.w)
setField(c, i, x) == [c EXCEPT ![i] = setWidth(x, c[i].w)]

assignCell(env, x, i, y) ==
  IF i = 0 \/ y = Stop THEN halt(env)
  ELSE IF env.fn THEN store(env, x, setField(env.val[x], i, y))
  ELSE store(env, x, [env.val[x] EXCEPT ![i] = stateValue(env.decl[x].cell[i], y)])

(* _structure_assign asserts that the widths are those declared.           *)
structAssign(env, x, c) ==
  LET type == env.decl[x].cell IN
  IF Stops(c) \/ (~env.fn /\ \E i \in DOMAIN c : type[i].kind = "int" /\ c[i].w # type[i].w)
    THEN halt(env)
  ELSE IF env.fn THEN store(env, x, c)
  ELSE store(env, x, [i \in DOMAIN c |-> [w |-> type[i].w, v |-> c[i].v]])

write(env, to, sub, c) ==
  IF \E i \in DOMAIN sub : Stops(sub[i]) THEN halt(env)
  ELSE IF Whole(env.decl, to) THEN structAssign(env, to.x, c)
  ELSE assignCell(env, to.x, position(to, sub, env.decl), c[1])

-----------------------------------------------------------------------------
(* The interpreter.  A guard is true when it is not 0; choice is the first *)
(* of those evaluated that is true, or 0.                                  *)
choice(vals) == SelectInSeq(vals, LAMBDA x : x.v # 0)

RECURSIVE exprEval(_, _), runChp(_, _)

(* In a function no widths are recorded for indices.                       *)
operands(e, env) ==
  [i \in DOMAIN e.arg |->
     exprEval(e.arg[i], IF e.op = "var" THEN [env EXCEPT !.rec = FALSE] ELSE env)]

funcEval(f, args, rec) == result(runChp(f.body, frame(f, args, rec)))

(* Only the branch of a query that is taken is evaluated: the other may    *)
(* not stop the simulation.                                                *)
combine(e, sub, env) ==
  IF e.op = "query" THEN
    IF sub[1][1] = Stop THEN <<Stop>> ELSE IF sub[1][1].v # 0 THEN sub[2] ELSE sub[3]
  ELSE IF \E i \in DOMAIN sub : Stops(sub[i]) THEN <<Stop>>
  ELSE IF e.op = "call" THEN funcEval(Fun[e.f], sub, e.f \in Recorded)
  ELSE IF e.op = "var" THEN
    IF Whole(env.decl, e) THEN wholeEval(e, env)
    ELSE <<varEval(e, position(e, sub, env.decl), env)>>
  ELSE <<scalar(e, [i \in DOMAIN sub |-> sub[i][1]], env)>>
exprEval(e, env) == combine(e, operands(e, env), env)

assign(st, env) == write(env, st.to, operands(st.to, env), exprEval(st.e, env))
guards(name, env) == [i \in DOMAIN Guard[name] |-> exprEval(Guard[name][i], env)[1]]

(* What is to be run for a statement: a list in order, parallel            *)
(* composition included; a branch; a body and its loop again.              *)
Fails(t, vals) ==
  LET i == choice(vals) IN
  IF i = 0 THEN Stops(vals) \/ t.op = "select" ELSE Stops(SubSeq(vals, 1, i))
chosen(t, vals) ==
  LET i == choice(vals) IN
  IF i = 0 THEN <<>> ELSE IF t.op = "select" THEN <<t.cmd[i]>> ELSE <<t.cmd[i], t>>
runAll(list, env) == FoldLeft(LAMBDA done, u : runChp(u, done), env, list)
runList(t, vals, env) ==
  CASE t.op = "skip" -> env
    [] t.op = "stmt" -> assign(Assign[t.name], env)
    [] t.op \in {"semi", "comma"} -> runAll(t.cmd, env)
    [] t.op = "doloop" -> runAll(<<t.cmd[1], [t EXCEPT !.op = "loop"]>>, env)
    [] t.op \in {"select", "loop"} ->
         IF Fails(t, vals) THEN halt(env) ELSE runAll(chosen(t, vals), env)
runChp(t, env) ==
  IF env.stop THEN env
  ELSE runList(t, IF t.op \in {"select", "loop"} THEN guards(t.name, env) ELSE <<>>, env)
=============================================================================
