----------------------------- MODULE MCChpData -----------------------------
(* Texts that are run as processes and as functions, with every argument.  *)
EXTENDS ChpData

int(v) == [op |-> "int", v |-> v, arg |-> <<>>]
x_(x) == [op |-> "var", x |-> x, arg |-> <<>>]
el(x, e) == [op |-> "var", x |-> x, arg |-> <<e>>]
bin(op, l, r) == [op |-> op, arg |-> <<l, r>>]
not(l) == [op |-> "not", arg |-> <<l>>]
neg(l) == [op |-> "minus1", arg |-> <<l>>]
bits(l, hi, lo) == [op |-> "bits", lo |-> lo, hi |-> hi, arg |-> <<l>>]
toint(l, n) == [op |-> "toint", n |-> n, arg |-> <<l>>]
asbool(l) == [op |-> "tobool", arg |-> <<l>>]
ite(c, l, r) == [op |-> "query", arg |-> <<c, l, r>>]
cat(p) == [op |-> "concat", arg |-> p]
fn(f, arg) == [op |-> "call", f |-> f, arg |-> arg]
Else == [op |-> "bool", v |-> TRUE, arg |-> <<>>]

a == x_("a")
b == x_("b")
t == x_("t")
u == x_("u")

(* Statement name -> assignment; selection or loop -> guards.              *)
set(to, e) == [to |-> to, e |-> e]
MCAssign == [
  \* widths: differences and complements of sums, signs, parts of words
  w1 |-> set(t, not(bin("plus", a, b))),
  w2 |-> set(u, bin("asr", bin("minus", a, b), int(1))),
  w3 |-> set(x_("p"), bin("lt", t, neg(u))),
  w4 |-> set(x_("self"), cat(<<bits(t, 1, 0), bin("minus", u, a), toint(x_("p"), 1)>>)),
  \* shift and add
  m1 |-> set(t, a),
  m2 |-> set(u, b),
  m3 |-> set(x_("self"), bin("plus", x_("self"), t)),
  m4 |-> set(t, bin("lsl", t, int(1))),
  m5 |-> set(u, bin("lsr", u, int(1))),
  \* a structure, its fields written in parallel
  p1 |-> set(el("self", int(0)), bin("xor", a, b)),
  p2 |-> set(el("self", int(1)), bin("mult", a, b)),
  p3 |-> set(el("self", int(2)), bin("le", a, b)),
  \* a structure from a function, and functions in expressions
  c1 |-> set(x_("s"), fn("pack", <<bin("minus", b, a), a>>)),
  c2 |-> set(t, fn("mul", <<not(a), b>>)),
  c3 |-> set(x_("self"),
             ite(el("s", int(2)), bin("minus", t, el("s", int(1))),
                   fn("widths", <<el("s", int(0)), bin("and", t, b)>>))),
  \* an array, with an index that may be out of bounds
  v1 |-> set(el("v", a), bin("or", b, int(1))),
  v2 |-> set(el("v", bin("minus", int(3), b)), a),
  v3 |-> set(x_("self"), bin("plus", el("v", int(0)), neg(el("v", a)))),
  \* a loop that tests at the end
  n1 |-> set(x_("self"), bin("plus", x_("self"), toint(asbool(el("d", t)), 1))),
  n2 |-> set(t, bin("plus", t, int(1)))
]
MCGuard == [
  mulLoop |-> <<bin("ne", u, int(0))>>,
  mulBit |-> <<bin("eq", bits(u, 0, 0), int(1)), Else>>,
  countLoop |-> <<bin("gt", int(3), t)>>,
  vecIf |-> <<bin("eq", el("v", b), int(0)), bin("ge", int(1), a), Else>>
]

st(n) == [op |-> "stmt", name |-> n]
skip == [op |-> "skip"]
semi(cmd) == [op |-> "semi", cmd |-> cmd]
par(cmd) == [op |-> "comma", cmd |-> cmd]
select(n, cmd) == [op |-> "select", name |-> n, cmd |-> cmd]
loop(n, cmd) == [op |-> "loop", name |-> n, cmd |-> <<cmd>>]
doloop(n, cmd) == [op |-> "doloop", name |-> n, cmd |-> <<cmd>>]

INT(w) == [shape |-> "scalar", cell |-> <<[kind |-> "int", w |-> w]>>]
BOOL == [shape |-> "scalar", cell |-> <<[kind |-> "bool", w |-> 1]>>]
ARRAY(n, w) == [shape |-> "array", cell |-> [i \in 1 .. n |-> [kind |-> "int", w |-> w]]]
PAIR == [shape |-> "struct", cell |-> <<[kind |-> "int", w |-> 2], [kind |-> "int", w |-> 3],
                                        [kind |-> "bool", w |-> 1]>>]
two == <<"a", "b">>

MCFun == [
  widths |-> [port |-> two,
    decl |-> [a |-> INT(2), b |-> INT(2), t |-> INT(4), u |-> INT(3), p |-> BOOL,
              self |-> INT(5)],
    body |-> semi(<<par(<<st("w1"), st("w2")>>), st("w3"), st("w4")>>)],
  mul |-> [port |-> two,
    decl |-> [a |-> INT(2), b |-> INT(2), t |-> INT(3), u |-> INT(2), self |-> INT(3)],
    body |-> semi(<<par(<<st("m1"), st("m2")>>),
                    loop("mulLoop", semi(<<select("mulBit", <<st("m3"), skip>>),
                                           par(<<st("m4"), st("m5")>>)>>))>>)],
  pack |-> [port |-> two,
    decl |-> [a |-> INT(2), b |-> INT(2), self |-> PAIR],
    body |-> par(<<st("p1"), st("p2"), st("p3")>>)],
  calls |-> [port |-> two,
    decl |-> [a |-> INT(2), b |-> INT(2), s |-> PAIR, t |-> INT(4), self |-> INT(6)],
    body |-> semi(<<par(<<st("c1"), st("c2")>>), st("c3")>>)],
  vec |-> [port |-> two,
    decl |-> [a |-> INT(2), b |-> INT(2), v |-> ARRAY(3, 2), self |-> INT(2)],
    body |-> semi(<<st("v1"), select("vecIf", <<st("v2"), st("v2"), skip>>), st("v3")>>)],
  count |-> [port |-> <<"d">>,
    decl |-> [d |-> ARRAY(3, 2), t |-> INT(2), self |-> INT(2)],
    body |-> doloop("countLoop", semi(<<st("n1"), st("n2")>>))]
]

(* The processes: each text, and one that calls the function with it.      *)
MCProcessText ==
  {MCAssign[n].e : n \in DOMAIN MCAssign} \cup {MCAssign[n].to : n \in DOMAIN MCAssign}
  \cup UNION {ToSet(MCGuard[n]) : n \in DOMAIN MCGuard}
  \cup {[op |-> "call", f |-> f, arg |-> <<>>] : f \in DOMAIN MCFun}

Names == <<"widths", "mul", "pack", "calls", "vec", "count">>
MaxNesting == 6
Nested[k \in 0 .. MaxNesting] ==
  IF k = 0 THEN {MCFun[f].body : f \in DOMAIN MCFun}
  ELSE UNION {IF q.op \in {"stmt", "skip"} THEN {q} ELSE {q} \cup ToSet(q.cmd) :
              q \in Nested[k - 1]}
G == INSTANCE ChpGraph WITH Term <- Nested[MaxNesting]

Built ==
  LET One(acc, f) ==
        LET r == G!Build[MCFun[f].body, [acc.b EXCEPT !.cur = 0]] IN
        [b |-> r.b, first |-> Append(acc.first, r.ret)]
  IN FoldLeft(One, [b |-> G!EmptyBuilder, first |-> <<>>], Names)

MCGraph == Built.b.node
MCNode == DOMAIN MCGraph
MCRoots == ToSet(Built.first)
MCCode == [g \in MCRoots |-> Names[CHOOSE i \in DOMAIN Names : Built.first[i] = g]]
MCNpc == [g \in MCRoots |-> G!MaxProgramCounters[MCFun[MCCode[g]].body]]
MCCounters == 0 .. Built.b.max - 1
MCStmts == DOMAIN MCAssign
NoOrder == [g \in MCRoots |-> {}]
Word == 0 .. 3
MCInput == [g \in MCRoots |->
  IF MCCode[g] = "count" THEN {<<d>> : d \in {<<0, 0, 0>>, <<3, 0, 2>>, <<1, 2, 3>>}}
  ELSE {<<<<i>>, <<j>>>> : i, j \in Word}]
=============================================================================
