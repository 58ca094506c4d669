--------------------------- MODULE MCChpFragment ---------------------------
(* An instance of ChpFragment for TLC: a dual-rail channel with an         *)
(* acknowledge, like a1of2 of the library and e1of1 of test/46.act.        *)
EXTENDS ChpFragment

MCWire == {"t", "f", "a"}
MCForward == {"t", "f"}

Is(w, v) == {{<<w, v>>}}
Neutral == {{<<"t", 0>>, <<"f", 0>>}}
Valid == Is("t", 1) \cup Is("f", 1)

Up(w) == [op |-> "wire", var |-> w, to |-> 1]
Down(w) == [op |-> "wire", var |-> w, to |-> 0]
Self(b) == [op |-> "self", e |-> IF b = 1 THEN {{}} ELSE {}]
List(s) == [op |-> "list", cmd |-> s]
Wait(g) == [op |-> "select", gc |-> << [g |-> g, s |-> List(<<>>)] >>]
Either(g, s, h, t) == [op |-> "select", gc |-> << [g |-> g, s |-> s], [g |-> h, s |-> t] >>]

MCMethod ==
  [set       |-> Either(Is("self", 1), Up("t"), {{}}, Up("f")),
   send_up   |-> Wait(Is("a", 1)),
   send_rest |-> List(<<List(<<Down("t"), Down("f")>>), Wait(Is("a", 0))>>),
   get       |-> Either(Is("t", 1), Self(1), Is("f", 1), Self(0)),
   recv_up   |-> Up("a"),
   recv_rest |-> List(<<Wait(Neutral), Down("a")>>),
   send_init |-> List(<<Down("t"), Down("f")>>),
   recv_init |-> Down("a")]

MCText ==
  {MCMethod[m] : m \in DOMAIN MCMethod}
    \cup {Up(w) : w \in MCWire} \cup {Down(w) : w \in MCWire}
    \cup {Self(0), Self(1), List(<<>>), List(<<Down("t"), Down("f")>>)}
    \cup {Wait(Is("a", 1)), Wait(Is("a", 0)), Wait(Neutral)}
(* The methods of the instance are those of a four-phase channel.          *)
ASSUME MethodsAreFourPhase == FourPhaseType
=============================================================================
