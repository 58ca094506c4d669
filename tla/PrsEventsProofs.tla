-------------------------- MODULE PrsEventsProofs --------------------------
(***************************************************************************)
(* What becomes of the changes that the rules of a gate ask for, for every *)
(* circuit: an X that the rules resolve is cleared, and, as long as the    *)
(* hazards the theorems name stay away, an object has one event, no node   *)
(* contradicts its rules, every change is a rule of ProductionRules that   *)
(* fires, and nothing is reported.                                         *)
(***************************************************************************)
EXTENDS PrsGatesProofs, SequenceLemmas

-----------------------------------------------------------------------------
(* Events in a queue.                                                      *)
LEMMA RangeAppend ==
  ASSUME NEW S, NEW s \in Seq(S), NEW e \in S
  PROVE  Range(Append(s, e)) = Range(s) \cup {e}
<1>1. /\ Append(s, e) \in Seq(S) /\ Len(s) \in Nat
      /\ DOMAIN s = 1 .. Len(s) /\ DOMAIN Append(s, e) = 1 .. Len(s) + 1
      /\ \A j \in 1 .. Len(s) : Append(s, e)[j] = s[j]
      /\ Append(s, e)[Len(s) + 1] = e
  BY AppendProperties
<1> DEFINE r == Append(s, e)
<1>2. /\ \A j \in DOMAIN r : j \in DOMAIN s \/ j = Len(s) + 1
      /\ DOMAIN s \subseteq DOMAIN r /\ Len(s) + 1 \in DOMAIN r
  BY <1>1
<1> HIDE DEF r
<1>3. Range(r) = Range(s) \cup {e}
  BY <1>1, <1>2 DEF Range, r
<1> QED
  BY <1>3 DEF r

LEMMA RangeRemoveAt ==
  ASSUME NEW S, NEW s \in Seq(S), NEW i \in DOMAIN s
  PROVE  /\ \A j \in DOMAIN s : j # i => s[j] \in Range(RemoveAt(s, i))
         /\ Range(RemoveAt(s, i)) \subseteq Range(s)
<1> DEFINE r == RemoveAt(s, i)
<1>1. /\ Len(s) \in Nat /\ DOMAIN s = 1 .. Len(s) /\ r \in Seq(S) /\ DOMAIN r = 1 .. Len(s) - 1
      /\ \A k \in 1 .. Len(s) - 1 : r[k] = s[IF k < i THEN k ELSE k + 1]
  <2>1. Len(s) \in Nat /\ DOMAIN s = 1 .. Len(s) /\ i \in 1 .. Len(s)
    OBVIOUS
  <2>2. /\ r \in Seq(S) /\ Len(r) = Len(s) - 1
        /\ \A k \in 1 .. Len(s) - 1 : r[k] = s[IF k < i THEN k ELSE k + 1]
    BY <2>1, RemoveAtProperties
  <2> HIDE DEF r
  <2>3. DOMAIN r = 1 .. Len(s) - 1
    BY <2>2
  <2> QED
    BY <2>1, <2>2, <2>3
<1> HIDE DEF r
<1>2. ASSUME NEW j \in DOMAIN s, j # i PROVE s[j] \in Range(r)
  <2>1. CASE j < i
    BY <1>1, <2>1 DEF Range
  <2>2. CASE j > i
    <3>1. j - 1 \in DOMAIN r /\ r[j - 1] = s[j]
      BY <1>1, <2>2
    <3> QED
      BY <3>1 DEF Range
  <2> QED
    BY <1>1, <1>2, <2>1, <2>2
<1>3. Range(r) \subseteq Range(s)
  BY <1>1 DEF Range
<1> QED
  BY <1>2, <1>3 DEF r

-----------------------------------------------------------------------------
(* A gate that does not mention a node does not see it change.             *)
LEMMA EvalSame ==
  ASSUME NEW guard, NEW v, NEW w, \A conj \in guard : \A l \in conj : v[l.node] = w[l.node]
  PROVE  Eval(guard, v) = Eval(guard, w)
<1>1. \A conj \in guard : {Literal(l, v) : l \in conj} = {Literal(l, w) : l \in conj}
  BY DEF Literal
<1>2. {AndOf({Literal(l, v) : l \in conj}) : conj \in guard} =
        {AndOf({Literal(l, w) : l \in conj}) : conj \in guard}
  BY <1>1
<1> QED
  BY <1>2 DEF Eval

LEMMA DriverTypes ==
  ASSUME NEW g \in Gate
  PROVE  /\ Drivers[g] \in Seq([up : Guard, upw : Guard, dn : Guard, dnw : Guard])
         /\ Drivers[g] # <<>>
         /\ \A i \in DOMAIN Drivers[g] :
              Drivers[g][i] \in [up : Guard, upw : Guard, dn : Guard, dnw : Guard]
<1> DEFINE R4 == [up : Guard, upw : Guard, dn : Guard, dnw : Guard]
<1> HIDE DEF R4
<1>1. Drivers \in [Gate -> Seq(R4) \ {<<>>}]
  BY DriversAssumption DEF R4
<1>2. Drivers[g] \in Seq(R4) /\ Drivers[g] # <<>>
  BY <1>1
<1>3. \A i \in DOMAIN Drivers[g] : Drivers[g][i] \in R4
  BY <1>2
<1> QED
  BY <1>2, <1>3 DEF R4

LEMMA PullSame ==
  ASSUME NEW g \in Gate, NEW n, g \notin Fanout(n),
         NEW v, NEW v2, \A m \in Node \ {n} : v2[m] = v[m]
  PROVE  Up(g, v2) = Up(g, v) /\ Dn(g, v2) = Dn(g, v)
<1>1. ASSUME NEW i \in DOMAIN Drivers[g], NEW part \in {"up", "upw", "dn", "dnw"}
      PROVE  Eval(Drivers[g][i][part], v2) = Eval(Drivers[g][i][part], v)
  <2>1. \A conj \in Drivers[g][i][part] : \A l \in conj : l.node \in Node /\ l.node # n
    BY DriverTypes DEF Guard, Fanout, Mentions
  <2> QED
    BY <2>1, EvalSame
<1>2. \A part \in {"up", "upw", "dn", "dnw"} :
        [i \in DOMAIN Drivers[g] |-> Eval(Drivers[g][i][part], v2)] =
        [i \in DOMAIN Drivers[g] |-> Eval(Drivers[g][i][part], v)]
  BY <1>1
<1>3. Pull(g, "up", "upw", v2) = Pull(g, "up", "upw", v) /\ Pull(g, "dn", "dnw", v2) = Pull(g, "dn", "dnw", v)
  BY <1>2 DEF Pull
<1> QED
  BY <1>3 DEF Up, Dn

(* A pull is weak only when some weak rule is there.                       *)
HasWeak(g) == \E i \in DOMAIN Drivers[g] : Drivers[g][i].upw # {} \/ Drivers[g][i].dnw # {}

LEMMA NoWeakPull ==
  ASSUME NEW g \in Gate, ~HasWeak(g), NEW v
  PROVE  ~Up(g, v).weak /\ ~Dn(g, v).weak
<1>1. ASSUME NEW part \in {"upw", "dnw"}
      PROVE  Scan([i \in DOMAIN Drivers[g] |-> Eval(Drivers[g][i][part], v)]) = 0
  <2> DEFINE vals == [i \in DOMAIN Drivers[g] |-> Eval(Drivers[g][i][part], v)]
  <2>1. \A i \in DOMAIN Drivers[g] : Drivers[g][i][part] = {}
    BY <1>1 DEF HasWeak
  <2>2. \A i \in DOMAIN Drivers[g] : vals[i] = 0
    BY <2>1 DEF Eval, OrOf
  <2>3. Len(vals) \in DOMAIN vals
    BY DriverTypes, EmptySeq
  <2> HIDE DEF vals
  <2>4. 1 \notin Range(vals) /\ Last(vals) = 0
    <3>1. DOMAIN vals = DOMAIN Drivers[g]
      BY DEF vals
    <3> QED
      BY <2>2, <2>3, <3>1 DEF Range, Last
  <2> QED
    BY <2>4 DEF Scan, vals
<1> QED
  BY <1>1 DEF Up, Dn, Pull

-----------------------------------------------------------------------------
(* Exclusions: they are symmetric, none concerns an X, and the dice are    *)
(* thrown only where there is one.                                         *)
LEMMA RivalFacts ==
  ASSUME NEW n, NEW v
  PROVE  /\ Rivals(n, X) = {}
         /\ \A m : m \in Rivals(n, v) => n \in Rivals(m, v)
         /\ HeadRivals(n, v) \subseteq Rivals(n, v)
<1>1. Rivals(n, X) = {}
  BY DEF Rivals, Excl, X, Range
<1>2. \A m : m \in Rivals(n, v) => n \in Rivals(m, v)
  BY DEF Rivals
<1>3. HeadRivals(n, v) \subseteq Rivals(n, v)
  <2> SUFFICES ASSUME NEW m \in HeadRivals(n, v) PROVE m \in Rivals(n, v)
    OBVIOUS
  <2> DEFINE newest == {i \in DOMAIN Excl(v) : Newest(n, v, i)}
  <2>0. m # n /\ \E S \in {Excl(v)[i] : i \in newest} : m \in S
    BY DEF HeadRivals
  <2>1. PICK i \in DOMAIN Excl(v) : Newest(n, v, i) /\ m \in Excl(v)[i] /\ m # n
    BY <2>0
  <2>2. Excl(v)[i] \in Range(Excl(v)) /\ n \in Excl(v)[i]
    BY <2>1 DEF Newest, Range
  <2> QED
    BY <2>1, <2>2 DEF Rivals
<1> QED
  BY <1>1, <1>2, <1>3

(* The value the rules of a gate insist on.                                *)
Asked(w, u, d) == IF w = 1 THEN Wins(u, d) ELSE Wins(d, u)

LEMMA OneWinner ==
  ASSUME NEW u, NEW d PROVE ~(Wins(u, d) /\ Wins(d, u))
BY DEF Wins

-----------------------------------------------------------------------------
(* The flags name an event that is in the queue, and a rule that is on.    *)
Listed(o) == \A w \in Value : o.flags = PENDING(w) => w \in Range(o.queue)
Justified(o, u, d) ==
  /\ o.flags = PENDING(1) => u.is = 1
  /\ o.flags = PENDING(0) => d.is = 1

(* While a node is at X and a rule insists on a value that no exclusion    *)
(* can refuse, there is an event in the queue that cannot be refused: the  *)
(* node will be at the value, or looked at again when it is set to X.      *)
Pursued(n, cur, o, u, d) ==
  cur = X => \A w \in {0, 1} :
               Asked(w, u, d) /\ Rivals(n, w) = {}
                 => \E e \in Range(o.queue) : Rivals(n, e) = {}

Tended(g, o, v) ==
  LET u == Up(g, v)
      d == Dn(g, v)
  IN Listed(o) /\ Justified(o, u, d) /\ Pursued(Out[g], v[Out[g]], o, u, d)

LEMMA PostListed ==
  ASSUME NEW o \in Queued, NEW w \in Value
  PROVE  Listed(Post(o, w)) /\ w \in Range(Post(o, w).queue) /\ Post(o, w).flags = PENDING(w)
<1>1. Range(Append(o.queue, w)) = Range(o.queue) \cup {w}
  BY RangeAppend DEF Queued
<1> QED
  BY <1>1 DEF Post, Listed, PENDING, Value, X

LEMMA DoSetValListed ==
  ASSUME NEW o \in Queued, Listed(o), NEW cur, NEW w \in Value, cur # w
  PROVE  /\ Listed(DoSetVal(o, cur, w)) /\ w \in Range(DoSetVal(o, cur, w).queue)
         /\ DoSetVal(o, cur, w).flags = PENDING(w)
BY PostListed DEF DoSetVal, Listed

LEMMA MakeNodeXListed ==
  ASSUME NEW o \in Queued, Listed(o), NEW cur
  PROVE  /\ Listed(MakeNodeX(o, cur))
         /\ MakeNodeX(o, cur).flags \in {PENDING_NONE, PENDING(X)}
<1>1. Listed(Post(Removed(o), X)) /\ Post(Removed(o), X).flags = PENDING(X)
  BY RemovedType, PostListed DEF Value
<1>2. /\ Listed([Removed(o) EXCEPT !.flags = PENDING_NONE])
      /\ [Removed(o) EXCEPT !.flags = PENDING_NONE].flags = PENDING_NONE
  BY RemovedType DEF Listed, Queued, PENDING, PENDING_NONE, Value, X
<1>3. cur = X /\ o.flags \notin {PENDING(0), PENDING(1)} => o.flags \in {PENDING_NONE, PENDING(X)}
  BY DEF Queued, PENDING, PENDING_NONE, X
<1> QED
  BY <1>1, <1>2, <1>3 DEF MakeNodeX

(* Whatever the rules, what propagate does to an object sets things right. *)
LEMMA DecideTended ==
  ASSUME NEW o \in Queued, Listed(o), NEW u, NEW d, Justified(o, u, d), NEW n, NEW cur
  PROVE  /\ Listed(Decide(o, cur, u, d))
         /\ Justified(Decide(o, cur, u, d), u, d)
         /\ Pursued(n, cur, Decide(o, cur, u, d), u, d)
<1> DEFINE new == Decide(o, cur, u, d)
<1>1. ~(Wins(u, d) /\ Wins(d, u))
  BY OneWinner
<1>2. ASSUME NEW w \in {0, 1}, Asked(w, u, d)
      PROVE  Listed(new) /\ Justified(new, u, d) /\ Pursued(n, cur, new, u, d)
  <2>1. new = DoSetVal(o, cur, w) /\ w \in Value
    <3>1. Wins(u, d) => Decide(o, cur, u, d) = DoSetVal(o, cur, 1)
      BY DEF Decide, Interfere, Wins, X
    <3>2. Wins(d, u) => Decide(o, cur, u, d) = DoSetVal(o, cur, 0)
      BY DEF Decide, Interfere, Wins, X
    <3>3. IF w = 1 THEN Wins(u, d) ELSE Wins(d, u)
      BY <1>2 DEF Asked
    <3> QED
      BY <3>1, <3>2, <3>3 DEF Value
  <2> HIDE DEF new
  <2>2. CASE cur = w
    <3>1. new = o /\ cur # X
      BY <2>1, <2>2 DEF DoSetVal, X
    <3> QED
      BY <3>1 DEF Pursued
  <2>3. CASE cur # w
    <3>1. Listed(new) /\ w \in Range(new.queue) /\ new.flags = PENDING(w)
      BY <2>1, <2>3, DoSetValListed
    <3>2. Justified(new, u, d)
      BY <1>2, <3>1 DEF Justified, Asked, Wins, PENDING
    <3>3. Pursued(n, cur, new, u, d)
      BY <1>1, <1>2, <3>1 DEF Pursued, Asked
    <3> QED
      BY <3>1, <3>2, <3>3
  <2> QED
    BY <2>2, <2>3
<1>3. CASE ~Wins(u, d) /\ ~Wins(d, u)
  <2>1. new \in {o, MakeNodeX(o, cur)}
    BY <1>3 DEF Decide
  <2> HIDE DEF new
  <2>2. Listed(MakeNodeX(o, cur)) /\ Justified(MakeNodeX(o, cur), u, d)
    BY MakeNodeXListed DEF Justified, PENDING, PENDING_NONE, X
  <2>3. Pursued(n, cur, new, u, d)
    BY <1>3 DEF Pursued, Asked
  <2> QED
    BY <2>1, <2>2, <2>3 DEF new
<1>4. \/ \E w \in {0, 1} : Asked(w, u, d)
      \/ ~Wins(u, d) /\ ~Wins(d, u)
  BY DEF Asked
<1> QED
  BY <1>2, <1>3, <1>4

LEMMA PropagatedTended ==
  ASSUME NEW o \in Queued, Listed(o), NEW g, NEW v
  PROVE  Tended(g, Propagated(g, o, v), v)
<1> DEFINE cur == v[Out[g]]
           u == Up(g, v)
           d == Dn(g, v)
           left == IF Unstable(o, u, d) THEN MakeNodeX(o, cur) ELSE o
<1>1. left \in Queued /\ Listed(left)
  BY MakeNodeXType, MakeNodeXListed
<1>2. Justified(left, u, d)
  <2>1. CASE Unstable(o, u, d)
    <3>1. left.flags \in {PENDING_NONE, PENDING(X)}
      BY <2>1, MakeNodeXListed
    <3> QED
      BY <3>1 DEF Justified, PENDING, PENDING_NONE, X
  <2>2. CASE ~Unstable(o, u, d)
    BY <2>2 DEF Justified, Unstable
  <2> QED
    BY <2>1, <2>2
<1>3. Propagated(g, o, v) = Decide(left, cur, u, d)
  BY DEF Propagated
<1> HIDE DEF left
<1>4. /\ Listed(Decide(left, cur, u, d))
      /\ Justified(Decide(left, cur, u, d), u, d)
      /\ Pursued(Out[g], cur, Decide(left, cur, u, d), u, d)
  BY <1>1, <1>2, DecideTended
<1> QED
  BY <1>3, <1>4 DEF Tended

(* Step looks again at a node that it has set to X.                        *)
LEMMA RecheckedTended ==
  ASSUME NEW o \in Queued, o.flags = PENDING_NONE, NEW g, NEW v, v[Out[g]] = X
  PROVE  Tended(g, Rechecked(g, o, v), v)
<1> DEFINE n == Out[g]
           u == Up(g, v)
           d == Dn(g, v)
           new == Rechecked(g, o, v)
<1>1. Listed(o)
  BY DEF Listed, PENDING, PENDING_NONE, Value, X
<1>2. CASE Wins(u, d)
  <2>1. new = DoSetVal(o, X, 1) /\ ~Wins(d, u)
    BY <1>2, OneWinner DEF Rechecked
  <2>2. Listed(new) /\ 1 \in Range(new.queue) /\ new.flags = PENDING(1)
    BY <1>1, <2>1, DoSetValListed DEF Value, X
  <2> HIDE DEF new, u, d
  <2>3. Justified(new, u, d) /\ Pursued(n, X, new, u, d)
    BY <1>2, <2>1, <2>2 DEF Justified, Wins, PENDING, Pursued, Asked
  <2> QED
    BY <2>2, <2>3 DEF Tended, new, u, d
<1>3. CASE Wins(d, u)
  <2>1. new = DoSetVal(o, X, 0) /\ ~Wins(u, d)
    BY <1>3, OneWinner DEF Rechecked
  <2>2. Listed(new) /\ 0 \in Range(new.queue) /\ new.flags = PENDING(0)
    BY <1>1, <2>1, DoSetValListed DEF Value, X
  <2> HIDE DEF new, u, d
  <2>3. Justified(new, u, d) /\ Pursued(n, X, new, u, d)
    BY <1>3, <2>1, <2>2 DEF Justified, Wins, PENDING, Pursued, Asked
  <2> QED
    BY <2>2, <2>3 DEF Tended, new, u, d
<1>4. CASE ~Wins(u, d) /\ ~Wins(d, u)
  <2>1. new = o
    BY <1>4 DEF Rechecked
  <2>2. Justified(o, u, d) /\ Pursued(n, X, o, u, d)
    BY <1>4 DEF Justified, PENDING, PENDING_NONE, Pursued, Asked
  <2> QED
    BY <1>1, <2>1, <2>2 DEF Tended
<1> QED
  BY <1>2, <1>3, <1>4

LEMMA DeliveredListed ==
  ASSUME NEW o \in Queued, Listed(o), NEW i \in DOMAIN o.queue
  PROVE  /\ Listed(Delivered(o, i)) /\ Delivered(o, i).flags \in {PENDING_NONE, o.flags}
         /\ \A j \in DOMAIN o.queue : j # i => o.queue[j] \in Range(Delivered(o, i).queue)
<1>1. \A j \in DOMAIN o.queue : j # i => o.queue[j] \in Range(RemoveAt(o.queue, i))
  BY RangeRemoveAt DEF Queued
<1>2. ASSUME NEW w \in Value, Delivered(o, i).flags = PENDING(w)
      PROVE  w \in Range(Delivered(o, i).queue)
  <2>1. o.flags = PENDING(w) /\ o.queue[i] # w
    BY <1>2 DEF Delivered, PENDING, PENDING_NONE, Value, X
  <2>2. PICK j \in DOMAIN o.queue : o.queue[j] = w
    BY <2>1 DEF Listed, Range
  <2> QED
    BY <1>1, <2>1, <2>2 DEF Delivered
<1> QED
  BY <1>1, <1>2 DEF Listed, Delivered

LEMMA FlushListed ==
  ASSUME NEW o \in Queued, Listed(o)
  PROVE  Listed(Flush(o)) /\ Flush(o).flags \in {PENDING_NONE, o.flags}
<1>1. Removed(o) \in Queued
  BY RemovedType
<1> QED
  BY <1>1 DEF Flush, Listed, Queued, PENDING, PENDING_NONE, Value, X

-----------------------------------------------------------------------------
(* An X that the rules resolve does not stay.                              *)
AllTended == \A g \in Gate : Tended(g, ob[g], val)

LEMMA UnheardTended ==
  ASSUME NEW g \in Gate, NEW n, g \notin Fanout(n), Out[g] # n,
         NEW v, NEW v2, \A m \in Node \ {n} : v2[m] = v[m],
         NEW o, Tended(g, o, v)
  PROVE  Tended(g, o, v2)
<1>1. v2[Out[g]] = v[Out[g]]
  BY OutAssumption
<1>2. Up(g, v2) = Up(g, v) /\ Dn(g, v2) = Dn(g, v)
  BY PullSame
<1> QED
  BY <1>1, <1>2 DEF Tended

LEMMA FlushTended ==
  ASSUME NEW o \in Queued, NEW g, NEW v, Tended(g, o, v), v[Out[g]] # X
  PROVE  Tended(g, Flush(o), v)
<1>1. Listed(Flush(o)) /\ Flush(o).flags \in {PENDING_NONE, o.flags}
  BY FlushListed DEF Tended
<1>2. Justified(Flush(o), Up(g, v), Dn(g, v))
  BY <1>1 DEF Tended, Justified, PENDING, PENDING_NONE
<1> QED
  BY <1>1, <1>2 DEF Tended, Pursued

(* A pending value that the rules no longer insist on, of a rule that is   *)
(* still on: that rule is weak.                                            *)
LEMMA OverruledIsWeak ==
  ASSUME NEW g \in Gate, NEW o, NEW v, NEW w \in {0, 1}, Asked(w, Up(g, v), Dn(g, v)),
         o.flags = PENDING(1 - w), Justified(o, Up(g, v), Dn(g, v))
  PROVE  HasWeak(g)
BY NoWeakPull DEF Asked, Justified, Wins, PENDING

(* Where a gate has weak rules an exclusion concerns both changes of its   *)
(* node, or neither.                                                       *)
WeakApart == \A g \in Gate : HasWeak(g) => (Rivals(Out[g], 0) = {} <=> Rivals(Out[g], 1) = {})

LEMMA InitTended == Init => AllTended
<1> SUFFICES ASSUME Init, NEW g \in Gate PROVE Tended(g, ob[g], val)
  BY DEF AllTended
<1> DEFINE o == [flags |-> PENDING_NONE, queue |-> <<>>, pending |-> "null"]
<1>1. ob[g] = Propagated(g, o, val)
  BY DEF Init, Told
<1>2. o \in Queued /\ Listed(o)
  BY DEF Queued, Listed, PENDING, PENDING_NONE, Value, X
<1> QED
  BY <1>1, <1>2, PropagatedTended

LEMMA FiresTended ==
  ASSUME WeakApart, TypeOK, AllTended, NEW g \in Gate, NEW i \in DOMAIN ob[g].queue, Fires(g, i)
  PROVE  AllTended'
<1> DEFINE n == Out[g]
           v == ob[g].queue[i]
           killed == {h \in Gate \ {g} : Out[h] \in Rivals(n, v)}
           os == [h \in Gate |-> IF h = g THEN Delivered(ob[g], i)
                                 ELSE IF h \in killed THEN Flush(ob[h]) ELSE ob[h]]
           told == Told(Fanout(n), os, Stored(n, v))
<1>1. /\ Allowed(n, v)
      /\ val' = [val EXCEPT ![n] = v]
      /\ ob' = IF v = X /\ told[g].flags = PENDING_NONE
                 THEN [told EXCEPT ![g] = Rechecked(g, told[g], val')] ELSE told
  BY DEF Fires, Stored, Told
<1>2. told = [h \in Gate |-> IF h \in Fanout(n) THEN Propagated(h, os[h], val') ELSE os[h]]
  BY <1>1 DEF Told, Stored
<1>3. ob \in [Gate -> Queued] /\ n \in Node /\ v \in Value /\ val \in [Node -> Value]
  BY OutAssumption, DeliveredType DEF TypeOK
<1>4. ASSUME NEW h \in Gate
      PROVE  /\ os[h] \in Queued /\ Listed(os[h])
             /\ h # g => os[h] \in {ob[h], Flush(ob[h])}
             /\ h = g => os[h] = Delivered(ob[g], i)
  <2>1. ob[h] \in Queued /\ Listed(ob[h])
    BY <1>3 DEF AllTended, Tended
  <2>2. Delivered(ob[g], i) \in Queued /\ Listed(Delivered(ob[g], i))
    BY <1>3, DeliveredType, DeliveredListed DEF AllTended, Tended
  <2>3. Flush(ob[h]) \in Queued /\ Listed(Flush(ob[h]))
    BY <2>1, FlushType, FlushListed
  <2> QED
    BY <2>1, <2>2, <2>3
<1>5. ASSUME NEW h \in Gate, h \notin Fanout(n), h # g
      PROVE  Tended(h, os[h], val')
  <2>1. Out[h] # n /\ Tended(h, ob[h], val) /\ ob[h] \in Queued
    BY <1>3, <1>5, OutAssumption DEF AllTended
  <2>2. ASSUME h \in killed PROVE Tended(h, Flush(ob[h]), val)
    <3>1. val[Out[h]] = 1 - v /\ v # X
      BY <1>1, <2>2, RivalFacts DEF Allowed
    <3>2. val[Out[h]] # X
      BY <1>3, <3>1 DEF Value, X
    <3> QED
      BY <2>1, <3>2, FlushTended
  <2>3. Tended(h, os[h], val)
    BY <1>5, <2>1, <2>2
  <2>4. \A m \in Node \ {n} : val'[m] = val[m]
    BY <1>1, <1>3
  <2> HIDE DEF os
  <2> QED
    BY <1>5, <2>1, <2>3, <2>4, UnheardTended
<1> HIDE DEF killed, os, told
<1>6. ASSUME NEW h \in Gate, h \in Fanout(n)
      PROVE  Tended(h, told[h], val')
  BY <1>2, <1>4, <1>6, PropagatedTended
<1>7. ASSUME NEW h \in Gate, h # g
      PROVE  Tended(h, ob'[h], val')
  <2>1. ob'[h] = told[h]
    BY <1>1, <1>2, <1>7
  <2> QED
    BY <1>2, <1>5, <1>6, <1>7, <2>1
<1>8. Tended(g, ob'[g], val')
  <2>1. told[g] \in Queued
    BY <1>2, <1>4, PropagatedType
  <2>2. CASE v = X /\ told[g].flags = PENDING_NONE
    <3>1. ob'[g] = Rechecked(g, told[g], val') /\ val'[Out[g]] = X
      BY <1>1, <1>2, <1>3, <2>2
    <3> QED
      BY <2>1, <2>2, <3>1, RecheckedTended
  <2>3. CASE ~(v = X /\ told[g].flags = PENDING_NONE) /\ g \in Fanout(n)
    BY <1>1, <1>6, <2>3
  <2>4. CASE ~(v = X /\ told[g].flags = PENDING_NONE) /\ g \notin Fanout(n)
    <3> DEFINE o == Delivered(ob[g], i)
               u == Up(g, val')
               d == Dn(g, val')
    <3>1. ob'[g] = o /\ told[g] = o /\ Listed(o) /\ val'[Out[g]] = v
      BY <1>1, <1>2, <1>3, <1>4, <2>4
    <3>2. u = Up(g, val) /\ d = Dn(g, val) /\ Tended(g, ob[g], val)
      <4>1. \A m \in Node \ {n} : val'[m] = val[m]
        BY <1>1, <1>3
      <4>2. u = Up(g, val) /\ d = Dn(g, val)
        BY <2>4, <4>1, PullSame
      <4> QED
        BY <4>2 DEF AllTended
    <3>3. Justified(o, u, d)
      BY <1>3, <3>2, DeliveredListed DEF Tended, Justified, PENDING, PENDING_NONE
    <3>4. o \in Queued
      BY <1>3, DeliveredType
    <3> HIDE DEF o
    <3>5. ASSUME v = X, NEW w \in {0, 1}, Asked(w, u, d), Rivals(n, w) = {}
          PROVE  \E e \in Range(o.queue) : Rivals(n, e) = {}
      <4>1. o.flags # PENDING_NONE /\ o.flags \in 0 .. 3
        BY <2>4, <3>1, <3>4, <3>5 DEF Queued
      <4>2. PICK e \in Value : o.flags = PENDING(e)
        BY <4>1 DEF Value, PENDING, PENDING_NONE, X
      <4>3. e \in Range(o.queue)
        BY <3>1, <4>2 DEF Listed
      <4>4. CASE e \in {w, X}
        BY <3>5, <4>3, <4>4, RivalFacts
      <4>5. CASE e = 1 - w
        <5>1. HasWeak(g)
          BY <3>3, <3>5, <4>2, <4>5, OverruledIsWeak
        <5>2. Rivals(n, e) = {}
          BY <3>5, <4>5, <5>1 DEF WeakApart
        <5> QED
          BY <4>3, <5>2
      <4> QED
        BY <4>4, <4>5 DEF Value, X
    <3>6. Pursued(n, v, o, u, d)
      BY <3>5 DEF Pursued
    <3> QED
      BY <3>1, <3>3, <3>6 DEF Tended
  <2> QED
    BY <2>2, <2>3, <2>4
<1> QED
  BY <1>7, <1>8 DEF AllTended

(* An event is refused only when an exclusion applies to it.               *)
LEMMA RefusedTended ==
  ASSUME TypeOK, AllTended, NEW g \in Gate, NEW i \in DOMAIN ob[g].queue, Refused(g, i)
  PROVE  AllTended'
<1> DEFINE n == Out[g]
           u == Up(g, val)
           d == Dn(g, val)
           o == [Delivered(ob[g], i) EXCEPT !.flags = PENDING_NONE]
<1>1. ob \in [Gate -> Queued]
  BY DEF TypeOK
<1>2. val' = val /\ ob' = [ob EXCEPT ![g] = o]
  BY <1>1 DEF Refused
<1>3. Rivals(n, ob[g].queue[i]) # {}
  BY RivalFacts DEF Refused, Allowed, MayLose
<1>4. o.flags = PENDING_NONE /\ o.queue = Delivered(ob[g], i).queue
  BY DEF Delivered
<1> HIDE DEF o
<1>5. Listed(o) /\ Justified(o, u, d)
  BY <1>4 DEF Listed, Justified, PENDING, PENDING_NONE, Value, X
<1>6. Pursued(n, val[n], o, u, d)
  <2> SUFFICES ASSUME val[n] = X, NEW w \in {0, 1}, Asked(w, u, d), Rivals(n, w) = {}
               PROVE  \E e \in Range(o.queue) : Rivals(n, e) = {}
    BY DEF Pursued
  <2>1. PICK e \in Range(ob[g].queue) : Rivals(n, e) = {}
    BY DEF AllTended, Tended, Pursued
  <2>2. PICK j \in DOMAIN ob[g].queue : ob[g].queue[j] = e
    BY DEF Range
  <2>3. e \in Range(o.queue)
    BY <1>1, <1>3, <1>4, <2>1, <2>2, DeliveredListed DEF AllTended, Tended
  <2> QED
    BY <2>1, <2>3
<1>7. Tended(g, o, val)
  BY <1>5, <1>6 DEF Tended
<1> QED
  BY <1>1, <1>2, <1>7 DEF AllTended

LEMMA EnvSetTended ==
  ASSUME TypeOK, AllTended, NEW s \in Stimuli, EnvSet(s)
  PROVE  AllTended'
<1> SUFFICES ASSUME NEW g \in Gate PROVE Tended(g, ob'[g], val')
  BY DEF AllTended
<1>1. /\ val' = [val EXCEPT ![s.node] = s.to]
      /\ ob'[g] = IF g \in Fanout(s.node) THEN Propagated(g, ob[g], val') ELSE ob[g]
  BY DEF EnvSet, Stored, Told
<1>2. ob[g] \in Queued /\ Tended(g, ob[g], val) /\ Listed(ob[g]) /\ val \in [Node -> Value]
  BY DEF TypeOK, AllTended, Tended
<1>3. CASE g \in Fanout(s.node)
  BY <1>1, <1>2, <1>3, PropagatedTended
<1>4. CASE g \notin Fanout(s.node)
  <2>1. Out[g] # s.node /\ \A m \in Node \ {s.node} : val'[m] = val[m]
    BY <1>1, <1>2, StimuliAssumption
  <2>2. Tended(g, ob[g], val')
    BY <1>2, <1>4, <2>1, UnheardTended
  <2> QED
    BY <1>1, <1>4, <2>2
<1> QED
  BY <1>3, <1>4

(* An X that the rules resolve does not stay, whatever hazards the circuit *)
(* has and whatever the delays, in every circuit where no weak rule drives *)
(* a node of which an exclusion concerns one direction only: Step looks    *)
(* again when it has set the X, and what is pending then cannot be refused.*)
THEOREM XResolved ==
  ASSUME WeakApart
  PROVE  Spec => []XIsCleared
<1>1. TypeOK /\ AllTended /\ [Next]_vars => AllTended'
  <2> SUFFICES ASSUME TypeOK, AllTended, [Next]_vars PROVE AllTended'
    OBVIOUS
  <2>1. CASE UNCHANGED vars
    BY <2>1 DEF vars, AllTended
  <2>2. ASSUME NEW g \in Gate, Step(g) PROVE AllTended'
    BY <2>2, FiresTended, RefusedTended DEF Step
  <2>3. ASSUME NEW s \in Stimuli, EnvSet(s) PROVE AllTended'
    BY <2>3, EnvSetTended
  <2>4. CASE EndReset
    BY <2>4 DEF EndReset, AllTended
  <2> QED
    BY <2>1, <2>2, <2>3, <2>4 DEF Next
<1>2. AllTended => XIsCleared
  <2> SUFFICES ASSUME AllTended, Idle, NEW g \in Gate, val[Out[g]] = X,
                      NEW w \in {0, 1}, Asked(w, Up(g, val), Dn(g, val))
               PROVE  Rivals(Out[g], w) # {}
    BY DEF XIsCleared, Asked
  <2>1. Range(ob[g].queue) = {}
    BY DEF Idle, Range
  <2> QED
    BY <2>1 DEF AllTended, Tended, Pursued
<1> QED
  BY <1>1, <1>2, InitTended, TypeCorrect, PTL DEF Spec

-----------------------------------------------------------------------------
(* One change at a time: at most one event of an object would change its   *)
(* node to 0 or 1, and the flags name it; _pending points to the event the *)
(* flags name, or to none that matters.                                    *)
Blank(o) == \A e \in Range(o.queue) : e = X
OneChange(o) ==
  /\ \A i, j \in DOMAIN o.queue : o.queue[i] # X /\ o.queue[j] # X => i = j
  /\ \A e \in Range(o.queue) : e # X => o.flags = PENDING(e)
  /\ o.pending = "last" => o.queue # <<>> /\ o.flags = PENDING(Last(o.queue))
  /\ o.pending = "stale" => o.flags = PENDING_NONE
Well(o) == o \in Queued /\ Listed(o) /\ OneChange(o)

(* _pending points to whatever is pending, as it does in reset mode.       *)
Ready(o) == o.flags # PENDING_NONE => o.pending = "last"

LEMMA BlankWell ==
  ASSUME NEW o, Well(o), o.flags \notin {PENDING(0), PENDING(1)}
  PROVE  Blank(o)
<1> SUFFICES ASSUME NEW e \in Range(o.queue), e # X PROVE FALSE
  BY DEF Blank
<1>1. e \in Value
  BY DEF Well, Queued, Range
<1> QED
  BY <1>1 DEF Well, OneChange, Value

LEMMA PostWell ==
  ASSUME NEW o \in Queued, Blank(o), NEW w \in Value
  PROVE  Well(Post(o, w)) /\ Post(o, w).flags = PENDING(w) /\ Post(o, w).pending = "last"
<1> DEFINE s == o.queue
           r == Append(s, w)
           p == Post(o, w)
<1>1. Listed(p) /\ p \in Queued /\ p.flags = PENDING(w) /\ p.pending = "last" /\ p.queue = r
  BY PostListed, PostType DEF Post
<1>2. /\ s \in Seq(Value) /\ Len(s) \in Nat /\ DOMAIN s = 1 .. Len(s) /\ Len(r) = Len(s) + 1
      /\ r # <<>> /\ DOMAIN r = 1 .. Len(s) + 1 /\ r[Len(s) + 1] = w /\ r \in Seq(Value)
      /\ \A j \in 1 .. Len(s) : r[j] = s[j]
  BY AppendProperties DEF Queued
<1>3. \A j \in 1 .. Len(s) : r[j] = X
  BY <1>2 DEF Blank, Range
<1> HIDE DEF s, r, p
<1>4. \A j \in DOMAIN r : r[j] # X => j = Len(s) + 1 /\ r[j] = w
  BY <1>2, <1>3
<1>5. Last(r) = w
  BY <1>2 DEF Last
<1>6. \A e \in Range(r) : e # X => e = w
  BY <1>4 DEF Range
<1>7. OneChange(p)
  BY <1>1, <1>2, <1>4, <1>5, <1>6 DEF OneChange
<1> QED
  BY <1>1, <1>7 DEF Well, p

LEMMA RemovedBlank ==
  ASSUME NEW o, Well(o), o.flags \in {PENDING(0), PENDING(1)} => o.pending = "last"
  PROVE  /\ Removed(o) \in Queued /\ Blank(Removed(o)) /\ Removed(o).flags = o.flags
         /\ Removed(o).pending # "last"
<1>1. Removed(o) \in Queued /\ Removed(o).flags = o.flags /\ Removed(o).pending # "last"
  BY RemovedType DEF Well, Removed, Queued
<1>2. CASE o.pending # "last"
  BY <1>1, <1>2, BlankWell DEF Removed
<1>3. CASE o.pending = "last"
  <2> DEFINE s == o.queue
             f == Front(s)
  <2>1. s \in Seq(Value) /\ s # <<>> /\ o.flags = PENDING(Last(s))
    BY <1>3 DEF Well, OneChange, Queued
  <2>2. Len(s) \in Nat \ {0} /\ DOMAIN s = 1 .. Len(s)
    BY <2>1, EmptySeq
  <2>3. f \in Seq(Value) /\ DOMAIN f = 1 .. Len(s) - 1 /\ \A j \in 1 .. Len(s) - 1 : f[j] = s[j]
    BY <2>1, <2>2, SubSeqProperties DEF Front
  <2>4. Last(s) = s[Len(s)] /\ \A j \in DOMAIN s : s[j] \in Value
    BY <2>1 DEF Last
  <2> HIDE DEF s, f
  <2>5. ASSUME NEW j \in DOMAIN f, f[j] # X PROVE FALSE
    <3>1. j \in DOMAIN s /\ j # Len(s) /\ Len(s) \in DOMAIN s /\ s[j] # X /\ s[j] \in Range(s)
      BY <2>2, <2>3, <2>4, <2>5 DEF Range
    <3>2. o.flags = PENDING(s[j])
      BY <3>1 DEF Well, OneChange, s
    <3>3. s[Len(s)] # X
      BY <2>1, <2>4, <3>1, <3>2 DEF PENDING, Value, X
    <3> QED
      BY <3>1, <3>3 DEF Well, OneChange, s
  <2>6. \A e \in Range(f) : e = X
    BY <2>5 DEF Range
  <2>7. Removed(o).queue = f
    BY <1>3 DEF Removed, f, s, Well, Queued
  <2> QED
    BY <1>1, <2>6, <2>7 DEF Blank
<1> QED
  BY <1>2, <1>3

LEMMA UnflaggedWell ==
  ASSUME NEW o \in Queued, Blank(o), o.pending # "last"
  PROVE  Well([o EXCEPT !.flags = PENDING_NONE])
<1> DEFINE p == [o EXCEPT !.flags = PENDING_NONE]
<1>1. p \in Queued /\ p.flags = PENDING_NONE /\ p.queue = o.queue /\ p.pending = o.pending
  BY DEF Queued, PENDING_NONE
<1>2. \A i \in DOMAIN p.queue : p.queue[i] = X
  BY <1>1 DEF Blank, Range
<1>3. \A e \in Range(p.queue) : e = X
  BY <1>2 DEF Range
<1> HIDE DEF p
<1>4. Listed(p) /\ OneChange(p)
  BY <1>1, <1>2, <1>3 DEF Listed, OneChange, PENDING, PENDING_NONE, Value, X
<1> QED
  BY <1>1, <1>4 DEF Well, p

LEMMA MakeNodeXWell ==
  ASSUME NEW o, Well(o), o.flags \in {PENDING(0), PENDING(1)} => o.pending = "last", NEW cur
  PROVE  /\ Well(MakeNodeX(o, cur))
         /\ MakeNodeX(o, cur).flags \in {PENDING_NONE, PENDING(X)}
         /\ Ready(o) => Ready(MakeNodeX(o, cur))
         /\ cur = X /\ o.flags # PENDING(X) => MakeNodeX(o, cur).flags = PENDING_NONE
<1>1. Removed(o) \in Queued /\ Blank(Removed(o)) /\ Removed(o).pending # "last"
  BY RemovedBlank
<1>2. /\ Well(Post(Removed(o), X)) /\ Post(Removed(o), X).flags = PENDING(X)
      /\ Post(Removed(o), X).pending = "last"
  BY <1>1, PostWell DEF Value
<1>3. /\ Well([Removed(o) EXCEPT !.flags = PENDING_NONE])
      /\ [Removed(o) EXCEPT !.flags = PENDING_NONE].flags = PENDING_NONE
  BY <1>1, UnflaggedWell DEF Queued
<1>4. o.flags \notin {PENDING(0), PENDING(1)} => o.flags \in {PENDING_NONE, PENDING(X)}
  BY DEF Well, Queued, PENDING, PENDING_NONE, X
<1> QED
  BY <1>2, <1>3, <1>4 DEF MakeNodeX, Ready

LEMMA DoSetValWell ==
  ASSUME NEW o, Well(o), NEW w \in {0, 1}, o.flags # PENDING(1 - w), NEW cur, cur # w
  PROVE  /\ Well(DoSetVal(o, cur, w)) /\ DoSetVal(o, cur, w).flags = PENDING(w)
         /\ Ready(o) => Ready(DoSetVal(o, cur, w))
<1>1. CASE o.flags = PENDING(w)
  BY <1>1 DEF DoSetVal
<1>2. CASE o.flags # PENDING(w)
  <2>1. o \in Queued /\ Blank(o) /\ w \in Value
    <3>1. o.flags \notin {PENDING(0), PENDING(1)}
      BY <1>2
    <3> QED
      BY <3>1, BlankWell DEF Well, Value
  <2>2. DoSetVal(o, cur, w) = Post(o, w)
    BY <1>2 DEF DoSetVal
  <2> QED
    BY <2>1, <2>2, PostWell DEF Ready
<1> QED
  BY <1>1, <1>2

LEMMA DeliveredWell ==
  ASSUME NEW o, Well(o), NEW i \in DOMAIN o.queue
  PROVE  /\ Well(Delivered(o, i))
         /\ o.queue[i] \in Value
         /\ Delivered(o, i).flags \in {PENDING_NONE, o.flags}
         /\ o.queue[i] # X => o.flags = PENDING(o.queue[i]) /\ Delivered(o, i).flags = PENDING_NONE
         /\ o.flags = PENDING(o.queue[i]) => Delivered(o, i).flags = PENDING_NONE
<1> DEFINE s == o.queue
           r == RemoveAt(s, i)
           p == Delivered(o, i)
<1>1. o \in Queued /\ Listed(o) /\ s \in Seq(Value)
  BY DEF Well, Queued
<1>2. p \in Queued /\ s[i] \in Value /\ Listed(p)
  BY <1>1, DeliveredType, DeliveredListed
<1>3. /\ p.queue = r /\ p.pending = "null"
      /\ p.flags = IF o.flags = PENDING(s[i]) THEN PENDING_NONE ELSE o.flags
  BY DEF Delivered
<1>4. i \in 1 .. Len(s) /\ Len(s) \in Nat /\ DOMAIN s = 1 .. Len(s)
  BY <1>1
<1>5. /\ r \in Seq(Value) /\ Len(r) = Len(s) - 1
      /\ \A j \in 1 .. Len(s) - 1 : r[j] = s[IF j < i THEN j ELSE j + 1]
  BY <1>1, <1>4, RemoveAtProperties
<1>6. DOMAIN r = 1 .. Len(s) - 1
  BY <1>4, <1>5
<1> DEFINE old(j) == IF j < i THEN j ELSE j + 1
<1>7. \A j \in DOMAIN r : old(j) \in DOMAIN s /\ old(j) # i /\ r[j] = s[old(j)]
  BY <1>4, <1>5, <1>6
<1>8. \A j, k \in DOMAIN r : old(j) = old(k) => j = k
  BY <1>4, <1>6
<1> HIDE DEF s, r, p, old
<1>9. /\ \A j, k \in DOMAIN s : s[j] # X /\ s[k] # X => j = k
      /\ \A j \in DOMAIN s : s[j] # X => o.flags = PENDING(s[j])
  BY DEF Well, OneChange, s, Range
<1>10. \A j, k \in DOMAIN r : r[j] # X /\ r[k] # X => j = k
  BY <1>7, <1>8, <1>9
<1>11. ASSUME NEW j \in DOMAIN r, r[j] # X PROVE p.flags = PENDING(r[j])
  <2>1. o.flags = PENDING(r[j]) /\ s[i] = X
    BY <1>4, <1>7, <1>9, <1>11
  <2>2. r[j] \in Value
    BY <1>5
  <2> QED
    BY <1>3, <1>11, <2>1, <2>2 DEF PENDING, Value, X
<1>12. OneChange(p)
  BY <1>3, <1>10, <1>11 DEF OneChange, Range
<1>13. s[i] # X => o.flags = PENDING(s[i])
  BY <1>4, <1>9
<1> QED
  BY <1>2, <1>3, <1>12, <1>13 DEF Well, s, p

LEMMA FlushWell ==
  ASSUME NEW o, Well(o)
  PROVE  Well(Flush(o)) /\ Flush(o).flags \in {PENDING_NONE, o.flags} /\ (Ready(o) => Ready(Flush(o)))
<1>1. CASE o.pending = "null"
  BY <1>1 DEF Flush
<1>2. CASE o.pending # "null"
  <2>1. o.flags \in {PENDING(0), PENDING(1)} => o.pending = "last"
    BY <1>2 DEF Well, Queued, OneChange, PENDING, PENDING_NONE
  <2>2. Removed(o) \in Queued /\ Blank(Removed(o)) /\ Removed(o).pending # "last"
    BY <2>1, RemovedBlank
  <2>3. Flush(o) = [Removed(o) EXCEPT !.flags = PENDING_NONE]
    BY <1>2 DEF Flush
  <2>4. Flush(o).flags = PENDING_NONE
    BY <2>2, <2>3 DEF Queued
  <2> QED
    BY <2>2, <2>3, <2>4, UnflaggedWell DEF Ready
<1> QED
  BY <1>1, <1>2

(* A change that is pending is a change, its rule is on, and the opposite  *)
(* rule does not win; and what a rule insists on is pending or has         *)
(* happened, unless an exclusion may have refused or killed it.            *)
PullOf(w, u, d) == IF w = 1 THEN u ELSE d
Agrees(o, cur, u, d) ==
  \A w \in {0, 1} : o.flags = PENDING(w) =>
    cur # w /\ PullOf(w, u, d).is = 1 /\ ~Asked(1 - w, u, d)
Answered(n, cur, o, u, d) ==
  \A w \in {0, 1} : Asked(w, u, d) /\ cur # w /\ Rivals(n, w) = {} => o.flags = PENDING(w)

Orderly(g, o, v) ==
  LET u == Up(g, v)
      d == Dn(g, v)
  IN Well(o) /\ Agrees(o, v[Out[g]], u, d) /\ Answered(Out[g], v[Out[g]], o, u, d)

LEMMA AskedOnce ==
  ASSUME NEW u, NEW d, NEW w \in {0, 1}, Asked(w, u, d)
  PROVE  ~Asked(1 - w, u, d) /\ PullOf(w, u, d).is = 1
BY DEF Asked, PullOf, Wins

(* An object none of whose events is flagged, and one that has just posted *)
(* what its rules insist on.                                               *)
LEMMA NoneAgrees ==
  ASSUME NEW o, o.flags \in {PENDING_NONE, PENDING(X)}, NEW cur, NEW u, NEW d
  PROVE  Agrees(o, cur, u, d)
BY DEF Agrees, PENDING, PENDING_NONE, X

LEMMA AskedAnswered ==
  ASSUME NEW w \in {0, 1}, NEW u, NEW d, Asked(w, u, d), NEW cur,
         NEW o, cur # w => o.flags = PENDING(w), NEW n
  PROVE  Answered(n, cur, o, u, d)
<1> SUFFICES ASSUME NEW x \in {0, 1}, Asked(x, u, d), cur # x PROVE o.flags = PENDING(x)
  BY DEF Answered
<1>1. x = w
  BY AskedOnce
<1> QED
  BY <1>1

LEMMA DoSetValOrderly ==
  ASSUME NEW o, Well(o), NEW cur, NEW u, NEW d, Agrees(o, cur, u, d),
         NEW w \in {0, 1}, Asked(w, u, d), NEW n
  PROVE  /\ Well(DoSetVal(o, cur, w)) /\ Agrees(DoSetVal(o, cur, w), cur, u, d)
         /\ Answered(n, cur, DoSetVal(o, cur, w), u, d)
         /\ Ready(o) => Ready(DoSetVal(o, cur, w))
<1> DEFINE new == DoSetVal(o, cur, w)
<1>1. CASE cur = w
  <2>1. new = o
    BY <1>1 DEF DoSetVal
  <2> QED
    BY <1>1, <2>1, AskedAnswered
<1>2. CASE cur # w
  <2>1. o.flags # PENDING(1 - w)
    <3>1. 1 - w \in {0, 1} /\ 1 - (1 - w) = w
      OBVIOUS
    <3> QED
      BY <3>1 DEF Agrees
  <2>2. Well(new) /\ new.flags = PENDING(w) /\ (Ready(o) => Ready(new))
    BY <1>2, <2>1, DoSetValWell
  <2> HIDE DEF new
  <2>3. Answered(n, cur, new, u, d)
    BY <2>2, AskedAnswered
  <2>4. Agrees(new, cur, u, d)
    <3> SUFFICES ASSUME NEW x \in {0, 1}, new.flags = PENDING(x)
                 PROVE  cur # x /\ PullOf(x, u, d).is = 1 /\ ~Asked(1 - x, u, d)
      BY DEF Agrees
    <3>1. x = w
      BY <2>2 DEF PENDING
    <3> QED
      BY <1>2, <3>1, AskedOnce
  <2> QED
    BY <2>2, <2>3, <2>4 DEF new
<1> QED
  BY <1>1, <1>2

LEMMA DecideByAsked ==
  ASSUME NEW o, NEW cur, NEW u, NEW d
  PROVE  /\ \A w \in {0, 1} : Asked(w, u, d) => Decide(o, cur, u, d) = DoSetVal(o, cur, w)
         /\ (\A w \in {0, 1} : ~Asked(w, u, d)) =>
              \/ Decide(o, cur, u, d) = o
              \/ /\ Decide(o, cur, u, d) = MakeNodeX(o, cur)
                 /\ \/ Interfere(u, d)
                    \/ d.is = 0 /\ u.is = X /\ cur = 0
                    \/ u.is = 0 /\ d.is = X /\ cur = 1
<1>1. Wins(u, d) => Decide(o, cur, u, d) = DoSetVal(o, cur, 1)
  BY DEF Decide, Interfere, Wins, X
<1>2. Wins(d, u) => Decide(o, cur, u, d) = DoSetVal(o, cur, 0)
  BY DEF Decide, Interfere, Wins, X
<1>3. ~Wins(u, d) /\ ~Wins(d, u) =>
        \/ Decide(o, cur, u, d) = o
        \/ /\ Decide(o, cur, u, d) = MakeNodeX(o, cur)
           /\ \/ Interfere(u, d)
              \/ d.is = 0 /\ u.is = X /\ cur = 0
              \/ u.is = 0 /\ d.is = X /\ cur = 1
  BY DEF Decide
<1>4. Asked(1, u, d) <=> Wins(u, d)
  BY DEF Asked
<1>5. Asked(0, u, d) <=> Wins(d, u)
  BY DEF Asked
<1> QED
  BY <1>1, <1>2, <1>3, <1>4, <1>5

LEMMA DecideOrderly ==
  ASSUME NEW o, Well(o), NEW cur, NEW u, NEW d, Agrees(o, cur, u, d),
         o.flags \in {PENDING(0), PENDING(1)} => o.pending = "last" \/ ~Interfere(u, d), NEW n
  PROVE  /\ Well(Decide(o, cur, u, d)) /\ Agrees(Decide(o, cur, u, d), cur, u, d)
         /\ Answered(n, cur, Decide(o, cur, u, d), u, d)
         /\ Ready(o) => Ready(Decide(o, cur, u, d))
<1>1. CASE \E w \in {0, 1} : Asked(w, u, d)
  <2>1. PICK w \in {0, 1} : Asked(w, u, d)
    BY <1>1
  <2>2. Decide(o, cur, u, d) = DoSetVal(o, cur, w)
    BY <2>1, DecideByAsked
  <2> QED
    BY <2>1, <2>2, DoSetValOrderly
<1>2. CASE \A w \in {0, 1} : ~Asked(w, u, d)
  <2>1. Answered(n, cur, Decide(o, cur, u, d), u, d)
    BY <1>2 DEF Answered
  <2>2. CASE Decide(o, cur, u, d) = o
    BY <2>1, <2>2
  <2>3. CASE /\ Decide(o, cur, u, d) = MakeNodeX(o, cur)
             /\ \/ Interfere(u, d)
                \/ d.is = 0 /\ u.is = X /\ cur = 0
                \/ u.is = 0 /\ d.is = X /\ cur = 1
    <3>1. o.flags \in {PENDING(0), PENDING(1)} => Interfere(u, d)
      BY <2>3 DEF Agrees, PullOf, X
    <3>2. o.flags \in {PENDING(0), PENDING(1)} => o.pending = "last"
      BY <3>1
    <3>3. /\ Well(MakeNodeX(o, cur)) /\ MakeNodeX(o, cur).flags \in {PENDING_NONE, PENDING(X)}
          /\ Ready(o) => Ready(MakeNodeX(o, cur))
      BY <3>2, MakeNodeXWell
    <3>4. Agrees(MakeNodeX(o, cur), cur, u, d)
      BY <3>3, NoneAgrees
    <3> QED
      BY <2>1, <2>3, <3>3, <3>4
  <2> QED
    BY <1>2, <2>2, <2>3, DecideByAsked
<1> QED
  BY <1>1, <1>2

(* What propagate does when it has nothing to report, or is in reset mode: *)
(* the change that is pending is taken back where there is one.            *)
LEMMA PropagatedOrderly ==
  ASSUME NEW o, Well(o), NEW g, NEW v,
         \A w \in {0, 1} : o.flags = PENDING(w) =>
           /\ v[Out[g]] # w
           /\ PullOf(w, Up(g, v), Dn(g, v)).is = 1 => ~Asked(1 - w, Up(g, v), Dn(g, v)),
         Ready(o) \/ (~resetMode /\ ~Warns(g, o, v))
  PROVE  Orderly(g, Propagated(g, o, v), v) /\ (Ready(o) => Ready(Propagated(g, o, v)))
<1> DEFINE cur == v[Out[g]]
           u == Up(g, v)
           d == Dn(g, v)
           left == IF Unstable(o, u, d) THEN MakeNodeX(o, cur) ELSE o
<1>1. o.flags \in {PENDING(0), PENDING(1)} =>
        o.pending = "last" \/ (~Unstable(o, u, d) /\ ~Interfere(u, d))
  BY DEF Warns, Ready, PENDING, PENDING_NONE
<1>2. /\ Well(left) /\ Agrees(left, cur, u, d) /\ (Ready(o) => Ready(left))
      /\ left.flags \in {PENDING(0), PENDING(1)} => left.pending = "last" \/ ~Interfere(u, d)
  <2>1. CASE Unstable(o, u, d)
    <3>1. o.flags \in {PENDING(0), PENDING(1)} => o.pending = "last"
      BY <1>1, <2>1
    <3>2. /\ Well(left) /\ left.flags \in {PENDING_NONE, PENDING(X)}
          /\ Ready(o) => Ready(left)
      BY <2>1, <3>1, MakeNodeXWell
    <3>3. left.flags \notin {PENDING(0), PENDING(1)}
      BY <3>2 DEF PENDING, PENDING_NONE, X
    <3> HIDE DEF left
    <3>4. Agrees(left, cur, u, d)
      BY <3>2, NoneAgrees
    <3> QED
      BY <3>2, <3>3, <3>4 DEF left
  <2>2. CASE ~Unstable(o, u, d)
    <3>1. Agrees(o, cur, u, d)
      BY <2>2 DEF Agrees, Unstable, PullOf
    <3> QED
      BY <1>1, <2>2, <3>1
  <2> QED
    BY <2>1, <2>2
<1>3. Propagated(g, o, v) = Decide(left, cur, u, d)
  BY DEF Propagated
<1> HIDE DEF left
<1>4. /\ Well(Decide(left, cur, u, d)) /\ Agrees(Decide(left, cur, u, d), cur, u, d)
      /\ Answered(Out[g], cur, Decide(left, cur, u, d), u, d)
      /\ Ready(left) => Ready(Decide(left, cur, u, d))
  BY <1>2, DecideOrderly
<1> QED
  BY <1>2, <1>3, <1>4 DEF Orderly

LEMMA RecheckedOrderly ==
  ASSUME NEW o, Well(o), o.flags = PENDING_NONE, NEW g, NEW v
  PROVE  Orderly(g, Rechecked(g, o, v), v)
<1> DEFINE cur == v[Out[g]]
           u == Up(g, v)
           d == Dn(g, v)
<1>1. Agrees(o, cur, u, d)
  BY NoneAgrees
<1>2. CASE \E w \in {0, 1} : Asked(w, u, d)
  <2>1. PICK w \in {0, 1} : Asked(w, u, d)
    BY <1>2
  <2>2. Rechecked(g, o, v) = DoSetVal(o, cur, w)
    <3>1. (w = 1 /\ Wins(u, d)) \/ (w = 0 /\ Wins(d, u))
      BY <2>1 DEF Asked
    <3> QED
      BY <3>1, OneWinner DEF Rechecked
  <2> HIDE DEF u, d, cur
  <2>3. /\ Well(DoSetVal(o, cur, w)) /\ Agrees(DoSetVal(o, cur, w), cur, u, d)
        /\ Answered(Out[g], cur, DoSetVal(o, cur, w), u, d)
    BY <1>1, <2>1, DoSetValOrderly
  <2> QED
    BY <2>2, <2>3 DEF Orderly, u, d, cur
<1>3. CASE \A w \in {0, 1} : ~Asked(w, u, d)
  <2>1. ~Wins(u, d) /\ ~Wins(d, u)
    BY <1>3 DEF Asked
  <2>2. Rechecked(g, o, v) = o
    BY <2>1 DEF Rechecked
  <2>3. Answered(Out[g], cur, o, u, d)
    BY <1>3 DEF Answered
  <2> QED
    BY <1>1, <2>2, <2>3 DEF Orderly
<1> QED
  BY <1>2, <1>3

-----------------------------------------------------------------------------
(* What must stay away.  A rule whose change is pending stays on and is    *)
(* overruled: only a weak rule can be.  An X is pending: what the program  *)
(* does not report in reset mode.                                          *)
NotOverruled ==
  \A g \in Gate : \A w \in {0, 1} :
    ob[g].flags = PENDING(w) /\ PullOf(w, Up(g, val'), Dn(g, val')).is = 1
      => ~Asked(1 - w, Up(g, val'), Dn(g, val'))
NoXPending == \A g \in Gate : X \notin Range(ob[g].queue)
ResetWithoutX == resetMode => NoXPending

AllOrderly == \A g \in Gate : Orderly(g, ob[g], val) /\ (resetMode => Ready(ob[g]))

LEMMA UnheardOrderly ==
  ASSUME NEW g \in Gate, NEW n, g \notin Fanout(n), Out[g] # n,
         NEW v, NEW v2, \A m \in Node \ {n} : v2[m] = v[m],
         NEW o, Orderly(g, o, v)
  PROVE  Orderly(g, o, v2)
<1>1. v2[Out[g]] = v[Out[g]]
  BY OutAssumption
<1>2. Up(g, v2) = Up(g, v) /\ Dn(g, v2) = Dn(g, v)
  BY PullSame
<1> QED
  BY <1>1, <1>2 DEF Orderly

(* The change of a node that an exclusion concerns may be killed.          *)
LEMMA FlushOrderly ==
  ASSUME NEW g, NEW o, NEW v, Orderly(g, o, v), NEW w, v[Out[g]] = 1 - w, Rivals(Out[g], w) # {},
         w \in {0, 1}
  PROVE  Orderly(g, Flush(o), v)
<1> DEFINE n == Out[g]
           cur == v[Out[g]]
           u == Up(g, v)
           d == Dn(g, v)
<1>1. Well(Flush(o)) /\ Flush(o).flags \in {PENDING_NONE, o.flags}
  BY FlushWell DEF Orderly
<1>2. Agrees(Flush(o), cur, u, d)
  BY <1>1 DEF Orderly, Agrees, PENDING, PENDING_NONE
<1>3. Answered(n, cur, Flush(o), u, d)
  <2> SUFFICES ASSUME NEW x \in {0, 1}, cur # x, Rivals(n, x) = {} PROVE FALSE
    BY DEF Answered
  <2>1. x = w
    OBVIOUS
  <2> QED
    BY <2>1
<1> QED
  BY <1>1, <1>2, <1>3 DEF Orderly

LEMMA InitOrderly == ASSUME Init, ~warned PROVE AllOrderly
<1> SUFFICES ASSUME NEW g \in Gate PROVE Orderly(g, ob[g], val) /\ Ready(ob[g])
  BY DEF AllOrderly
<1> DEFINE o == [flags |-> PENDING_NONE, queue |-> <<>>, pending |-> "null"]
<1>1. ob[g] = Propagated(g, o, val)
  BY DEF Init, Told
<1>2. o \in Queued /\ Blank(o) /\ o.pending # "last"
  BY DEF Queued, Blank, Range, PENDING_NONE
<1>3. Well(o) /\ Ready(o)
  <2>1. o = [o EXCEPT !.flags = PENDING_NONE]
    OBVIOUS
  <2>2. Well(o)
    BY <1>2, <2>1, UnflaggedWell
  <2> QED
    BY <2>2 DEF Ready
<1>4. o.flags = PENDING_NONE
  OBVIOUS
<1> HIDE DEF o
<1>5. \A w \in {0, 1} : o.flags # PENDING(w)
  BY <1>4 DEF PENDING, PENDING_NONE
<1> QED
  BY <1>1, <1>3, <1>5, PropagatedOrderly

LEMMA FiresOrderly ==
  ASSUME TypeOK, AllOrderly, ResetWithoutX, NotOverruled,
         NEW g \in Gate, NEW i \in DOMAIN ob[g].queue, Fires(g, i), ~warned'
  PROVE  AllOrderly'
<1> DEFINE n == Out[g]
           v == ob[g].queue[i]
           killed == {h \in Gate \ {g} : Out[h] \in Rivals(n, v)}
           os == [h \in Gate |-> IF h = g THEN Delivered(ob[g], i)
                                 ELSE IF h \in killed THEN Flush(ob[h]) ELSE ob[h]]
           told == Told(Fanout(n), os, Stored(n, v))
<1>1. /\ Allowed(n, v)
      /\ val' = [val EXCEPT ![n] = v]
      /\ ob' = IF v = X /\ told[g].flags = PENDING_NONE
                 THEN [told EXCEPT ![g] = Rechecked(g, told[g], val')] ELSE told
      /\ resetMode' = resetMode
  BY DEF Fires, Stored, Told
<1>2. told = [h \in Gate |-> IF h \in Fanout(n) THEN Propagated(h, os[h], val') ELSE os[h]]
  BY <1>1 DEF Told, Stored
<1>3. \A h \in Fanout(n) : ~Warns(h, os[h], val')
  BY DEF Fires, Reported
<1>4. ob \in [Gate -> Queued] /\ n \in Node /\ v \in Value /\ val \in [Node -> Value]
  BY OutAssumption, DeliveredType DEF TypeOK
<1>5. val'[n] = v /\ \A m \in Node \ {n} : val'[m] = val[m]
  BY <1>1, <1>4
<1>6. ASSUME NEW h \in Gate
      PROVE  /\ Well(os[h]) /\ os[h].flags \in {PENDING_NONE, ob[h].flags}
             /\ resetMode => Ready(os[h])
             /\ h # g => os[h] = IF h \in killed THEN Flush(ob[h]) ELSE ob[h]
             /\ h = g => os[h] = Delivered(ob[g], i)
  <2>1. Well(ob[h]) /\ (resetMode => Ready(ob[h]))
    BY DEF AllOrderly, Orderly
  <2>2. CASE h = g
    <3>1. /\ Well(Delivered(ob[g], i)) /\ Delivered(ob[g], i).flags \in {PENDING_NONE, ob[g].flags}
          /\ v # X => Delivered(ob[g], i).flags = PENDING_NONE
      BY <2>1, <2>2, DeliveredWell
    <3>2. resetMode => v # X
      BY DEF ResetWithoutX, NoXPending, Range
    <3> QED
      BY <2>2, <3>1, <3>2 DEF Ready
  <2>3. CASE h # g
    BY <2>1, <2>3, FlushWell
  <2> QED
    BY <2>2, <2>3
<1> HIDE DEF os, told
<1>7. ASSUME NEW h \in Gate, NEW w \in {0, 1}, os[h].flags = PENDING(w)
      PROVE  /\ val'[Out[h]] # w
             /\ PullOf(w, Up(h, val'), Dn(h, val')).is = 1 => ~Asked(1 - w, Up(h, val'), Dn(h, val'))
  <2>1. ob[h].flags = PENDING(w)
    BY <1>6, <1>7 DEF PENDING, PENDING_NONE
  <2>2. val[Out[h]] # w
    BY <2>1 DEF AllOrderly, Orderly, Agrees
  <2>3. CASE h = g
    <3>1. v = X
      BY <1>6, <1>7, <2>3, DeliveredWell DEF AllOrderly, Orderly, PENDING, PENDING_NONE
    <3> QED
      BY <1>5, <2>1, <2>3, <3>1 DEF NotOverruled, X
  <2>4. CASE h # g
    <3>1. val'[Out[h]] = val[Out[h]]
      BY <1>5, <2>4, OutAssumption
    <3> QED
      BY <2>1, <2>2, <3>1 DEF NotOverruled
  <2> QED
    BY <2>3, <2>4
<1>8. ASSUME NEW h \in Gate, h \in Fanout(n)
      PROVE  Orderly(h, told[h], val') /\ (resetMode => Ready(told[h]))
  <2>1. told[h] = Propagated(h, os[h], val')
    BY <1>2, <1>8
  <2>2. Well(os[h]) /\ (Ready(os[h]) \/ (~resetMode /\ ~Warns(h, os[h], val')))
    BY <1>3, <1>6, <1>8
  <2>3. /\ Orderly(h, Propagated(h, os[h], val'), val')
        /\ Ready(os[h]) => Ready(Propagated(h, os[h], val'))
    BY <1>7, <2>2, PropagatedOrderly
  <2> QED
    BY <1>6, <2>1, <2>3
<1>9. ASSUME NEW h \in Gate, h \notin Fanout(n), h # g
      PROVE  Orderly(h, os[h], val') /\ (resetMode => Ready(os[h]))
  <2>1. Out[h] # n /\ Orderly(h, ob[h], val)
    BY <1>9, OutAssumption DEF AllOrderly
  <2>2. Orderly(h, os[h], val)
    <3>1. CASE h \in killed
      <4>1. val[Out[h]] = 1 - v /\ v \in {0, 1} /\ Rivals(Out[h], v) # {}
        BY <1>1, <1>4, <3>1, RivalFacts DEF Allowed, Value
      <4> QED
        BY <1>6, <1>9, <2>1, <3>1, <4>1, FlushOrderly
    <3>2. CASE h \notin killed
      BY <1>6, <1>9, <2>1, <3>2
    <3> QED
      BY <3>1, <3>2
  <2> QED
    BY <1>5, <1>6, <1>9, <2>1, <2>2, UnheardOrderly
<1> HIDE DEF killed
<1>10. ASSUME NEW h \in Gate, h # g
       PROVE  Orderly(h, ob'[h], val') /\ (resetMode => Ready(ob'[h]))
  <2>1. ob'[h] = told[h]
    BY <1>1, <1>2, <1>10
  <2> QED
    BY <1>2, <1>8, <1>9, <1>10, <2>1
<1>11. Orderly(g, ob'[g], val') /\ (resetMode => Ready(ob'[g]))
  <2>1. Well(told[g]) /\ (resetMode => v # X)
    <3>1. Well(told[g])
      BY <1>2, <1>6, <1>8 DEF Orderly
    <3> QED
      BY <3>1 DEF ResetWithoutX, NoXPending, Range
  <2>2. CASE v = X /\ told[g].flags = PENDING_NONE
    <3>1. ob'[g] = Rechecked(g, told[g], val')
      BY <1>1, <1>2, <2>2
    <3> QED
      BY <2>1, <2>2, <3>1, RecheckedOrderly
  <2>3. CASE ~(v = X /\ told[g].flags = PENDING_NONE) /\ g \in Fanout(n)
    BY <1>1, <1>8, <2>3
  <2>4. CASE ~(v = X /\ told[g].flags = PENDING_NONE) /\ g \notin Fanout(n)
    <3> DEFINE o == Delivered(ob[g], i)
               u == Up(g, val')
               d == Dn(g, val')
    <3>1. ob'[g] = o /\ told[g] = o /\ Well(o) /\ (resetMode => Ready(o))
      BY <1>1, <1>2, <1>6, <2>4
    <3>2. /\ u = Up(g, val) /\ d = Dn(g, val)
      BY <1>5, <2>4, PullSame
    <3>3. Agrees(ob[g], val[n], u, d) /\ Answered(n, val[n], ob[g], u, d) /\ Well(ob[g])
      BY <3>2 DEF AllOrderly, Orderly
    <3>4. /\ o.flags \in {PENDING_NONE, ob[g].flags}
          /\ v # X => ob[g].flags = PENDING(v) /\ o.flags = PENDING_NONE
          /\ ob[g].flags = PENDING(v) => o.flags = PENDING_NONE
      BY <3>3, DeliveredWell
    <3>5. v = X => o.flags # PENDING_NONE /\ o.flags = ob[g].flags
      BY <2>4, <3>1, <3>4
    <3> HIDE DEF o, u, d
    <3>6. Agrees(o, v, u, d)
      <4>1. CASE v = X
        BY <3>3, <3>5, <4>1 DEF Agrees, X
      <4>2. CASE v # X
        BY <3>4, <4>2, NoneAgrees
      <4> QED
        BY <4>1, <4>2
    <3>7. Answered(n, v, o, u, d)
      <4> SUFFICES ASSUME NEW w \in {0, 1}, Asked(w, u, d), v # w, Rivals(n, w) = {}
                   PROVE  o.flags = PENDING(w)
        BY DEF Answered
      <4>1. 1 - w \in {0, 1} /\ 1 - (1 - w) = w
        OBVIOUS
      <4>2. ob[g].flags # PENDING(1 - w)
        BY <3>3, <4>1 DEF Agrees
      <4>3. CASE v = X
        <5>1. ob[g].flags \in 0 .. 3 /\ ob[g].flags # PENDING_NONE /\ ob[g].flags # PENDING(X)
          BY <3>4, <3>5, <4>3, <3>3 DEF Well, Queued
        <5>2. ob[g].flags = PENDING(w)
          BY <4>2, <5>1 DEF PENDING, PENDING_NONE, X
        <5> QED
          BY <3>5, <4>3, <5>2
      <4>4. CASE v # X
        <5>1. v = 1 - w
          BY <1>4, <4>4 DEF Value
        <5> QED
          BY <3>4, <4>2, <4>4, <5>1
      <4> QED
        BY <4>3, <4>4
    <3> QED
      BY <1>5, <3>1, <3>6, <3>7 DEF Orderly, u, d
  <2> QED
    BY <2>2, <2>3, <2>4
<1> QED
  BY <1>1, <1>10, <1>11 DEF AllOrderly

(* The event that is refused is the change that is pending.                *)
LEMMA RefusedOrderly ==
  ASSUME TypeOK, AllOrderly, NEW g \in Gate, NEW i \in DOMAIN ob[g].queue, Refused(g, i)
  PROVE  AllOrderly'
<1> DEFINE n == Out[g]
           v == ob[g].queue[i]
           u == Up(g, val)
           d == Dn(g, val)
           o == Delivered(ob[g], i)
<1>1. /\ Well(ob[g]) /\ Agrees(ob[g], val[n], u, d) /\ Answered(n, val[n], ob[g], u, d)
  BY DEF AllOrderly, Orderly
<1>2. Rivals(n, v) # {} /\ v # X
  BY RivalFacts DEF Refused, Allowed, MayLose
<1>3. Well(o) /\ ob[g].flags = PENDING(v) /\ o.flags = PENDING_NONE /\ v \in Value
  BY <1>1, <1>2, DeliveredWell
<1>4. [o EXCEPT !.flags = PENDING_NONE] = o
  BY <1>3 DEF Well, Queued
<1>5. /\ val' = val /\ resetMode' = resetMode
      /\ ob' = [ob EXCEPT ![g] = [o EXCEPT !.flags = PENDING_NONE]]
  BY DEF Refused, TypeOK
<1> HIDE DEF o
<1>6. ob' = [ob EXCEPT ![g] = o]
  BY <1>4, <1>5
<1>7. Agrees(o, val[n], u, d) /\ Ready(o)
  BY <1>3, NoneAgrees DEF Ready
<1>8. Answered(n, val[n], o, u, d)
  <2> SUFFICES ASSUME NEW w \in {0, 1}, Asked(w, u, d), val[n] # w, Rivals(n, w) = {} PROVE FALSE
    BY DEF Answered
  <2>1. PENDING(v) = PENDING(w)
    BY <1>1, <1>3 DEF Answered
  <2>2. v = w
    BY <1>3, <2>1 DEF PENDING, Value, X
  <2> QED
    BY <1>2, <2>2
<1>9. Orderly(g, o, val)
  BY <1>3, <1>7, <1>8 DEF Orderly
<1> QED
  BY <1>5, <1>6, <1>7, <1>9 DEF AllOrderly, TypeOK

LEMMA EnvSetOrderly ==
  ASSUME TypeOK, AllOrderly, NotOverruled, NEW s \in Stimuli, EnvSet(s), ~warned'
  PROVE  AllOrderly'
<1> SUFFICES ASSUME NEW g \in Gate PROVE Orderly(g, ob'[g], val') /\ (resetMode => Ready(ob'[g]))
  BY DEF AllOrderly, EnvSet
<1>1. /\ val' = [val EXCEPT ![s.node] = s.to]
      /\ ob'[g] = IF g \in Fanout(s.node) THEN Propagated(g, ob[g], val') ELSE ob[g]
  BY DEF EnvSet, Stored, Told
<1>2. g \in Fanout(s.node) => ~Warns(g, ob[g], val')
  BY DEF EnvSet, Reported
<1>3. Orderly(g, ob[g], val) /\ Well(ob[g]) /\ (resetMode => Ready(ob[g]))
  BY DEF AllOrderly, Orderly
<1>4. Out[g] # s.node /\ Out[g] \in Node /\ \A m \in Node \ {s.node} : val'[m] = val[m]
  BY <1>1, StimuliAssumption, OutAssumption DEF TypeOK
<1>5. CASE g \in Fanout(s.node)
  <2>1. ASSUME NEW w \in {0, 1}, ob[g].flags = PENDING(w)
        PROVE  /\ val'[Out[g]] # w
               /\ PullOf(w, Up(g, val'), Dn(g, val')).is = 1
                    => ~Asked(1 - w, Up(g, val'), Dn(g, val'))
    BY <1>3, <1>4, <2>1 DEF Orderly, Agrees, NotOverruled
  <2>2. Ready(ob[g]) \/ (~resetMode /\ ~Warns(g, ob[g], val'))
    BY <1>2, <1>3, <1>5
  <2>3. /\ Orderly(g, Propagated(g, ob[g], val'), val')
        /\ Ready(ob[g]) => Ready(Propagated(g, ob[g], val'))
    BY <1>3, <2>1, <2>2, PropagatedOrderly
  <2> QED
    BY <1>1, <1>3, <1>5, <2>3
<1>6. CASE g \notin Fanout(s.node)
  <2>1. Orderly(g, ob[g], val')
    BY <1>3, <1>4, <1>6, UnheardOrderly
  <2> QED
    BY <1>1, <1>3, <1>6, <2>1
<1> QED
  BY <1>5, <1>6

(* As long as nothing is reported every object has one change pending at   *)
(* most, the one its rules ask for.                                        *)
THEOREM OrderlyInvariant ==
  Spec /\ []ResetWithoutX /\ [][NotOverruled]_vars => [](~warned => AllOrderly)
<1> DEFINE Inv == ~warned => AllOrderly
<1>1. Init => Inv
  BY InitOrderly
<1>2. TypeOK /\ Inv /\ ResetWithoutX /\ [Next]_vars /\ [NotOverruled]_vars => Inv'
  <2> SUFFICES ASSUME TypeOK, Inv, ResetWithoutX, [Next]_vars, [NotOverruled]_vars, ~warned'
               PROVE  AllOrderly'
    OBVIOUS
  <2>1. CASE UNCHANGED vars
    BY <2>1 DEF vars, AllOrderly
  <2>2. ASSUME Next, NotOverruled PROVE AllOrderly'
    <3>1. ~warned
      BY <2>2 DEF Next, Step, Fires, Refused, EnvSet, EndReset, Reported, TypeOK
    <3>2. AllOrderly
      BY <3>1
    <3>3. ASSUME NEW g \in Gate, Step(g) PROVE AllOrderly'
      BY <2>2, <3>2, <3>3, FiresOrderly, RefusedOrderly DEF Step
    <3>4. ASSUME NEW s \in Stimuli, EnvSet(s) PROVE AllOrderly'
      BY <2>2, <3>2, <3>4, EnvSetOrderly
    <3>5. CASE EndReset
      BY <3>2, <3>5 DEF EndReset, AllOrderly
    <3> QED
      BY <2>2, <3>3, <3>4, <3>5 DEF Next
  <2> QED
    BY <2>1, <2>2
<1> QED
  BY <1>1, <1>2, TypeCorrect, PTL DEF Spec

(* A node is not left contradicting its rules in silence, in any circuit   *)
(* and whatever the delays, provided that no weak rule is overruled while  *)
(* its change is pending and that no X is pending in reset mode: then a    *)
(* change is withdrawn without a warning when it cannot be taken back.     *)
THEOREM NeverSilentlyWrong ==
  Spec /\ []ResetWithoutX /\ [][NotOverruled]_vars => []NotSilentlyWrong
<1>1. (~warned => AllOrderly) => NotSilentlyWrong
  <2> SUFFICES ASSUME AllOrderly, Idle, NEW g \in Gate, NEW w \in {0, 1},
                      Asked(w, Up(g, val), Dn(g, val)), val[Out[g]] # w, Rivals(Out[g], w) = {}
               PROVE  FALSE
    BY DEF NotSilentlyWrong, Asked
  <2>1. ob[g].flags = PENDING(w)
    BY DEF AllOrderly, Orderly, Answered
  <2>2. w \in Range(ob[g].queue)
    BY <2>1 DEF AllOrderly, Orderly, Well, Listed, Value
  <2> QED
    BY <2>2 DEF Idle, Range
<1> QED
  BY <1>1, OrderlyInvariant, PTL

(* An object has one event in the queue at most and the flags name it, in  *)
(* every circuit without hazards: nothing is reported, no X is pending, no *)
(* weak rule is overruled while its change is pending.                     *)
THEOREM OneEventEach ==
  Spec /\ [](~warned /\ NoXPending) /\ [][NotOverruled]_vars => []OneEvent
<1>1. AllOrderly /\ NoXPending => OneEvent
  <2> SUFFICES ASSUME AllOrderly, NoXPending, NEW g \in Gate
               PROVE  ob[g].queue = IF ob[g].flags = PENDING_NONE THEN <<>> ELSE <<ob[g].flags - 1>>
    BY DEF OneEvent
  <2> DEFINE s == ob[g].queue
  <2>1. /\ s \in Seq(Value) /\ ob[g].flags \in 0 .. 3
        /\ \A w \in Value : ob[g].flags = PENDING(w) => w \in Range(s)
        /\ \A i, j \in DOMAIN s : s[i] # X /\ s[j] # X => i = j
        /\ \A e \in Range(s) : e # X => ob[g].flags = PENDING(e)
    BY DEF AllOrderly, Orderly, Well, Listed, OneChange, Queued
  <2>2. Len(s) \in Nat /\ DOMAIN s = 1 .. Len(s)
    BY <2>1
  <2> HIDE DEF s
  <2>3. \A i \in DOMAIN s : s[i] # X /\ ob[g].flags = PENDING(s[i]) /\ s[i] \in Value
    BY <2>1 DEF NoXPending, Range, s
  <2>4. CASE s = <<>>
    <3>1. Range(s) = {}
      BY <2>4 DEF Range
    <3>2. \A w \in Value : ob[g].flags # PENDING(w)
      BY <2>1, <3>1
    <3>3. ob[g].flags = PENDING_NONE
      BY <2>1, <3>2 DEF PENDING, PENDING_NONE, Value, X
    <3> QED
      BY <2>4, <3>3 DEF s
  <2>5. CASE s # <<>>
    <3>1. Len(s) # 0
      BY <2>1, <2>5, EmptySeq
    <3>2. 1 \in DOMAIN s /\ Len(s) \in DOMAIN s
      BY <2>2, <3>1
    <3>3. Len(s) = 1
      BY <2>1, <2>3, <3>2
    <3>4. s = <<s[1]>>
      BY <2>1, <3>3
    <3>5. ob[g].flags # PENDING_NONE /\ ob[g].flags - 1 = s[1]
      BY <2>3, <3>2 DEF PENDING, PENDING_NONE, Value, X
    <3> QED
      BY <3>4, <3>5 DEF s
  <2> QED
    BY <2>4, <2>5
<1>2. ~warned /\ NoXPending => ResetWithoutX
  BY DEF ResetWithoutX
<1> QED
  BY <1>1, <1>2, OrderlyInvariant, PTL

(* Where no rule is weak none is overruled.                                *)
THEOREM PlainRules ==
  ASSUME \A g \in Gate : ~HasWeak(g)
  PROVE  /\ Spec /\ []ResetWithoutX => []NotSilentlyWrong
         /\ Spec /\ [](~warned /\ NoXPending) => []OneEvent
<1>1. NotOverruled
  <2> SUFFICES ASSUME NEW g \in Gate, NEW w \in {0, 1},
                      PullOf(w, Up(g, val'), Dn(g, val')).is = 1,
                      Asked(1 - w, Up(g, val'), Dn(g, val'))
               PROVE  FALSE
    BY DEF NotOverruled
  <2> QED
    BY NoWeakPull DEF PullOf, Asked, Wins
<1> QED
  BY <1>1, NeverSilentlyWrong, OneEventEach, PTL
-----------------------------------------------------------------------------
(* What the rules mean (ProductionRules), and what the simulator makes of  *)
(* them.  A guard that evaluates to 1 is true, one that evaluates to 0 is  *)
(* false whatever the unknown nodes turn out to be.                        *)
LEMMA LiteralMeans ==
  ASSUME NEW l \in [node : Node, is : {0, 1}], NEW v \in [Node -> Value]
  PROVE  /\ Literal(l, v) \in Value
         /\ Literal(l, v) = 1 <=> v[l.node] = l.is
         /\ Literal(l, v) = 0 <=> v[l.node] = 1 - l.is
<1>1. v[l.node] \in {0, 1, 2} /\ l.is \in {0, 1}
  BY DEF Value, X
<1> QED
  BY <1>1 DEF Literal, Not, Value, X

LEMMA EvalMeans ==
  ASSUME NEW guard \in Guard, NEW v \in [Node -> Value]
  PROVE  /\ Eval(guard, v) = 1 => \E conj \in guard : \A l \in conj : v[l.node] = l.is
         /\ Eval(guard, v) = 0 => \A conj \in guard : \E l \in conj : v[l.node] = 1 - l.is
<1> DEFINE lits(conj) == {Literal(l, v) : l \in conj}
<1>1. ASSUME NEW conj \in guard
      PROVE  /\ lits(conj) \subseteq Value
             /\ 1 \in lits(conj) <=> \E l \in conj : v[l.node] = l.is
             /\ 0 \in lits(conj) <=> \E l \in conj : v[l.node] = 1 - l.is
             /\ lits(conj) \subseteq {1} => \A l \in conj : v[l.node] = l.is
  <2>1. \A l \in conj : l \in [node : Node, is : {0, 1}]
    BY DEF Guard
  <2> QED
    BY <2>1, LiteralMeans
<1> DEFINE all == {AndOf(lits(conj)) : conj \in guard}
<1>2. Eval(guard, v) = OrOf(all)
  BY DEF Eval
<1> HIDE DEF lits
<1>3. ASSUME Eval(guard, v) = 1
      PROVE  \E conj \in guard : \A l \in conj : v[l.node] = l.is
  <2>1. PICK conj \in guard : AndOf(lits(conj)) = 1
    <3>1. 1 \in all
      <4> HIDE DEF all
      <4> QED
        BY <1>2, <1>3 DEF OrOf, X
    <3> QED
      BY <3>1
  <2>2. lits(conj) \subseteq {1}
    BY <1>1, <2>1 DEF AndOf, Value, X
  <2> QED
    BY <1>1, <2>2
<1>4. ASSUME Eval(guard, v) = 0, NEW conj \in guard
      PROVE  \E l \in conj : v[l.node] = 1 - l.is
  <2>1. AndOf(lits(conj)) \notin {1, X}
    <3>1. 1 \notin all /\ X \notin all
      <4> HIDE DEF all
      <4> QED
        BY <1>2, <1>4 DEF OrOf, X
    <3> QED
      BY <3>1
  <2>2. 0 \in lits(conj)
    BY <2>1 DEF AndOf
  <2> QED
    BY <1>1, <2>2
<1> QED
  BY <1>3, <1>4

(* A pull that is on comes from a driver that is on.  One that is off may  *)
(* not be: where a node has several drivers the last of them decides, and  *)
(* an unknown one before it is not seen.                                   *)
Evals(g, part, v) == [i \in DOMAIN Drivers[g] |-> Eval(Drivers[g][i][part], v)]
Hidden(g, part, v) ==
  Scan(Evals(g, part, v)) = 0 /\ \E i \in DOMAIN Drivers[g] : Eval(Drivers[g][i][part], v) # 0

StrongPart(w) == IF w = 1 THEN "up" ELSE "dn"
WeakPart(w) == IF w = 1 THEN "upw" ELSE "dnw"
PartOf(w, weak) == IF weak THEN WeakPart(w) ELSE StrongPart(w)

LEMMA ScanOn ==
  ASSUME NEW g \in Gate, NEW part, NEW v, Scan(Evals(g, part, v)) = 1
  PROVE  \E i \in DOMAIN Drivers[g] : Eval(Drivers[g][i][part], v) = 1
<1> DEFINE vals == Evals(g, part, v)
<1>1. DOMAIN vals = DOMAIN Drivers[g] /\ Len(Drivers[g]) \in DOMAIN Drivers[g]
      /\ Len(vals) = Len(Drivers[g])
  BY DriverTypes, EmptySeq DEF Evals
<1>2. \A i \in DOMAIN Drivers[g] : vals[i] = Eval(Drivers[g][i][part], v)
  BY DEF Evals
<1> HIDE DEF vals
<1>3. 1 \in Range(vals) \/ vals[Len(vals)] = 1
  BY DEF Scan, Last, vals
<1>4. \E i \in DOMAIN Drivers[g] : vals[i] = 1
  BY <1>1, <1>3 DEF Range
<1> QED
  BY <1>2, <1>4

LEMMA PullIs ==
  ASSUME NEW g \in Gate, NEW v, NEW w \in {0, 1}
  PROVE  LET p == PullOf(w, Up(g, v), Dn(g, v))
             s == Scan(Evals(g, StrongPart(w), v))
         IN /\ p.weak \in BOOLEAN
            /\ p.is = Scan(Evals(g, PartOf(w, p.weak), v)) \/ p.is = 0
            /\ p.is = 0 \/ p.weak => s = 0
            /\ p.is = 0 => Scan(Evals(g, WeakPart(w), v)) = 0
<1>1. PullOf(w, Up(g, v), Dn(g, v)) = Pull(g, StrongPart(w), WeakPart(w), v)
  BY DEF PullOf, Up, Dn, StrongPart, WeakPart
<1> DEFINE strong == Scan(Evals(g, StrongPart(w), v))
           weak == Scan(Evals(g, WeakPart(w), v))
<1>2. Pull(g, StrongPart(w), WeakPart(w), v) =
        IF strong # 0 THEN [is |-> strong, weak |-> FALSE] ELSE [is |-> weak, weak |-> weak # 0]
  BY DEF Pull, Evals
<1> HIDE DEF strong, weak
<1>3. CASE strong # 0
  BY <1>1, <1>2, <1>3 DEF PartOf, strong
<1>4. CASE strong = 0 /\ weak # 0
  <2> DEFINE p == PullOf(w, Up(g, v), Dn(g, v))
  <2>1. p.is = weak /\ p.weak = TRUE
    <3>1. p = [is |-> weak, weak |-> TRUE]
      BY <1>1, <1>2, <1>4
    <3> HIDE DEF p
    <3> QED
      BY <3>1
  <2> HIDE DEF p
  <2>2. PartOf(w, p.weak) = WeakPart(w)
    BY <2>1 DEF PartOf
  <2>3. p.is = Scan(Evals(g, PartOf(w, p.weak), v)) /\ p.is # 0
    BY <1>4, <2>1, <2>2 DEF weak
  <2> QED
    BY <1>4, <2>1, <2>3 DEF strong, p
<1>5. CASE strong = 0 /\ weak = 0
  BY <1>1, <1>2, <1>5 DEF PartOf, strong, weak
<1> QED
  BY <1>3, <1>4, <1>5

(* The rules of a gate, one for each part of each driver.                  *)
RuleAt(g, i, w, weak) ==
  [node |-> Out[g], to |-> w, guard |-> Drivers[g][i][PartOf(w, weak)], weak |-> weak]

LEMMA RulesAre ==
  ASSUME NEW g \in Gate
  PROVE  /\ \A i \in DOMAIN Drivers[g] : \A w \in {0, 1} : \A weak \in BOOLEAN :
              RuleAt(g, i, w, weak) \in RulesOf(g)
         /\ \A r \in RulesOf(g) :
              \E i \in DOMAIN Drivers[g] : \E w \in {0, 1} : \E weak \in BOOLEAN :
                r = RuleAt(g, i, w, weak)
<1> DEFINE rules(i) ==
      LET r == Drivers[g][i]
          rule(to, guard, weak) == [node |-> Out[g], to |-> to, guard |-> guard, weak |-> weak]
      IN {rule(1, r.up, FALSE), rule(1, r.upw, TRUE), rule(0, r.dn, FALSE), rule(0, r.dnw, TRUE)}
<1>1. ASSUME NEW i \in DOMAIN Drivers[g]
      PROVE  rules(i) = {RuleAt(g, i, 1, FALSE), RuleAt(g, i, 1, TRUE),
                         RuleAt(g, i, 0, FALSE), RuleAt(g, i, 0, TRUE)}
  BY DEF RuleAt, PartOf, StrongPart, WeakPart
<1>2. RulesOf(g) = UNION {rules(i) : i \in DOMAIN Drivers[g]}
  BY DEF RulesOf
<1> HIDE DEF rules
<1>3. ASSUME NEW i \in DOMAIN Drivers[g], NEW w \in {0, 1}, NEW weak \in BOOLEAN
      PROVE  RuleAt(g, i, w, weak) \in rules(i)
  BY <1>1
<1>4. ASSUME NEW i \in DOMAIN Drivers[g], NEW r \in rules(i)
      PROVE  \E w \in {0, 1} : \E weak \in BOOLEAN : r = RuleAt(g, i, w, weak)
  BY <1>1
<1> QED
  BY <1>2, <1>3, <1>4

-----------------------------------------------------------------------------
(* No object has a change pending while its rules interfere: the X that    *)
(* interference asks for replaces it.  This needs nothing of the circuit.  *)
Resolved(g, o, v) ==
  o.flags \in {PENDING(0), PENDING(1)} => ~Interfere(Up(g, v), Dn(g, v))
AllResolved == \A g \in Gate : Resolved(g, ob[g], val)

LEMMA PropagatedResolved ==
  ASSUME NEW g, NEW o, NEW v PROVE Resolved(g, Propagated(g, o, v), v)
<1> DEFINE u == Up(g, v)
           d == Dn(g, v)
           cur == v[Out[g]]
<1> SUFFICES ASSUME Interfere(u, d) PROVE Propagated(g, o, v).flags \notin {PENDING(0), PENDING(1)}
  BY DEF Resolved
<1>1. ~Wins(u, d) /\ ~Wins(d, u)
  BY DEF Interfere
<1>2. ASSUME NEW p PROVE Decide(p, cur, u, d) = MakeNodeX(p, cur)
  BY <1>1 DEF Decide
<1>3. ASSUME NEW p PROVE MakeNodeX(p, cur).flags \notin {PENDING(0), PENDING(1)}
  <2>1. CASE cur # X /\ p.flags = PENDING(X)
    BY <2>1 DEF MakeNodeX, PENDING, X
  <2>2. CASE cur # X /\ p.flags # PENDING(X)
    BY <2>2 DEF MakeNodeX, Post, PENDING, X
  <2>3. CASE cur = X /\ p.flags \notin {PENDING(0), PENDING(1)}
    BY <2>3 DEF MakeNodeX
  <2>4. CASE cur = X /\ p.flags \in {PENDING(0), PENDING(1)}
    BY <2>4 DEF MakeNodeX, Removed, PENDING, PENDING_NONE
  <2> QED
    BY <2>1, <2>2, <2>3, <2>4
<1> QED
  BY <1>2, <1>3 DEF Propagated

LEMMA RecheckedResolved ==
  ASSUME NEW g, NEW o, o.flags = PENDING_NONE, NEW v
  PROVE  Resolved(g, Rechecked(g, o, v), v)
<1>1. CASE Wins(Up(g, v), Dn(g, v)) \/ Wins(Dn(g, v), Up(g, v))
  BY <1>1 DEF Resolved, Interfere
<1>2. CASE ~(Wins(Up(g, v), Dn(g, v)) \/ Wins(Dn(g, v), Up(g, v)))
  BY <1>2 DEF Resolved, Rechecked, PENDING, PENDING_NONE
<1> QED
  BY <1>1, <1>2

LEMMA FiresResolved ==
  ASSUME TypeOK, AllResolved, NEW g \in Gate, NEW i \in DOMAIN ob[g].queue, Fires(g, i)
  PROVE  AllResolved'
<1> DEFINE n == Out[g]
           v == ob[g].queue[i]
           killed == {h \in Gate \ {g} : Out[h] \in Rivals(n, v)}
           os == [h \in Gate |-> IF h = g THEN Delivered(ob[g], i)
                                 ELSE IF h \in killed THEN Flush(ob[h]) ELSE ob[h]]
           told == Told(Fanout(n), os, Stored(n, v))
<1>1. /\ val' = [val EXCEPT ![n] = v]
      /\ ob' = IF v = X /\ told[g].flags = PENDING_NONE
                 THEN [told EXCEPT ![g] = Rechecked(g, told[g], val')] ELSE told
  BY DEF Fires, Stored, Told
<1>2. told = [h \in Gate |-> IF h \in Fanout(n) THEN Propagated(h, os[h], val') ELSE os[h]]
  BY <1>1 DEF Told, Stored
<1>3. ASSUME NEW h \in Gate PROVE os[h].flags \in {ob[h].flags, PENDING_NONE}
  BY DEF Delivered, Flush, Removed
<1> HIDE DEF killed, os, told
<1>4. ASSUME NEW h \in Gate PROVE Resolved(h, told[h], val')
  <2>1. CASE h \in Fanout(n)
    BY <1>2, <2>1, PropagatedResolved
  <2>2. CASE h \notin Fanout(n)
    <3>1. \A m \in Node \ {n} : val'[m] = val[m]
      BY <1>1 DEF TypeOK
    <3>2. Up(h, val') = Up(h, val) /\ Dn(h, val') = Dn(h, val)
      BY <2>2, <3>1, PullSame
    <3> QED
      BY <1>2, <1>3, <2>2, <3>2 DEF AllResolved, Resolved, PENDING, PENDING_NONE
  <2> QED
    BY <2>1, <2>2
<1>5. ASSUME NEW h \in Gate PROVE Resolved(h, ob'[h], val')
  <2>1. CASE v = X /\ told[g].flags = PENDING_NONE /\ h = g
    BY <1>1, <1>2, <2>1, RecheckedResolved
  <2>2. CASE ~(v = X /\ told[g].flags = PENDING_NONE /\ h = g)
    BY <1>1, <1>2, <1>4, <2>2
  <2> QED
    BY <2>1, <2>2
<1> QED
  BY <1>5 DEF AllResolved

LEMMA ResolvedStep ==
  ASSUME TypeOK, AllResolved, [Next]_vars
  PROVE  AllResolved'
<1>1. ASSUME NEW g \in Gate, NEW i \in DOMAIN ob[g].queue, Refused(g, i) PROVE AllResolved'
  <2>1. val' = val /\ \A h \in Gate : ob'[h].flags \in {ob[h].flags, PENDING_NONE}
    BY <1>1 DEF Refused, TypeOK
  <2> QED
    BY <2>1 DEF AllResolved, Resolved, PENDING, PENDING_NONE
<1>2. ASSUME NEW s \in Stimuli, EnvSet(s) PROVE AllResolved'
  <2> DEFINE n == s.node
  <2>1. val' = [val EXCEPT ![n] = s.to] /\ ob' = Told(Fanout(n), ob, val')
    BY <1>2 DEF EnvSet, Stored
  <2> SUFFICES ASSUME NEW h \in Gate PROVE Resolved(h, ob'[h], val')
    BY DEF AllResolved
  <2>2. CASE h \in Fanout(n)
    BY <2>1, <2>2, PropagatedResolved DEF Told
  <2>3. CASE h \notin Fanout(n)
    <3>1. \A m \in Node \ {n} : val'[m] = val[m]
      BY <2>1 DEF TypeOK
    <3>2. Up(h, val') = Up(h, val) /\ Dn(h, val') = Dn(h, val)
      BY <2>3, <3>1, PullSame
    <3> QED
      BY <2>1, <2>3, <3>2 DEF AllResolved, Resolved, Told
  <2> QED
    BY <2>2, <2>3
<1>3. CASE EndReset \/ UNCHANGED vars
  BY <1>3 DEF EndReset, vars, AllResolved
<1> QED
  BY <1>1, <1>2, <1>3, FiresResolved DEF Next, Step

LEMMA ResolvedInvariant == Spec => []AllResolved
<1>1. Init => AllResolved
  BY PropagatedResolved DEF Init, Told, AllResolved
<1>2. TypeOK /\ AllResolved /\ [Next]_vars => AllResolved'
  BY ResolvedStep
<1> QED
  BY <1>1, <1>2, TypeCorrect, PTL DEF Spec
-----------------------------------------------------------------------------
(* The hazard of a node with several drivers: a change that wins has an    *)
(* opponent that may be on and that is not seen.                           *)
NothingHidden ==
  \A g \in Gate : \A w \in {0, 1} :
    Asked(w, Up(g, val), Dn(g, val)) =>
      /\ ~Hidden(g, StrongPart(1 - w), val)
      /\ PullOf(w, Up(g, val), Dn(g, val)).weak => ~Hidden(g, WeakPart(1 - w), val)

LEMMA WinnerFires ==
  ASSUME TypeOK, NothingHidden, NEW g \in Gate, NEW w \in {0, 1},
         Asked(w, Up(g, val), Dn(g, val)), val[Out[g]] # w, Allowed(Out[g], w),
         val' = [val EXCEPT ![Out[g]] = w]
  PROVE  \E r \in RulesOf(g) : R!Fire(r)
<1> DEFINE p == PullOf(w, Up(g, val), Dn(g, val))
           q == PullOf(1 - w, Up(g, val), Dn(g, val))
<1>1. /\ p.is = 1 /\ p.weak \in BOOLEAN
      /\ q.is = 0 \/ (~p.weak /\ q.weak)
      /\ q.weak \in BOOLEAN
      /\ p.is = Scan(Evals(g, PartOf(w, p.weak), val)) \/ p.is = 0
      /\ q.is = 0 \/ q.weak => Scan(Evals(g, StrongPart(1 - w), val)) = 0
      /\ q.is = 0 => Scan(Evals(g, WeakPart(1 - w), val)) = 0
  <2>1. 1 - w \in {0, 1}
    OBVIOUS
  <2>2. p.is = 1 /\ (q.is = 0 \/ (~p.weak /\ q.weak))
    BY DEF Asked, PullOf, Wins
  <2> QED
    BY <2>1, <2>2, PullIs
<1> DEFINE weak == p.weak
<1>2. /\ ~Hidden(g, StrongPart(1 - w), val)
      /\ weak => ~Hidden(g, WeakPart(1 - w), val)
  BY DEF NothingHidden
<1> HIDE DEF p, q
<1>3. PICK i \in DOMAIN Drivers[g] : Eval(Drivers[g][i][PartOf(w, weak)], val) = 1
  BY <1>1, ScanOn
<1> DEFINE r == RuleAt(g, i, w, weak)
<1>4. r \in RulesOf(g) /\ r.node = Out[g] /\ r.to = w /\ r.weak = weak
      /\ r.guard = Drivers[g][i][PartOf(w, weak)]
  BY <1>1, RulesAre DEF RuleAt
<1>5. \A j \in DOMAIN Drivers[g] : \A to \in {0, 1} : \A b \in BOOLEAN :
        Drivers[g][j][PartOf(to, b)] \in Guard
  BY DriverTypes DEF PartOf, StrongPart, WeakPart
<1>6. R!On(r)
  BY <1>1, <1>3, <1>4, <1>5, EvalMeans DEF R!On, TypeOK
<1>7. ~R!Opposed(r)
  <2> SUFFICES ASSUME NEW h \in Gate, NEW s \in RulesOf(h), s.node = r.node, s.to # r.to,
                      R!MayBeOn(s), r.weak \/ ~s.weak
               PROVE  FALSE
    BY DEF R!Opposed
  <2>1. PICK j \in DOMAIN Drivers[h] : \E to \in {0, 1} : \E b \in BOOLEAN : s = RuleAt(h, j, to, b)
    BY RulesAre
  <2>2. PICK to \in {0, 1}, b \in BOOLEAN : s = RuleAt(h, j, to, b)
    BY <2>1
  <2>3. h = g /\ to = 1 - w /\ s.weak = b /\ s.guard = Drivers[g][j][PartOf(1 - w, b)]
        /\ j \in DOMAIN Drivers[g]
    BY <1>4, <2>2, OutAssumption DEF RuleAt
  <2>4. Eval(Drivers[g][j][PartOf(1 - w, b)], val) = 0
    <3>1. CASE b
      <4>1. weak /\ q.is = 0
        BY <1>1, <1>4, <2>3, <3>1
      <4>2. PartOf(1 - w, b) = WeakPart(1 - w)
        BY <3>1 DEF PartOf
      <4> QED
        BY <1>1, <1>2, <2>3, <4>1, <4>2 DEF Hidden
    <3>2. CASE ~b
      <4>1. PartOf(1 - w, b) = StrongPart(1 - w)
        BY <3>2 DEF PartOf
      <4> QED
        BY <1>1, <1>2, <2>3, <4>1 DEF Hidden
    <3> QED
      BY <3>1, <3>2
  <2>5. \A conj \in s.guard : \E l \in conj : val[l.node] = 1 - l.is
    BY <1>5, <2>3, <2>4, EvalMeans DEF TypeOK
  <2> QED
    BY <2>5 DEF R!MayBeOn
<1>8. ~R!Excluded(Out[g], w)
  <2>1. (IF w = 1 THEN ExclHi ELSE ExclLo) = Excl(w)
    BY DEF Excl
  <2>2. \A S \in R!Range(Excl(w)) : S \in Range(Excl(w))
    BY DEF R!Range, Range
  <2>3. \A S \in Range(Excl(w)) : Out[g] \in S => S \ {Out[g]} \subseteq Rivals(Out[g], w)
    BY DEF Rivals
  <2> QED
    BY <2>1, <2>2, <2>3 DEF R!Excluded, Allowed
<1> HIDE DEF r
<1>9. R!Fire(r)
  BY <1>4, <1>6, <1>7, <1>8 DEF R!Fire
<1> QED
  BY <1>4, <1>9

(* A hazard-free circuit does through the event queue only what its rules  *)
(* do: whenever a node changes, a rule whose guard is true, that nothing   *)
(* opposes and no exclusion forbids, changes it.  The hazards that have to *)
(* stay away are named: a warning, a pending X, an overruled weak rule, an *)
(* opponent that is not seen.                                              *)
THEOREM RefinesRules ==
  Spec /\ [](~warned /\ NoXPending /\ NothingHidden) /\ [][NotOverruled]_vars
    => R!Init /\ [][R!Next]_(R!vars)
<1>1. Init => R!Init
  BY DEF Init, R!Init, X
<1>2. TypeOK /\ AllOrderly /\ AllResolved /\ NoXPending /\ NothingHidden /\ [Next]_vars
        => [R!Next]_(R!vars)
  <2> SUFFICES ASSUME TypeOK, AllOrderly, AllResolved, NoXPending, NothingHidden, [Next]_vars
               PROVE  [R!Next]_(R!vars)
    OBVIOUS
  <2> USE DEF R!vars
  <2>1. ASSUME NEW g \in Gate, NEW i \in DOMAIN ob[g].queue, Fires(g, i) PROVE R!Next
    <3> DEFINE w == ob[g].queue[i]
               u == Up(g, val)
               d == Dn(g, val)
    <3>1. w \in {0, 1} /\ w \in Range(ob[g].queue)
      <4>1. w \in Value
        BY DeliveredType DEF TypeOK
      <4> QED
        BY <4>1 DEF NoXPending, Range, Value
    <3>2. ob[g].flags = PENDING(w)
      BY <3>1 DEF AllOrderly, Orderly, Well, OneChange, X
    <3>3. val[Out[g]] # w /\ PullOf(w, u, d).is = 1 /\ ~Asked(1 - w, u, d)
      BY <3>1, <3>2 DEF AllOrderly, Orderly, Agrees
    <3>4. ~Interfere(u, d)
      BY <3>1, <3>2 DEF AllResolved, Resolved
    <3>5. Asked(w, u, d)
      BY <3>1, <3>3, <3>4 DEF Interfere, Asked, PullOf, Wins
    <3>6. Allowed(Out[g], w) /\ val' = [val EXCEPT ![Out[g]] = w]
      BY <2>1 DEF Fires, Stored
    <3> HIDE DEF w
    <3>7. \E r \in RulesOf(g) : R!Fire(r)
      BY <3>1, <3>3, <3>5, <3>6, WinnerFires
    <3> QED
      BY <3>7 DEF R!Next
  <2>2. ASSUME NEW s \in Stimuli, EnvSet(s) PROVE R!Next
    <3>1. R!Input(s)
      BY <2>2 DEF EnvSet, Possible, Stored, R!Input
    <3> QED
      BY <3>1 DEF R!Next
  <2>3. ASSUME NEW g \in Gate, NEW i \in DOMAIN ob[g].queue, Refused(g, i) PROVE val' = val
    BY <2>3 DEF Refused
  <2>4. CASE EndReset \/ UNCHANGED vars
    BY <2>4 DEF EndReset, vars
  <2> QED
    BY <2>1, <2>2, <2>3, <2>4 DEF Next, Step
<1>3. ~warned /\ NoXPending => ResetWithoutX
  BY DEF ResetWithoutX
<1> QED
  BY <1>1, <1>2, <1>3, OrderlyInvariant, ResolvedInvariant, TypeCorrect, PTL DEF Spec

(* With one driver and no weak rule for each node, hazards are warnings    *)
(* and pending X's only.                                                   *)
THEOREM RefinesPlainRules ==
  ASSUME \A g \in Gate : ~HasWeak(g) /\ Len(Drivers[g]) = 1
  PROVE  Spec /\ [](~warned /\ NoXPending) => R!Init /\ [][R!Next]_(R!vars)
<1>1. NothingHidden
  <2> SUFFICES ASSUME NEW g \in Gate, NEW part, Hidden(g, part, val) PROVE FALSE
    BY DEF NothingHidden
  <2> DEFINE vals == Evals(g, part, val)
  <2>1. DOMAIN vals = {1} /\ Len(vals) = 1 /\ vals[1] = Eval(Drivers[g][1][part], val)
        /\ DOMAIN Drivers[g] = {1}
    BY DriverTypes DEF Evals
  <2>2. Eval(Drivers[g][1][part], val) # 0 /\ Scan(vals) = 0
    BY <2>1 DEF Hidden
  <2> HIDE DEF vals
  <2>3. 1 \notin Range(vals) /\ vals[1] = 0
    BY <2>1, <2>2 DEF Scan, Last
  <2> QED
    BY <2>1, <2>2, <2>3
<1>2. NotOverruled
  <2> SUFFICES ASSUME NEW g \in Gate, NEW w \in {0, 1},
                      PullOf(w, Up(g, val'), Dn(g, val')).is = 1,
                      Asked(1 - w, Up(g, val'), Dn(g, val'))
               PROVE  FALSE
    BY DEF NotOverruled
  <2> QED
    BY NoWeakPull DEF PullOf, Asked, Wins
<1> QED
  BY <1>1, <1>2, RefinesRules, PTL

-----------------------------------------------------------------------------
(* The handle of the pending event.  It outlives the event in two ways: an *)
(* X that was to be left is kept after all, and then the flags are clear   *)
(* and nothing is taken back before something is posted; or an exclusion   *)
(* has killed the event.                                                   *)
Alone(g) == \A w \in {0, 1} : Rivals(Out[g], w) = {}
Handled(o, cur) == o.pending = "stale" => o.flags = PENDING_NONE /\ cur = X
AllHandled == \A g \in Gate : Alone(g) => Handled(ob[g], val[Out[g]])

LEMMA DecideHandled ==
  ASSUME NEW o, NEW cur, NEW u, NEW d, Handled(o, cur)
  PROVE  /\ Handled(MakeNodeX(o, cur), cur)
         /\ \A v : Handled(DoSetVal(o, cur, v), cur)
         /\ Handled(Decide(o, cur, u, d), cur)
<1>1. Handled(MakeNodeX(o, cur), cur)
  <2>1. CASE cur # X
    BY <2>1 DEF Handled, MakeNodeX, Post
  <2>2. CASE cur = X
    BY <2>2 DEF Handled, MakeNodeX, Removed
  <2> QED
    BY <2>1, <2>2
<1>2. \A v : Handled(DoSetVal(o, cur, v), cur)
  BY DEF Handled, DoSetVal, Post
<1> QED
  BY <1>1, <1>2 DEF Decide

LEMMA PropagatedHandled ==
  ASSUME NEW g, NEW o, NEW v, Handled(o, v[Out[g]])
  PROVE  /\ Handled(Propagated(g, o, v), v[Out[g]])
         /\ o.pending = "stale" => ~Removes(g, o, v)
<1> DEFINE cur == v[Out[g]]
           u == Up(g, v)
           d == Dn(g, v)
           p == IF Unstable(o, u, d) THEN MakeNodeX(o, cur) ELSE o
<1>1. Handled(p, cur)
  BY DecideHandled
<1>2. Propagated(g, o, v) = Decide(p, cur, u, d)
  BY DEF Propagated
<1>3. Handled(Propagated(g, o, v), cur)
  <2> HIDE DEF p, cur, u, d
  <2> QED
    BY <1>1, <1>2, DecideHandled
<1>4. o.pending = "stale" => ~Unstable(o, u, d)
  BY DEF Handled, Unstable, PENDING, PENDING_NONE
<1> QED
  BY <1>3, <1>4 DEF Handled, Removes

LEMMA FiresHandled ==
  ASSUME TypeOK, AllHandled, NEW g \in Gate, NEW i \in DOMAIN ob[g].queue, Fires(g, i)
  PROVE  AllHandled' /\ ((\A h \in Gate : Alone(h)) => misused' = misused)
<1> DEFINE n == Out[g]
           v == ob[g].queue[i]
           killed == {h \in Gate \ {g} : Out[h] \in Rivals(n, v)}
           os == [h \in Gate |-> IF h = g THEN Delivered(ob[g], i)
                                 ELSE IF h \in killed THEN Flush(ob[h]) ELSE ob[h]]
           told == Told(Fanout(n), os, Stored(n, v))
<1>1. /\ val' = [val EXCEPT ![n] = v]
      /\ ob' = IF v = X /\ told[g].flags = PENDING_NONE
                 THEN [told EXCEPT ![g] = Rechecked(g, told[g], val')] ELSE told
      /\ misused' = (misused \/ (\E h \in killed : ob[h].pending = "stale")
                     \/ \E h \in Fanout(n) : os[h].pending = "stale" /\ Removes(h, os[h], val'))
  BY DEF Fires, Stored, Told, Reported
<1>2. told = [h \in Gate |-> IF h \in Fanout(n) THEN Propagated(h, os[h], val') ELSE os[h]]
  BY <1>1 DEF Told, Stored
<1>3. n \in Node /\ val \in [Node -> Value] /\ v \in Value
  BY OutAssumption, DeliveredType DEF TypeOK
<1>4. ASSUME NEW h \in Gate, Alone(h)
      PROVE  h \notin killed /\ Handled(os[h], val'[Out[h]])
  <2>1. h \notin killed
    <3>1. ASSUME h \in killed PROVE FALSE
      <4>1. n \in Rivals(Out[h], v) /\ v # X
        BY <3>1, RivalFacts
      <4> QED
        BY <1>3, <1>4, <4>1 DEF Alone, Value
    <3> QED
      BY <3>1
  <2>2. CASE h = g
    <3>1. os[h].pending = "null"
      BY <2>2 DEF Delivered
    <3> QED
      BY <2>1, <3>1 DEF Handled
  <2>3. CASE h # g
    <3>1. os[h] = ob[h] /\ Out[h] # n
      BY <2>1, <2>3, OutAssumption
    <3>2. val'[Out[h]] = val[Out[h]]
      BY <1>1, <1>3, <3>1, OutAssumption
    <3> QED
      BY <1>4, <2>1, <3>1, <3>2 DEF AllHandled
  <2> QED
    BY <2>2, <2>3
<1> HIDE DEF killed, os, told
<1>5. ASSUME NEW h \in Gate, Alone(h)
      PROVE  Handled(told[h], val'[Out[h]]) /\ ~(os[h].pending = "stale" /\ Removes(h, os[h], val'))
  BY <1>2, <1>4, <1>5, PropagatedHandled
<1>6. ASSUME NEW h \in Gate, Alone(h)
      PROVE  Handled(ob'[h], val'[Out[h]])
  <2>1. CASE h = g /\ v = X /\ told[g].flags = PENDING_NONE
    <3>1. ob'[h] = Rechecked(g, told[g], val')
      BY <1>1, <1>2, <2>1
    <3> QED
      BY <1>5, <1>6, <2>1, <3>1, DecideHandled DEF Rechecked
  <2>2. CASE ~(h = g /\ v = X /\ told[g].flags = PENDING_NONE)
    <3>1. ob'[h] = told[h]
      BY <1>1, <1>2, <2>2
    <3> QED
      BY <1>5, <1>6, <3>1
  <2> QED
    BY <2>1, <2>2
<1>7. (\A h \in Gate : Alone(h)) => misused' = misused
  <2>1. Fanout(n) \subseteq Gate /\ killed \subseteq Gate
    BY DEF Fanout, killed
  <2> QED
    BY <1>1, <1>4, <1>5, <2>1 DEF TypeOK
<1> QED
  BY <1>6, <1>7 DEF AllHandled, Alone

LEMMA RefusedHandled ==
  ASSUME TypeOK, AllHandled, NEW g \in Gate, NEW i \in DOMAIN ob[g].queue, Refused(g, i)
  PROVE  AllHandled' /\ misused' = misused
<1>1. val' = val /\ misused' = misused
  BY DEF Refused
<1>2. \A h \in Gate : ob'[h] = ob[h] \/ ob'[h].pending = "null"
  BY DEF Refused, Delivered, TypeOK
<1> QED
  BY <1>1, <1>2 DEF AllHandled, Alone, Handled

LEMMA EnvSetHandled ==
  ASSUME TypeOK, AllHandled, NEW s \in Stimuli, EnvSet(s)
  PROVE  AllHandled' /\ ((\A h \in Gate : Alone(h)) => misused' = misused)
<1>1. /\ val' = [val EXCEPT ![s.node] = s.to]
      /\ ob' = [h \in Gate |-> IF h \in Fanout(s.node) THEN Propagated(h, ob[h], val') ELSE ob[h]]
      /\ misused' = (misused \/ FALSE
                     \/ \E h \in Fanout(s.node) : ob[h].pending = "stale" /\ Removes(h, ob[h], val'))
  BY DEF EnvSet, Stored, Told, Reported
<1>2. ASSUME NEW h \in Gate, Alone(h)
      PROVE  Handled(ob[h], val'[Out[h]])
  <2>1. val'[Out[h]] = val[Out[h]]
    BY <1>1, StimuliAssumption, OutAssumption DEF TypeOK
  <2> QED
    BY <1>2, <2>1 DEF AllHandled
<1>3. ASSUME NEW h \in Gate, Alone(h)
      PROVE  Handled(ob'[h], val'[Out[h]]) /\ ~(ob[h].pending = "stale" /\ Removes(h, ob[h], val'))
  BY <1>1, <1>2, <1>3, PropagatedHandled
<1>4. Fanout(s.node) \subseteq Gate
  BY DEF Fanout
<1> QED
  BY <1>1, <1>3, <1>4 DEF AllHandled, Alone, TypeOK

LEMMA InitHandled == Init => AllHandled
<1> SUFFICES ASSUME Init, NEW g \in Gate PROVE Handled(ob[g], val[Out[g]])
  BY DEF AllHandled
<1> DEFINE o == [flags |-> PENDING_NONE, queue |-> <<>>, pending |-> "null"]
<1>1. ob[g] = Propagated(g, o, val)
  BY DEF Init, Told
<1>2. Handled(o, val[Out[g]])
  BY DEF Handled
<1> HIDE DEF o
<1> QED
  BY <1>1, <1>2, PropagatedHandled

LEMMA HandledStep ==
  ASSUME TypeOK, AllHandled, [Next]_vars
  PROVE  AllHandled' /\ ((\A h \in Gate : Alone(h)) => misused' = misused)
<1>1. CASE UNCHANGED vars
  BY <1>1 DEF vars, AllHandled, Alone
<1>2. ASSUME NEW g \in Gate, Step(g)
      PROVE  AllHandled' /\ ((\A h \in Gate : Alone(h)) => misused' = misused)
  BY <1>2, FiresHandled, RefusedHandled DEF Step
<1>3. ASSUME NEW s \in Stimuli, EnvSet(s)
      PROVE  AllHandled' /\ ((\A h \in Gate : Alone(h)) => misused' = misused)
  BY <1>3, EnvSetHandled
<1>4. CASE EndReset
  BY <1>4 DEF EndReset, AllHandled, Alone
<1> QED
  BY <1>1, <1>2, <1>3, <1>4 DEF Next

(* Whatever hazards the circuit has, the handle of a node without          *)
(* exclusions is stale only while the node is X and its flags are clear.   *)
THEOREM HandlesInvariant == Spec => []AllHandled
BY InitHandled, HandledStep, TypeCorrect, PTL DEF Spec

(* Remove is called on an event that is no longer in the queue only where  *)
(* there are exclusions: never in a circuit without, hazards included.     *)
THEOREM NeverStale ==
  ASSUME \A g \in Gate : Alone(g)
  PROVE  Spec => []NoStaleRemoval
<1>1. Init => NoStaleRemoval
  BY DEF Init, NoStaleRemoval
<1>2. TypeOK /\ AllHandled /\ NoStaleRemoval /\ [Next]_vars => NoStaleRemoval'
  BY HandledStep DEF NoStaleRemoval
<1> QED
  BY <1>1, <1>2, HandlesInvariant, TypeCorrect, PTL DEF Spec

(* When nothing is left to happen the rules are satisfied, in a circuit    *)
(* without exclusions that reports nothing, overrules no pending weak rule *)
(* and has no pending X in reset mode.                                     *)
THEOREM RulesSettle ==
  ASSUME \A g \in Gate : Alone(g)
  PROVE  Spec /\ [](~warned /\ ResetWithoutX) /\ [][NotOverruled]_vars => []Settled
<1>1. NotSilentlyWrong /\ ~warned => Settled
  BY DEF NotSilentlyWrong, Settled, Alone
<1>2. ~warned /\ ResetWithoutX => ResetWithoutX
  OBVIOUS
<1> QED
  BY <1>1, <1>2, NeverSilentlyWrong, PTL

-----------------------------------------------------------------------------
(* Hazards, told by the values of the nodes alone.  The rules of g insist  *)
(* on a change of its node to w, which the exclusions leave open.          *)
Insists(g, w, v) == v[Out[g]] # w /\ Asked(w, Up(g, v), Dn(g, v))
Open(n, w, v) == \A m \in Rivals(n, w) : v[m] = 1 - w

(* No rules contradict each other, or would make a node X.                 *)
Quiet(g, v) ==
  LET cur == v[Out[g]]
      u == Up(g, v)
      d == Dn(g, v)
  IN /\ Interfere(u, d) => resetMode /\ cur = X /\ ~(u.is = 1 /\ d.is = 1)
     /\ ~(d.is = 0 /\ u.is = X /\ cur = 0)
     /\ ~(u.is = 0 /\ d.is = X /\ cur = 1)
AllQuiet == \A g \in Gate : Quiet(g, val)

(* A change that is open stays asked for until it is made, or until an     *)
(* exclusion lets another node make it.                                    *)
Granted(n, w) == \E m \in Rivals(n, w) : val'[m] = w /\ val[m] # w
Firm ==
  \A g \in Gate : \A w \in {0, 1} :
    Insists(g, w, val) /\ Open(Out[g], w, val)
      => val'[Out[g]] = w \/ Granted(Out[g], w) \/ Asked(w, Up(g, val'), Dn(g, val'))

(* No input of a gate changes while an exclusion closes what it asks for.  *)
Heard ==
  \A g \in Gate : \A w \in {0, 1} :
    (\E n \in Node : val'[n] # val[n] /\ Mentions(g, n)) /\ Insists(g, w, val')
      => Open(Out[g], w, val')

Opening == \A g \in Gate : \A w \in {0, 1} : Insists(g, w, val) => Open(Out[g], w, val)

(* An object has no event, or the one its rules insist on.                 *)
Bare(o) == o.flags = PENDING_NONE /\ o.queue = <<>> /\ o.pending # "last"
Bound(o, w) == o.flags = PENDING(w) /\ o.queue = <<w>> /\ o.pending = "last"
Calm(g, o, v) ==
  Bare(o) \/ \E w \in {0, 1} : Bound(o, w) /\ Insists(g, w, v) /\ Open(Out[g], w, v)
AllCalm == \A g \in Gate : Calm(g, ob[g], val)

(* No change is forgotten that the exclusions leave open.                  *)
Held(g, o, v) ==
  \A w \in {0, 1} : Insists(g, w, v) /\ Open(Out[g], w, v) => Bound(o, w)
AllHeld == \A g \in Gate : Held(g, ob[g], val)

LEMMA OpenIsAllowed == ASSUME NEW n, NEW w PROVE Open(n, w, val) <=> Allowed(n, w)
BY DEF Open, Allowed

LEMMA DoSetValCalm ==
  ASSUME NEW o \in Queued, NEW cur, NEW w \in {0, 1},
         Bare(o) \/ (Bound(o, w) /\ cur # w)
  PROVE  \/ Bare(DoSetVal(o, cur, w))
         \/ Bound(DoSetVal(o, cur, w), w) /\ cur # w
<1>1. CASE cur = w
  BY <1>1 DEF DoSetVal
<1>2. CASE cur # w /\ Bare(o)
  <2>1. o.flags # PENDING(w)
    BY <1>2 DEF Bare, PENDING, PENDING_NONE
  <2>2. DoSetVal(o, cur, w) = Post(o, w)
    BY <1>2, <2>1 DEF DoSetVal
  <2>3. Append(<<>>, w) = <<w>>
    OBVIOUS
  <2> QED
    BY <1>2, <2>2, <2>3 DEF Bare, Bound, Post
<1>3. CASE cur # w /\ Bound(o, w)
  BY <1>3 DEF DoSetVal, Bound
<1> QED
  BY <1>1, <1>2, <1>3

LEMMA BareMakesNoX ==
  ASSUME NEW o, Bare(o) PROVE MakeNodeX(o, X) = o
BY DEF Bare, MakeNodeX, PENDING, PENDING_NONE

(* Where the rules are quiet propagate reports nothing: it posts the       *)
(* change they insist on, or leaves the object as it is.                   *)
LEMMA PropagatedCalm ==
  ASSUME NEW g, NEW o \in Queued, NEW v, Quiet(g, v), Calm(g, o, v),
         \A w \in {0, 1} : Insists(g, w, v) => Open(Out[g], w, v)
  PROVE  Calm(g, Propagated(g, o, v), v) /\ ~Warns(g, o, v)
<1> DEFINE cur == v[Out[g]]
           u == Up(g, v)
           d == Dn(g, v)
<1>1. ~Unstable(o, u, d)
  <2>1. CASE Bare(o)
    BY <2>1 DEF Bare, Unstable, PENDING, PENDING_NONE
  <2>2. ASSUME NEW w \in {0, 1}, Bound(o, w), Insists(g, w, v) PROVE ~Unstable(o, u, d)
    BY <2>2 DEF Bound, Insists, Asked, Wins, Unstable, PENDING
  <2> QED
    BY <2>1, <2>2 DEF Calm
<1>2. Propagated(g, o, v) = Decide(o, cur, u, d)
  BY <1>1 DEF Propagated
<1>3. ~Warns(g, o, v)
  BY <1>1 DEF Warns, Quiet
<1>4. ASSUME NEW w \in {0, 1}, Asked(w, u, d)
      PROVE  Calm(g, Propagated(g, o, v), v)
  <2>1. Propagated(g, o, v) = DoSetVal(o, cur, w)
    BY <1>2, <1>4, DecideByAsked
  <2>2. Bare(o) \/ (Bound(o, w) /\ cur # w)
    <3>1. ASSUME NEW x \in {0, 1}, Bound(o, x), Insists(g, x, v) PROVE Bound(o, w) /\ cur # w
      <4>1. x = w
        BY <1>4, <3>1, OneWinner DEF Insists, Asked
      <4> QED
        BY <3>1, <4>1 DEF Insists
    <3> QED
      BY <3>1 DEF Calm
  <2>3. \/ Bare(DoSetVal(o, cur, w))
        \/ Bound(DoSetVal(o, cur, w), w) /\ cur # w
    BY <2>2, DoSetValCalm
  <2>4. cur # w => Insists(g, w, v) /\ Open(Out[g], w, v)
    BY <1>4 DEF Insists
  <2> QED
    BY <2>1, <2>3, <2>4 DEF Calm
<1>5. CASE \A w \in {0, 1} : ~Asked(w, u, d)
  <2>1. Bare(o)
    BY <1>5 DEF Calm, Insists
  <2>2. CASE Decide(o, cur, u, d) = o
    BY <1>2, <1>3, <2>1, <2>2 DEF Calm
  <2>3. CASE Decide(o, cur, u, d) = MakeNodeX(o, cur) /\ Interfere(u, d)
    BY <1>2, <1>3, <2>1, <2>3, BareMakesNoX DEF Calm, Quiet
  <2> QED
    BY <1>5, <2>2, <2>3, DecideByAsked DEF Quiet
<1> QED
  BY <1>3, <1>4, <1>5

LEMMA PropagatedHeld ==
  ASSUME NEW g, NEW o \in Queued, NEW v, Quiet(g, v), Calm(g, o, v),
         \A w \in {0, 1} : Insists(g, w, v) => Open(Out[g], w, v)
  PROVE  Held(g, Propagated(g, o, v), v)
<1> SUFFICES ASSUME NEW w \in {0, 1}, Insists(g, w, v) PROVE Bound(Propagated(g, o, v), w)
  BY DEF Held
<1> DEFINE cur == v[Out[g]]
           u == Up(g, v)
           d == Dn(g, v)
<1>1. Asked(w, u, d) /\ cur # w
  BY DEF Insists
<1>2. \A x \in {0, 1} : Insists(g, x, v) => x = w
  BY <1>1, OneWinner DEF Insists, Asked
<1>3. Bare(o) \/ (Bound(o, w) /\ cur # w)
  BY <1>1, <1>2 DEF Calm
<1>4. ~Unstable(o, u, d)
  BY <1>1, <1>3 DEF Bare, Bound, Unstable, Asked, Wins, PENDING, PENDING_NONE
<1>5. Propagated(g, o, v) = DoSetVal(o, cur, w)
  BY <1>1, <1>4, DecideByAsked DEF Propagated
<1>6. DoSetVal(o, cur, w).flags = PENDING(w)
  BY <1>1 DEF DoSetVal, Post
<1>7. \/ Bare(DoSetVal(o, cur, w))
      \/ Bound(DoSetVal(o, cur, w), w)
  BY <1>3, DoSetValCalm
<1>8. PENDING(w) # PENDING_NONE
  BY DEF PENDING, PENDING_NONE
<1> QED
  BY <1>5, <1>6, <1>7, <1>8 DEF Bare

LEMMA FlushCalm ==
  ASSUME NEW o \in Queued, NEW g, NEW v, Calm(g, o, v)
  PROVE  Bare(Flush(o))
<1>1. CASE Bare(o)
  BY <1>1 DEF Bare, Flush, Removed, Queued, PENDING_NONE
<1>2. ASSUME NEW w, Bound(o, w) PROVE Bare(Flush(o))
  <2>1. Front(<<w>>) = <<>>
    BY DEF Front
  <2> QED
    BY <1>2, <2>1 DEF Bound, Bare, Flush, Removed, Queued, PENDING_NONE
<1> QED
  BY <1>1, <1>2 DEF Calm

LEMMA DeliveredCalm ==
  ASSUME NEW o \in Queued, NEW g, NEW v, Calm(g, o, v), NEW i \in DOMAIN o.queue
  PROVE  /\ Bare(Delivered(o, i))
         /\ o.queue[i] \in {0, 1} /\ Bound(o, o.queue[i])
         /\ Insists(g, o.queue[i], v) /\ Open(Out[g], o.queue[i], v)
<1>1. PICK w \in {0, 1} : Bound(o, w) /\ Insists(g, w, v) /\ Open(Out[g], w, v)
  BY DEF Calm, Bare
<1>2. i = 1 /\ o.queue[i] = w
  BY <1>1 DEF Bound
<1>3. RemoveAt(<<w>>, 1) = <<>>
  BY DEF RemoveAt
<1>4. Bare(Delivered(o, i))
  BY <1>1, <1>2, <1>3 DEF Bound, Bare, Delivered
<1> QED
  BY <1>1, <1>2, <1>4

(* A gate that hears of nothing keeps what it has, as long as its own node *)
(* and the nodes that its change depends on stay where they are.           *)
LEMMA UnheardInsists ==
  ASSUME NEW g \in Gate, NEW n, g \notin Fanout(n), Out[g] # n,
         NEW v, NEW v2, \A m \in Node \ {n} : v2[m] = v[m], NEW w, Insists(g, w, v)
  PROVE  Insists(g, w, v2)
<1>1. v2[Out[g]] = v[Out[g]]
  BY OutAssumption
<1>2. Up(g, v2) = Up(g, v) /\ Dn(g, v2) = Dn(g, v)
  BY PullSame
<1> QED
  BY <1>1, <1>2 DEF Insists

LEMMA InitCalm == ASSUME Init, AllQuiet, Opening PROVE ~warned /\ AllCalm
<1> SUFFICES ASSUME NEW g \in Gate PROVE Calm(g, ob[g], val)
  BY DEF AllCalm, Init
<1> DEFINE o == [flags |-> PENDING_NONE, queue |-> <<>>, pending |-> "null"]
<1>1. ob[g] = Propagated(g, o, val)
  BY DEF Init, Told
<1>2. o \in Queued /\ Bare(o)
  BY DEF Queued, Bare, PENDING_NONE
<1> HIDE DEF o
<1> QED
  BY <1>1, <1>2, PropagatedCalm DEF AllQuiet, Opening, Calm

LEMMA FiresCalm ==
  ASSUME TypeOK, AllCalm, ~warned, AllQuiet', Firm, Heard,
         NEW g \in Gate, NEW i \in DOMAIN ob[g].queue, Fires(g, i)
  PROVE  AllCalm' /\ ~warned' /\ \A h \in Fanout(Out[g]) : Held(h, ob'[h], val')
<1> DEFINE n == Out[g]
           v == ob[g].queue[i]
           killed == {h \in Gate \ {g} : Out[h] \in Rivals(n, v)}
           os == [h \in Gate |-> IF h = g THEN Delivered(ob[g], i)
                                 ELSE IF h \in killed THEN Flush(ob[h]) ELSE ob[h]]
           told == Told(Fanout(n), os, Stored(n, v))
<1>1. /\ val' = [val EXCEPT ![n] = v]
      /\ ob' = IF v = X /\ told[g].flags = PENDING_NONE
                 THEN [told EXCEPT ![g] = Rechecked(g, told[g], val')] ELSE told
      /\ warned' = (warned \/ \E h \in Fanout(n) : Warns(h, os[h], val'))
      /\ resetMode' = resetMode
  BY DEF Fires, Stored, Told, Reported
<1>2. told = [h \in Gate |-> IF h \in Fanout(n) THEN Propagated(h, os[h], val') ELSE os[h]]
  BY <1>1 DEF Told, Stored
<1>3. /\ ob \in [Gate -> Queued] /\ n \in Node /\ val \in [Node -> Value]
      /\ Fanout(n) \subseteq Gate
  BY OutAssumption DEF TypeOK, Fanout
<1>4. v \in {0, 1} /\ Bare(Delivered(ob[g], i)) /\ val[n] # v
  BY <1>3, DeliveredCalm DEF AllCalm, Insists
<1>5. val'[n] = v /\ \A m \in Node \ {n} : val'[m] = val[m]
  BY <1>1, <1>3
<1>6. \A h \in Gate : os[h] \in Queued
  BY <1>3, DeliveredType, FlushType
<1>7. ASSUME NEW h \in Gate, h \notin killed, h # g, NEW w \in {0, 1},
             Insists(h, w, val), Open(Out[h], w, val)
      PROVE  Insists(h, w, val') /\ Open(Out[h], w, val')
  <2>1. Out[h] # n /\ val'[Out[h]] = val[Out[h]]
    BY <1>5, <1>7, OutAssumption
  <2>2. v = w => n \notin Rivals(Out[h], w)
    BY <1>7, RivalFacts
  <2>3. ~Granted(Out[h], w)
    <3>1. ASSUME NEW m \in Rivals(Out[h], w), val'[m] = w, val[m] # w PROVE FALSE
      <4>1. m \in Node /\ m = n
        BY <1>5, <3>1, ExclAssumption DEF Rivals, Excl, Range
      <4> QED
        BY <1>5, <2>2, <3>1, <4>1
    <3> QED
      BY <3>1 DEF Granted
  <2>4. Asked(w, Up(h, val'), Dn(h, val'))
    BY <1>7, <2>1, <2>3 DEF Firm, Insists
  <2>5. Open(Out[h], w, val')
    <3> SUFFICES ASSUME NEW m \in Rivals(Out[h], w) PROVE val'[m] = 1 - w
      BY DEF Open
    <3>1. m \in Node /\ val[m] = 1 - w
      BY <1>7, ExclAssumption DEF Open, Rivals, Excl, Range
    <3>2. m # n
      BY <1>4, <2>2, <3>1
    <3> QED
      BY <1>5, <3>1, <3>2
  <2> QED
    BY <1>7, <2>1, <2>4, <2>5 DEF Insists
<1>8. ASSUME NEW h \in Gate
      PROVE  Calm(h, os[h], val')
  <2>1. CASE h = g
    BY <1>4, <2>1 DEF Calm
  <2>2. CASE h # g /\ h \in killed
    <3>1. Bare(Flush(ob[h]))
      BY <1>3, FlushCalm DEF AllCalm
    <3> QED
      BY <2>2, <3>1 DEF Calm
  <2>3. CASE h # g /\ h \notin killed
    <3>1. os[h] = ob[h] /\ Calm(h, ob[h], val)
      BY <2>3 DEF AllCalm
    <3> HIDE DEF os, killed
    <3> QED
      BY <1>7, <2>3, <3>1 DEF Calm
  <2> QED
    BY <2>1, <2>2, <2>3
<1> HIDE DEF os, killed, told
<1>9. ASSUME NEW h \in Gate, h \in Fanout(n)
      PROVE  /\ Calm(h, Propagated(h, os[h], val'), val') /\ ~Warns(h, os[h], val')
             /\ Held(h, Propagated(h, os[h], val'), val')
  <2>1. Quiet(h, val')
    BY <1>1 DEF AllQuiet, Quiet
  <2>2. \A w \in {0, 1} : Insists(h, w, val') => Open(Out[h], w, val')
    BY <1>3, <1>4, <1>5, <1>9 DEF Heard, Fanout
  <2> QED
    BY <1>6, <1>8, <2>1, <2>2, PropagatedCalm, PropagatedHeld
<1>10. ob' = told
  BY <1>1, <1>4 DEF X
<1>11. AllCalm'
  <2> SUFFICES ASSUME NEW h \in Gate PROVE Calm(h, ob'[h], val')
    BY DEF AllCalm, Calm, Insists, Open
  <2> QED
    BY <1>2, <1>8, <1>9, <1>10
<1>12. \A h \in Fanout(n) : Held(h, ob'[h], val')
  BY <1>2, <1>3, <1>9, <1>10
<1> QED
  BY <1>1, <1>3, <1>9, <1>11, <1>12

LEMMA RefusedCalm ==
  ASSUME TypeOK, AllCalm, NEW g \in Gate, NEW i \in DOMAIN ob[g].queue, Refused(g, i)
  PROVE  AllCalm'
<1> DEFINE o == Delivered(ob[g], i)
<1>1. ob[g] \in Queued /\ Bare(o) /\ o \in Queued
  BY DeliveredCalm, DeliveredType DEF AllCalm, TypeOK
<1>2. val' = val /\ ob' = [ob EXCEPT ![g] = [o EXCEPT !.flags = PENDING_NONE]]
  BY DEF Refused, TypeOK
<1> HIDE DEF o
<1>3. [o EXCEPT !.flags = PENDING_NONE] = o
  BY <1>1 DEF Bare, Queued
<1>4. ASSUME NEW h \in Gate PROVE Calm(h, ob'[h], val)
  BY <1>1, <1>2, <1>3 DEF AllCalm, Calm, TypeOK
<1> QED
  BY <1>2, <1>4 DEF AllCalm, Calm, Insists, Open

LEMMA EnvSetCalm ==
  ASSUME TypeOK, AllCalm, ~warned, AllQuiet', Firm, Heard, NEW s \in Stimuli, EnvSet(s)
  PROVE  AllCalm' /\ ~warned' /\ \A h \in Fanout(s.node) : Held(h, ob'[h], val')
<1>1. /\ val' = [val EXCEPT ![s.node] = s.to] /\ val[s.node] # s.to
      /\ ob' = [h \in Gate |-> IF h \in Fanout(s.node) THEN Propagated(h, ob[h], val') ELSE ob[h]]
      /\ warned' = (warned \/ \E h \in Fanout(s.node) : Warns(h, ob[h], val'))
      /\ resetMode' = resetMode
  BY DEF EnvSet, Possible, Stored, Told, Reported
<1>2. /\ s.node \in Node /\ s.node \notin Grouped /\ \A h \in Gate : Out[h] # s.node
      /\ val'[s.node] = s.to /\ \A m \in Node \ {s.node} : val'[m] = val[m]
  BY <1>1, StimuliAssumption DEF TypeOK
<1>3. \A n, w : \A m \in Rivals(n, w) : m \in Node \ {s.node}
  BY <1>2, ExclAssumption DEF Rivals, Excl, Grouped, Range
<1>4. ASSUME NEW h \in Gate, NEW w \in {0, 1}, Insists(h, w, val), Open(Out[h], w, val)
      PROVE  Insists(h, w, val') /\ Open(Out[h], w, val')
  <2>1. val'[Out[h]] = val[Out[h]]
    BY <1>2, OutAssumption
  <2>2. Open(Out[h], w, val') /\ ~Granted(Out[h], w)
    BY <1>2, <1>3, <1>4 DEF Open, Granted
  <2> QED
    BY <1>4, <2>1, <2>2 DEF Firm, Insists
<1>5. ASSUME NEW h \in Gate PROVE Calm(h, ob[h], val')
  BY <1>4 DEF AllCalm, Calm
<1>6. ASSUME NEW h \in Gate, h \in Fanout(s.node)
      PROVE  /\ Calm(h, Propagated(h, ob[h], val'), val') /\ ~Warns(h, ob[h], val')
             /\ Held(h, Propagated(h, ob[h], val'), val')
  <2>1. Quiet(h, val') /\ ob[h] \in Queued
    BY <1>1 DEF AllQuiet, Quiet, TypeOK
  <2>2. \A w \in {0, 1} : Insists(h, w, val') => Open(Out[h], w, val')
    BY <1>1, <1>2, <1>6 DEF Heard, Fanout
  <2> QED
    BY <1>5, <2>1, <2>2, PropagatedCalm, PropagatedHeld
<1>7. AllCalm'
  <2> SUFFICES ASSUME NEW h \in Gate PROVE Calm(h, ob'[h], val')
    BY DEF AllCalm, Calm, Insists, Open
  <2> QED
    BY <1>1, <1>5, <1>6
<1> QED
  BY <1>1, <1>6, <1>7 DEF Fanout

(* In a circuit whose rules are quiet and firm, whatever the delays, the   *)
(* dice and the exclusions, nothing is reported and every object has no    *)
(* event or the one its rules insist on.                                   *)
THEOREM CalmInvariant ==
  Spec /\ Opening /\ []AllQuiet /\ [][Firm /\ Heard]_vars => [](~warned /\ AllCalm)
<1>1. TypeOK /\ ~warned /\ AllCalm /\ AllQuiet' /\ [Next]_vars /\ [Firm /\ Heard]_vars
        => ~warned' /\ AllCalm'
  <2> SUFFICES ASSUME TypeOK, ~warned, AllCalm, AllQuiet', [Next]_vars, [Firm /\ Heard]_vars
               PROVE  ~warned' /\ AllCalm'
    OBVIOUS
  <2>1. CASE UNCHANGED vars
    BY <2>1 DEF vars, AllCalm, Calm, Insists, Open
  <2>2. ASSUME Firm, Heard, NEW g \in Gate, Step(g) PROVE ~warned' /\ AllCalm'
    <3>1. ASSUME NEW i \in DOMAIN ob[g].queue, Fires(g, i) PROVE ~warned' /\ AllCalm'
      BY <2>2, <3>1, FiresCalm
    <3>2. ASSUME NEW i \in DOMAIN ob[g].queue, Refused(g, i) PROVE ~warned' /\ AllCalm'
      <4>1. warned' = warned
        BY <3>2 DEF Refused
      <4> QED
        BY <3>2, <4>1, RefusedCalm
    <3> QED
      BY <2>2, <3>1, <3>2 DEF Step
  <2>3. ASSUME Firm, Heard, NEW s \in Stimuli, EnvSet(s) PROVE ~warned' /\ AllCalm'
    BY <2>3, EnvSetCalm
  <2>4. CASE EndReset
    BY <2>4 DEF EndReset, AllCalm, Calm, Insists, Open
  <2> QED
    BY <2>1, <2>2, <2>3, <2>4 DEF Next
<1>2. Init /\ AllQuiet /\ Opening => ~warned /\ AllCalm
  BY InitCalm
<1> QED
  BY <1>1, <1>2, TypeCorrect, PTL DEF Spec

(* Neither the order of the events nor a change that an exclusion refused  *)
(* or killed looks like an instability or an interference.                 *)
THEOREM NoAlarmIsFalse ==
  Spec /\ Opening /\ []AllQuiet /\ [][Firm /\ Heard]_vars => []NoFalseAlarm
<1>1. ~warned /\ AllCalm => NoFalseAlarm
  BY DEF NoFalseAlarm
<1> QED
  BY <1>1, CalmInvariant, PTL

(* The flags name the one event of an object, and nothing has to be        *)
(* supposed of the events for it.                                          *)
THEOREM OneEventWhenCalm ==
  Spec /\ Opening /\ []AllQuiet /\ [][Firm /\ Heard]_vars => []OneEvent
<1>1. AllCalm => OneEvent
  <2> SUFFICES ASSUME AllCalm, NEW g \in Gate
               PROVE  ob[g].queue = IF ob[g].flags = PENDING_NONE THEN <<>> ELSE <<ob[g].flags - 1>>
    BY DEF OneEvent
  <2>1. ASSUME NEW w \in {0, 1}, Bound(ob[g], w) PROVE ob[g].flags # PENDING_NONE /\ ob[g].flags - 1 = w
    BY <2>1 DEF Bound, PENDING, PENDING_NONE
  <2> QED
    BY <2>1 DEF AllCalm, Calm, Bare, Bound
<1> QED
  BY <1>1, CalmInvariant, PTL

(* Every change of a node is a rule of ProductionRules that fires.         *)
THEOREM RefinesRulesWhenCalm ==
  Spec /\ Opening /\ [](AllQuiet /\ NothingHidden) /\ [][Firm /\ Heard]_vars
    => R!Init /\ [][R!Next]_(R!vars)
<1>1. Init => R!Init
  BY DEF Init, R!Init, X
<1>2. TypeOK /\ AllCalm /\ NothingHidden /\ [Next]_vars => [R!Next]_(R!vars)
  <2> SUFFICES ASSUME TypeOK, AllCalm, NothingHidden, [Next]_vars
               PROVE  [R!Next]_(R!vars)
    OBVIOUS
  <2> USE DEF R!vars
  <2>1. ASSUME NEW g \in Gate, NEW i \in DOMAIN ob[g].queue, Fires(g, i) PROVE R!Next
    <3> DEFINE w == ob[g].queue[i]
    <3>1. w \in {0, 1} /\ Insists(g, w, val)
      BY DeliveredCalm DEF AllCalm, TypeOK
    <3>2. Allowed(Out[g], w) /\ val' = [val EXCEPT ![Out[g]] = w]
      BY <2>1 DEF Fires, Stored
    <3> HIDE DEF w
    <3>3. \E r \in RulesOf(g) : R!Fire(r)
      BY <3>1, <3>2, WinnerFires DEF Insists
    <3> QED
      BY <3>3 DEF R!Next
  <2>2. ASSUME NEW s \in Stimuli, EnvSet(s) PROVE R!Next
    <3>1. R!Input(s)
      BY <2>2 DEF EnvSet, Possible, Stored, R!Input
    <3> QED
      BY <3>1 DEF R!Next
  <2>3. ASSUME NEW g \in Gate, NEW i \in DOMAIN ob[g].queue, Refused(g, i) PROVE val' = val
    BY <2>3 DEF Refused
  <2>4. CASE EndReset \/ UNCHANGED vars
    BY <2>4 DEF EndReset, vars
  <2> QED
    BY <2>1, <2>2, <2>3, <2>4 DEF Next, Step
<1> QED
  BY <1>1, <1>2, CalmInvariant, TypeCorrect, PTL DEF Spec

(* What an exclusion closed is open again only with a change of an input:  *)
(* the gate is told of its inputs, and not of the end of an exclusion.     *)
Reopened ==
  \A g \in Gate : \A w \in {0, 1} :
    Insists(g, w, val') /\ Open(Out[g], w, val')
      => \/ Insists(g, w, val) /\ Open(Out[g], w, val)
         \/ \E n \in Node : val'[n] # val[n] /\ Mentions(g, n)

LEMMA InitHeld == ASSUME Init, AllQuiet, Opening PROVE AllHeld
<1> SUFFICES ASSUME NEW g \in Gate PROVE Held(g, ob[g], val)
  BY DEF AllHeld
<1> DEFINE o == [flags |-> PENDING_NONE, queue |-> <<>>, pending |-> "null"]
<1>1. ob[g] = Propagated(g, o, val)
  BY DEF Init, Told
<1>2. o \in Queued /\ Bare(o)
  BY DEF Queued, Bare, PENDING_NONE
<1> HIDE DEF o
<1> QED
  BY <1>1, <1>2, PropagatedHeld DEF AllQuiet, Opening, Calm

LEMMA FiresHeld ==
  ASSUME TypeOK, AllCalm, AllHeld, ~warned, AllQuiet', Firm, Heard, Reopened,
         NEW g \in Gate, NEW i \in DOMAIN ob[g].queue, Fires(g, i)
  PROVE  AllHeld'
<1> DEFINE n == Out[g]
           v == ob[g].queue[i]
<1>1. /\ ob[g] \in Queued /\ n \in Node
      /\ v \in {0, 1} /\ Insists(g, v, val) /\ Open(n, v, val)
  BY OutAssumption, DeliveredCalm DEF AllCalm, TypeOK
<1>2. val'[n] = v /\ \A m \in Node \ {n} : val'[m] = val[m]
  BY <1>1 DEF Fires, Stored, TypeOK
<1>3. ASSUME NEW h \in Gate, h \notin Fanout(n), h # g
      PROVE  ob'[h] = IF Out[h] \in Rivals(n, v) THEN Flush(ob[h]) ELSE ob[h]
  BY <1>1, <1>3 DEF Fires, Told, Stored, TypeOK, X
<1> HIDE DEF v
<1>4. ASSUME NEW h \in Gate, h \notin Fanout(n), NEW w \in {0, 1},
             Insists(h, w, val'), Open(Out[h], w, val')
      PROVE  Bound(ob'[h], w)
  <2>1. ~\E m \in Node : val'[m] # val[m] /\ Mentions(h, m)
    BY <1>2, <1>4 DEF Fanout
  <2>2. Insists(h, w, val) /\ Open(Out[h], w, val)
    BY <1>4, <2>1 DEF Reopened
  <2>3. h # g
    BY <1>1, <1>2, <1>4, <2>2, OneWinner DEF Insists, Asked
  <2>4. Out[h] \notin Rivals(n, v)
    <3>1. ASSUME Out[h] \in Rivals(n, v) PROVE FALSE
      <4>1. val[Out[h]] = 1 - v /\ n \in Rivals(Out[h], v)
        BY <1>1, <3>1, RivalFacts DEF Open
      <4>2. w = v
        BY <1>1, <2>2, <4>1 DEF Insists
      <4> QED
        BY <1>1, <1>2, <1>4, <4>1, <4>2 DEF Open
    <3> QED
      BY <3>1
  <2> QED
    BY <1>3, <1>4, <2>2, <2>3, <2>4 DEF AllHeld, Held
<1>5. \A h \in Fanout(n) : Held(h, ob'[h], val')
  BY FiresCalm
<1>6. ASSUME NEW h \in Gate PROVE Held(h, ob'[h], val')
  <2>1. CASE h \in Fanout(n)
    BY <1>5, <2>1
  <2>2. CASE h \notin Fanout(n)
    BY <1>4, <2>2 DEF Held
  <2> QED
    BY <2>1, <2>2
<1> QED
  BY <1>6 DEF AllHeld, Held, Insists, Open, Bound

LEMMA EnvSetHeld ==
  ASSUME TypeOK, AllCalm, AllHeld, ~warned, AllQuiet', Firm, Heard, Reopened,
         NEW s \in Stimuli, EnvSet(s)
  PROVE  AllHeld'
<1>1. \A m \in Node \ {s.node} : val'[m] = val[m]
  BY DEF EnvSet, Stored, TypeOK
<1>2. \A h \in Fanout(s.node) : Held(h, ob'[h], val')
  BY EnvSetCalm
<1>3. ASSUME NEW h \in Gate PROVE Held(h, ob'[h], val')
  <2>1. CASE h \in Fanout(s.node)
    BY <1>2, <2>1
  <2>2. CASE h \notin Fanout(s.node)
    <3>1. ob'[h] = ob[h]
      BY <2>2 DEF EnvSet, Told
    <3>2. ~\E m \in Node : val'[m] # val[m] /\ Mentions(h, m)
      BY <1>1, <2>2 DEF Fanout
    <3> QED
      BY <3>1, <3>2 DEF Reopened, AllHeld, Held
  <2> QED
    BY <2>1, <2>2
<1> QED
  BY <1>3 DEF AllHeld, Held, Insists, Open, Bound

(* Without the dice, an object is not left without the event of a change   *)
(* that its rules insist on and the exclusions leave open.                 *)
THEOREM HeldInvariant ==
  ASSUME ~RandomChoice
  PROVE  Spec /\ Opening /\ []AllQuiet /\ [][Firm /\ Heard /\ Reopened]_vars => []AllHeld
<1>1. TypeOK /\ ~warned /\ AllCalm /\ AllHeld /\ AllQuiet' /\ [Next]_vars
        /\ [Firm /\ Heard /\ Reopened]_vars => AllHeld'
  <2> SUFFICES ASSUME TypeOK, ~warned, AllCalm, AllHeld, AllQuiet', [Next]_vars,
                      [Firm /\ Heard /\ Reopened]_vars
               PROVE  AllHeld'
    OBVIOUS
  <2>1. CASE UNCHANGED vars
    BY <2>1 DEF vars, AllHeld, Held, Insists, Open, Bound
  <2>2. ASSUME Firm, Heard, Reopened, NEW g \in Gate, NEW i \in DOMAIN ob[g].queue, Fires(g, i)
        PROVE  AllHeld'
    BY <2>2, FiresHeld
  <2>3. ASSUME NEW g \in Gate, NEW i \in DOMAIN ob[g].queue, Refused(g, i) PROVE FALSE
    <3>1. Open(Out[g], ob[g].queue[i], val)
      BY DeliveredCalm DEF AllCalm, TypeOK
    <3> QED
      BY <2>3, <3>1, OpenIsAllowed DEF Refused, MayLose
  <2>4. ASSUME Firm, Heard, Reopened, NEW s \in Stimuli, EnvSet(s) PROVE AllHeld'
    BY <2>4, EnvSetHeld
  <2>5. CASE EndReset
    BY <2>5 DEF EndReset, AllHeld, Held, Insists, Open, Bound
  <2> QED
    BY <2>1, <2>2, <2>3, <2>4, <2>5 DEF Next, Step
<1>2. Init /\ AllQuiet /\ Opening => AllHeld
  BY InitHeld
<1>3. [Firm /\ Heard /\ Reopened]_vars => [Firm /\ Heard]_vars
  OBVIOUS
<1> QED
  BY <1>1, <1>2, <1>3, CalmInvariant, TypeCorrect, PTL DEF Spec

(* When nothing is left to happen the rules are satisfied, exclusions      *)
(* included: what one forbade is asked for again when it ends.             *)
THEOREM RulesSettleWithExclusions ==
  ASSUME ~RandomChoice
  PROVE  Spec /\ Opening /\ []AllQuiet /\ [][Firm /\ Heard /\ Reopened]_vars => []Settled
<1>1. AllHeld => Settled
  <2> SUFFICES ASSUME AllHeld, Idle, NEW g \in Gate, NEW w \in {0, 1},
                      Asked(w, Up(g, val), Dn(g, val)), val[Out[g]] # w, Allowed(Out[g], w)
               PROVE  FALSE
    BY DEF Settled, Asked
  <2>1. Bound(ob[g], w)
    BY OpenIsAllowed DEF AllHeld, Held, Insists
  <2>2. Len(ob[g].queue) = 1
    BY <2>1 DEF Bound
  <2>3. ob[g].queue = <<>> /\ Len(<<>>) = 0
    BY DEF Idle
  <2> QED
    BY <2>2, <2>3
<1> QED
  BY <1>1, HeldInvariant, PTL
-----------------------------------------------------------------------------
(* An object may be listed twice in the fanout of a node with many readers *)
(* (incFanout).  To be told again of the same values changes nothing.      *)
LEMMA MakeNodeXAgain ==
  ASSUME NEW o, NEW cur
  PROVE  LET p == MakeNodeX(o, cur)
         IN /\ MakeNodeX(p, cur) = p
            /\ p.flags # PENDING(0) /\ p.flags # PENDING(1)
            /\ cur # X => p.flags = PENDING(X)
<1> DEFINE p == MakeNodeX(o, cur)
<1>1. /\ PENDING(X) # PENDING(0) /\ PENDING(X) # PENDING(1)
      /\ PENDING_NONE # PENDING(0) /\ PENDING_NONE # PENDING(1)
  BY DEF PENDING, PENDING_NONE, X
<1>2. CASE cur # X
  <2>1. p.flags = PENDING(X)
    BY <1>2 DEF MakeNodeX, Post
  <2> HIDE DEF p
  <2>2. MakeNodeX(p, cur) = p
    BY <1>2, <2>1 DEF MakeNodeX
  <2> QED
    BY <1>1, <2>1, <2>2 DEF p
<1>3. CASE cur = X
  <2>1. p.flags \notin {PENDING(0), PENDING(1)}
    <3>1. CASE o.flags \in {PENDING(0), PENDING(1)}
      <4>1. p = [Removed(o) EXCEPT !.flags = PENDING_NONE]
        BY <1>3, <3>1 DEF MakeNodeX
      <4>2. Removed(o).flags = o.flags
        BY DEF Removed
      <4> QED
        BY <1>1, <4>1, <4>2
    <3>2. CASE o.flags \notin {PENDING(0), PENDING(1)}
      BY <1>3, <3>2 DEF MakeNodeX
    <3> QED
      BY <3>1, <3>2
  <2> HIDE DEF p
  <2>2. MakeNodeX(p, cur) = p
    BY <1>3, <2>1 DEF MakeNodeX
  <2> QED
    BY <1>3, <2>1, <2>2 DEF p
<1> QED
  BY <1>2, <1>3

LEMMA DecideAgain ==
  ASSUME NEW o, NEW cur, NEW u, NEW d, ~Unstable(o, u, d)
  PROVE  LET r == Decide(o, cur, u, d)
         IN Decide(r, cur, u, d) = r /\ ~Unstable(r, u, d)
<1> DEFINE r == Decide(o, cur, u, d)
<1>1. CASE \E w \in {0, 1} : Asked(w, u, d)
  <2>1. PICK w \in {0, 1} : Asked(w, u, d)
    BY <1>1
  <2>2. r = DoSetVal(o, cur, w) /\ Decide(r, cur, u, d) = DoSetVal(r, cur, w)
    BY <2>1, DecideByAsked
  <2>3. r = o \/ r = Post(o, w)
    BY <2>2 DEF DoSetVal
  <2>4. cur # w => r.flags = PENDING(w)
    BY <2>2 DEF DoSetVal, Post
  <2>5. ~Unstable(r, u, d)
    <3>1. CASE r = o
      BY <3>1
    <3>2. CASE r = Post(o, w)
      BY <2>1, <3>2 DEF Post, Unstable, Asked, Wins, PENDING
    <3> QED
      BY <2>3, <3>1, <3>2
  <2> HIDE DEF r
  <2>6. DoSetVal(r, cur, w) = r
    BY <2>4 DEF DoSetVal
  <2> QED
    BY <2>2, <2>5, <2>6 DEF r
<1>2. CASE \A w \in {0, 1} : ~Asked(w, u, d)
  <2>1. CASE r = o
    BY <2>1
  <2>2. CASE r = MakeNodeX(o, cur)
    <3>1. MakeNodeX(r, cur) = r /\ ~Unstable(r, u, d)
      <4> HIDE DEF r
      <4> QED
        BY <2>2, MakeNodeXAgain DEF Unstable
    <3> HIDE DEF r
    <3>2. Decide(r, cur, u, d) = r
      BY <1>2, <3>1, DecideByAsked
    <3> QED
      BY <3>1, <3>2 DEF r
  <2> QED
    BY <1>2, <2>1, <2>2, DecideByAsked
<1> QED
  BY <1>1, <1>2

(* The second time propagate leaves the object as it is, takes no event    *)
(* back, and reports nothing that it has not reported the first time.      *)
THEOREM ToldAgain ==
  ASSUME NEW g, NEW o, NEW v
  PROVE  LET r == Propagated(g, o, v)
         IN /\ Propagated(g, r, v) = r
            /\ ~Removes(g, r, v)
            /\ Warns(g, r, v) => Warns(g, o, v)
<1> DEFINE cur == v[Out[g]]
           u == Up(g, v)
           d == Dn(g, v)
           p == IF Unstable(o, u, d) THEN MakeNodeX(o, cur) ELSE o
           r == Propagated(g, o, v)
<1>1. ~Unstable(p, u, d)
  BY MakeNodeXAgain DEF Unstable
<1>2. r = Decide(p, cur, u, d)
  BY DEF Propagated
<1> HIDE DEF p
<1>3. Decide(r, cur, u, d) = r /\ ~Unstable(r, u, d)
  BY <1>1, <1>2, DecideAgain
<1> HIDE DEF r
<1>4. Propagated(g, r, v) = r
  BY <1>3 DEF Propagated
<1>5. ~Removes(g, r, v)
  BY <1>3, MakeNodeXAgain DEF Removes
<1>6. Warns(g, r, v) => Warns(g, o, v)
  BY <1>3 DEF Warns
<1> QED
  BY <1>4, <1>5, <1>6 DEF r
=============================================================================
