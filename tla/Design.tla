------------------------------- MODULE Design -------------------------------
(***************************************************************************)
(* A design is elaborated, and then runs: its objects write booleans, and  *)
(* each write goes through the checks that elaboration has registered      *)
(* (ActSimState::setBool).  The properties are stated against the design   *)
(* itself: nets and specifications, with no offsets and no tables.         *)
(***************************************************************************)
EXTENDS Elaboration, Monitors, FiniteSetsExt

CONSTANTS
  Written,   \* the values that are written
  MaxWrites, \* bound: how many writes there are
  MaxUnknown, \* bound: how many of them write X
  MaxTime    \* bound: how late it gets

VARIABLES
  val,       \* boolean -> 0, 1 or 2, which is X
  watch,     \* the states of the timing constraints, as in reg.timing
  now,       \* CurTimeLo
  resetMode, \* _prs_sim_mode
  hist,      \* history: the writes, [x, v, t, reset, timing, excl]; timing and
             \* excl are the warnings that were given
  meant      \* history: the specifications of the design, on nets

rvars == <<val, watch, now, resetMode, hist, meant>>
vars == <<evars, rvars>>

X == 2

DesignInit ==
  /\ Init
  /\ val = <<>> /\ watch = <<>> /\ now = 0 /\ resetMode = TRUE /\ hist = <<>>
  /\ meant = [netOf |-> <<>>, timing |-> {}, hi |-> {}, lo |-> {}]

-----------------------------------------------------------------------------
(* The design, without the simulator: what is meant by its specifications. *)
Cell(a) == getGlobalOffset(table[a.path], a.ref, "bool")
NetsAt(N, cells) == [c \in cells |-> {a.net : a \in {b \in N : Cell(b) = c}}]
ByVariable(N, variables) ==
  [x \in variables |-> (CHOOSE a \in N : a.path = x[1] /\ a.ref = x[2]).net]
CellNets(N) == NetsAt(N, {Cell(a) : a \in N})
NetMap(N) == ByVariable(N, {<<a.path, a.ref>> : a \in N})

Specs == {[path |-> d[1], s |-> d[2]] : d \in
            UNION {{p} \X Range(Library[table[p].proc].spec \o
                                (IF table[p].model = "device" THEN <<>>
                                 ELSE Library[table[p].proc].types)) : p \in DOMAIN table}}
MeantTiming(net) ==
  UNION {{[n |-> <<net[<<d.path, d.s.root>>], net[<<d.path, ab[1]>>], net[<<d.path, ab[2]>>]>>,
           f |-> d.s.dir, margin |-> d.s.margin]
            : ab \in (Range(d.s.a) \ {Absent}) \X (Range(d.s.b) \ {Absent})}
         : d \in {e \in Specs : e.s.kind = "timing" /\ e.s.root # Absent}}
MeantExcl(net, kind) ==
  {{net[<<d.path, r>>] : r \in Range(Known(d.s.ids))} : d \in {e \in Specs : e.s.kind = kind}}

(* The first write comes after all of the elaboration. *)
Begin ==
  /\ phase = "ready" /\ phase' = "run"
  /\ val' = [b \in DOMAIN fan |-> X]
  /\ watch' = [c \in DOMAIN reg.timing |-> Idle]
  /\ \E N \in {Nets("bool")} : \E net \in {NetMap(N)} :
       meant' = [netOf |-> CellNets(N), timing |-> MeantTiming(net),
                 hi |-> MeantExcl(net, "exclhi"), lo |-> MeantExcl(net, "excllo")]
  /\ UNCHANGED <<top, cursor, table, stack, frag, multi, drivers, fan, reg, now, resetMode, hist>>

(* setBool.  A write of the value a node has goes through the checks too.  *)
SetBool(x, v) ==
  /\ phase = "run" /\ Len(hist) < MaxWrites
  /\ v = X => Cardinality({i \in DOMAIN hist : hist[i].v = X}) < MaxUnknown
  /\ LET mk == IF v = 1 THEN reg.mkhi ELSE IF v = 0 THEN reg.mklo ELSE <<>>
         excl == IF v = 1 THEN reg.hi ELSE IF v = 0 THEN reg.lo ELSE <<>>
         special == x \in reg.special
         r == [c \in DOMAIN watch |->
                 IF special THEN update(reg.timing[c], watch[c], x, v, now, resetMode)
                 ELSE [st |-> watch[c], warns |-> FALSE]]
     IN /\ special => SafeChange(mk, val, x, v)
        /\ watch' = [c \in DOMAIN watch |-> r[c].st]
        /\ val' = [val EXCEPT ![x] = v]
        /\ hist' = Append(hist,
             [x |-> x, v |-> v, t |-> now, reset |-> resetMode,
              timing |-> {c \in DOMAIN watch : r[c].warns},
              excl |-> special /\ MonitorExcl /\ ~SafeChange(excl, val, x, v)])
  /\ UNCHANGED <<now, resetMode, meant, evars>>

Tick ==
  /\ phase = "run" /\ now < MaxTime /\ Len(hist) < MaxWrites
  /\ now' = now + 1
  /\ UNCHANGED <<val, watch, resetMode, hist, meant, evars>>

(* Initialisation is over. *)
EndReset ==
  /\ phase = "run" /\ resetMode
  /\ resetMode' = FALSE
  /\ UNCHANGED <<val, watch, now, hist, meant, evars>>

Watched == UNION {Range(c.n) : c \in Range(reg.timing)} \cup
           UNION {Range(l) : l \in Range(reg.hi \o reg.lo)}

Next ==
  \/ Build /\ UNCHANGED rvars
  \/ Begin
  \/ \E x \in Watched, v \in Written : SetBool(x, v)
  \/ Tick
  \/ EndReset

Spec == DesignInit /\ [][Next]_vars

-----------------------------------------------------------------------------
Built == phase \in {"elab", "fanout", "ready"}

OneNetOneCell ==
  \A k \in Kind :
    \A N \in {{[net |-> a.net, cell |-> getGlobalOffset(table[a.path], a.ref, k)]
                 : a \in Nets(k)}} :
      \A a, b \in N : /\ a.net = b.net <=> a.cell = b.cell
                      /\ a.cell \in 0 .. stateSize(top)[k] - 1

(* Whoever reads a net is told when any variable of the net is written. *)
ReadersHear ==
  phase = "ready" => \A p \in DOMAIN table : \A r \in Range(reads(p)) : r.who \in Range(fan[r.cell])

(* A wire of a channel that a circuit drives, seen from every process      *)
(* around the circuit that sees the channel.                               *)
DriversMarked ==
  phase = "ready" =>
    LET Around(p) == {q \in DOMAIN table : IsPrefix(q, p)} IN
    \A N \in {Nets("bool")} : \A net \in {NetMap(N)} :
    \A p \in {q \in DOMAIN table : table[q].model \in {"prs", "hse"}} :
    \A g \in Range(Library[table[p].proc].gate) : \A q \in Around(p) :
    \A w \in DOMAIN Library[table[q].proc].piece :
      LET piece == Library[table[q].proc].piece[w] IN
      net[<<q, w>>] = net[<<p, g.out>>] =>
        sideOf(piece, FALSE) \subseteq frag.marks[getGlobalOffset(table[q], piece.chan, "chan")]

(* The constraint c that is followed is the constraint d of the design,    *)
(* and is about three different nodes.                                     *)
Meets(c, d) ==
  /\ c.margin = d.margin /\ c.f = d.f
  /\ \A j \in 1 .. 3 : meant.netOf[c.n[j]] = {d.n[j]}
Proper(c) ==
  c.margin \in Nat /\ \A i, j \in 1 .. 3 : c.n[i] = c.n[j] => i = j

(* What elaboration owes to the run: the constraints that are followed are *)
(* those of the design, each of three nodes; their nodes are marked; two   *)
(* cells that are written are on two nets; and two nodes are together in a *)
(* list of a monitor when they are together in one of the design.          *)
Together(lists, sets) ==
  /\ \A l \in Range(lists) : MonitorExcl /\ Range(l) \subseteq reg.special \cap DOMAIN fan
  /\ \A x \in Watched : \A y \in DOMAIN fan \ {x} :
       (\E l \in Range(lists) : x \in Range(l) /\ y \in Range(l))
         <=> \E l \in sets : meant.netOf[x] \subseteq l /\ meant.netOf[y] \subseteq l
Registered ==
  phase = "run" =>
    /\ \A d \in meant.timing : \E c \in DOMAIN reg.timing : Meets(reg.timing[c], d)
    /\ \A c \in DOMAIN reg.timing :
         /\ \E d \in meant.timing : Meets(reg.timing[c], d)
         /\ Proper(reg.timing[c])
         /\ \A j \in 1 .. 3 : reg.timing[c].n[j] \in reg.special \cap Watched
    /\ \A x, y \in Watched : meant.netOf[x] = meant.netOf[y] => x = y
    /\ Together(reg.hi, meant.hi) /\ Together(reg.lo, meant.lo)

(* Elaboration is right about the wiring.  Two variables have one cell of  *)
(* the state exactly when the connections of the design make them one net; *)
(* the cell exists; who reads a net is in its fanout; a channel with a     *)
(* wire that a circuit drives is marked fragmented on that side; and the   *)
(* checks that are registered are those of the design.                     *)
Wired == (Built => OneNetOneCell /\ ReadersHear /\ DriversMarked) /\ Registered

(* A node driven by several processes has a MultiPrsSim with room for      *)
(* exactly the rules that drive it, and any other node is driven by one    *)
(* process at most (the Assert of addOnePrsSim never fails).               *)
DriversCounted ==
  phase = "ready" =>
    LET rules == UNION {{p} \X DOMAIN Library[table[p].proc].gate :
                          p \in {q \in DOMAIN table : table[q].model = "prs"}}
        cell(r) == getGlobalOffset(table[r[1]], Library[table[r[1]].proc].gate[r[2]].out, "bool")
    IN /\ DOMAIN drivers = DOMAIN multi
       /\ \A c \in DOMAIN multi :
            multi[c] = Len(drivers[c]) /\ multi[c] = Cardinality({r \in rules : cell(r) = c})
       /\ \A r, q \in rules : cell(r) = cell(q) /\ r # q => cell(r) \in DOMAIN multi

-----------------------------------------------------------------------------
(* The checks.  "root : a < b" is violated at write i when, since the last *)
(* write of the root, which was one of its transitions, there has been no  *)
(* violation yet, and a comes after b has (before any a, when there is a   *)
(* margin), or b comes less than the margin after the last a.  The trace x *)
(* says which writes these are, and their times.                           *)
Violations(x) ==
  LET v[i \in DOMAIN x.t] ==
        \E k \in x.root :
          /\ k < i
          /\ \A m \in k + 1 .. i : m \notin x.on
          /\ \A m \in k + 1 .. i - 1 : ~v[m]
          /\ LET as == {m \in x.a : k < m /\ m < i}
                 bs == {m \in x.b : k < m /\ m < i}
                 afirst == \E l \in as : \A m \in bs : l < m
             IN \/ i \in x.a /\ bs # {} /\ (x.margin = 0 \/ ~afirst)
                \/ /\ i \in x.b /\ x.margin # 0 /\ afirst
                   /\ \E l \in as : (\A m \in as : m <= l) /\ x.t[l] + x.margin > x.t[i]
  IN v

On(c, j, e) == meant.netOf[e.x] = {c.n[j]} /\ ~e.reset
Fires(c, j, e) == On(c, j, e) /\ Trigger(c.f[j], e.v)
Trace(c) ==
  [on   |-> {i \in DOMAIN hist : On(c, 1, hist[i])},
   root |-> {i \in DOMAIN hist : Fires(c, 1, hist[i])},
   a    |-> {i \in DOMAIN hist : Fires(c, 2, hist[i])},
   b    |-> {i \in DOMAIN hist : Fires(c, 3, hist[i])},
   t    |-> [i \in DOMAIN hist |-> hist[i].t],
   margin |-> c.margin]
Violated(c) == Violations(Trace(c))[Len(hist)]

(* A timing constraint written in the design, of whichever instance and on *)
(* whichever of its ports, is reported at the writes that violate it, at   *)
(* each of them, and at no other.                                          *)
TimingExact ==
  phase = "run" =>
    /\ \A c \in Range(reg.timing) : \E d \in meant.timing : Meets(c, d)
    /\ \A d \in meant.timing : \E c \in DOMAIN reg.timing :
         /\ Meets(reg.timing[c], d)
         /\ hist # <<>> => (Violated(d) <=> c \in Last(hist).timing)

(* An exclusion written in the design is reported at the writes that bring *)
(* a node to the value it excludes while another node of the list may have *)
(* it, and at no other.                                                    *)
ExclExact ==
  phase = "run" /\ hist # <<>> =>
    LET e == Last(hist)
        lists == IF e.v = 1 THEN meant.hi ELSE IF e.v = 0 THEN meant.lo ELSE {}
        together(l) == /\ meant.netOf[e.x] \subseteq l
                       /\ \E y \in DOMAIN val \ {e.x} :
                            meant.netOf[y] \subseteq l /\ val[y] # 1 - e.v
    IN e.excl <=> \E l \in lists : together(l)
=============================================================================
