---------------------------- MODULE Elaboration ----------------------------
(***************************************************************************)
(* How the simulator is built from an expanded design.  The instances are  *)
(* walked depth first; each gets a simulation object at its level of       *)
(* abstraction, with the offsets of its variables in the global state and  *)
(* of the nets its ports are connected to.  On the way, channels accessed  *)
(* through their wires are marked fragmented, nodes driven by several      *)
(* processes get a MultiPrsSim, and specifications become run-time checks. *)
(* A second walk computes the fanout of every boolean.                     *)
(*                                                                         *)
(* What the ACT passes say of a process is the constant Library; a         *)
(* variable of a process is known by a reference, as in stateinfo_t:       *)
(* k >= 0 is local, Port(n) is port n, Global(n) is global n.  Dataflow    *)
(* bodies and SDF delays are left out.                                     *)
(***************************************************************************)
EXTENDS Integers, Sequences, SequencesExt, FiniteSets, Functions

CONSTANTS
  Library,    \* process -> [port, local, inst, lang, gate, piece, spec, types]
  Tops,       \* the processes that may be simulated
  Globals,    \* kind -> number of globals
  InstLevel, ProcLevel, \* path, process -> level, where one is configured
  DefaultLevel,
  MonitorExcl,          \* ActExclMonitor::enable
  HighFanout, Window    \* 8 and 10 in incFanout

VARIABLES
  phase,   \* "new", "elab", "fanout", "ready", or "fatal"
  top,     \* simroot
  cursor,  \* _curoffset: kind -> next free offset
  table,   \* ActInstTable: path -> [proc, o, port, model]
  stack,   \* the calls of _add_all_inst, or of computeFanout, innermost last
  frag,    \* [used : ports used as wires, marks : channel -> fragmented]
  multi,   \* _global_multi: boolean -> number of drivers
  drivers, \* boolean -> the rules added to its MultiPrsSim
  fan,     \* fo: boolean -> sequence of objects
  reg      \* the run-time checks that have been registered

evars == <<phase, top, cursor, table, stack, frag, multi, drivers, fan, reg>>

Kind == {"bool", "int", "chan"}
Process == DOMAIN Library
Indices(s) == [i \in 1 .. Len(s) |-> i]

-----------------------------------------------------------------------------
(* References and offsets. *)
Port(n) == -(2 * n + 1)
Global(n) == -(2 * n + 2)
isPortOffset(ref) == ref < 0 /\ ref % 2 = 1
isGlobalOffset(ref) == ref < 0 /\ ref % 2 = 0
portIdx(ref) == (-ref - 1) \div 2
globalIdx(ref) == (-ref) \div 2 - 1

(* The ports of a kind are numbered from the last to the first. *)
OfKind(p, k) ==
  LET port == Library[p].port IN
  SelectSeq(Indices(port), LAMBDA i : port[i].kind = k)
PortRef(p, i) ==
  LET same == OfKind(p, Library[p].port[i].kind)
  IN Port(Cardinality({j \in Range(same) : j > i}))

getGlobalOffset(obj, ref, kind) ==
  IF ref >= 0 THEN obj.o[kind] + ref
  ELSE IF isPortOffset(ref) THEN obj.port[kind][portIdx(ref) + 1]
  ELSE globalIdx(ref)

(* The port arrays of an instance, from those of its parent. *)
Unreversed(parent, inst) ==    \* mutant: in declaration order
  [k \in Kind |-> [j \in DOMAIN OfKind(inst.of, k) |->
                     getGlobalOffset(parent, inst.conn[OfKind(inst.of, k)[j]], k)]]
portArrays(parent, inst) ==
  [k \in Kind |-> Reverse([j \in DOMAIN OfKind(inst.of, k) |->
                     getGlobalOffset(parent, inst.conn[OfKind(inst.of, k)[j]], k)])]

addVar(cur, counts) == [k \in Kind |-> cur[k] + counts[k]]
rootPorts(p, cur) ==
  [k \in Kind |-> [j \in DOMAIN OfKind(p, k) |-> cur[k] + j - 1]]
portCounts(p) == [k \in Kind |-> Len(OfKind(p, k))]

Primary(p) == SelectSeq(Library[p].inst, LAMBDA i : i.primary)

(* The state pass counts the variables of a process and its instances. *)
all[p \in Process] ==
  FoldLeft(LAMBDA c, i : addVar(c, all[i.of]), Library[p].local, Primary(p))
stateSize(p) == addVar(addVar(portCounts(p), all[p]), Globals)

-----------------------------------------------------------------------------
(* The level of an instance, and the body that models it there. *)
getlevel(path, p) ==
  IF path \in DOMAIN InstLevel THEN InstLevel[path]
  ELSE IF p \in DOMAIN ProcLevel THEN ProcLevel[p] ELSE DefaultLevel

Model(lang, lev) ==
  CASE lev = "device" -> "device"
    [] lev \in lang -> lev
    [] lev \notin lang /\ lev = "prs" /\ "hse" \in lang -> "hse"
    [] lev \notin lang /\ lev \in {"prs", "hse"} /\ "hse" \notin lang /\ "chp" \in lang -> "chp"
    [] lang = {} -> "empty"
    [] OTHER -> "fatal"

-----------------------------------------------------------------------------
(* Drivers.  outputs[p]: the references p or its instances drive. *)
BoolPorts(inst) == OfKind(inst.of, "bool")
outputs[p \in Process] ==
  {Library[p].gate[g].out : g \in DOMAIN Library[p].gate} \cup
  UNION {{inst.conn[i] : i \in {j \in Range(BoolPorts(inst)) :
                                  PortRef(inst.of, j) \in outputs[inst.of]}}
           : inst \in Range(Primary(p))}

addmd(my, ref, n) ==
  [r \in DOMAIN my \cup {ref} |->
     (IF r \in DOMAIN my THEN my[r] ELSE 0) + (IF r = ref THEN n ELSE 0)]

CountLocalOnce(acc, d) ==      \* mutant: the second driver alone is counted
  CASE d.n = 0 -> acc
    [] d.n > 1 \/ (d.n = 1 /\ d.ref \in DOMAIN acc.my) ->
         [acc EXCEPT !.my = addmd(@, d.ref, d.n)]
    [] d.n = 1 /\ d.ref \notin DOMAIN acc.my /\ isGlobalOffset(d.ref) -> acc
    [] d.n = 1 /\ d.ref \notin DOMAIN acc.my /\ d.ref \in acc.bits ->
         [acc EXCEPT !.my = addmd(@, d.ref, 1)]
    [] OTHER -> [acc EXCEPT !.bits = @ \cup {d.ref}]
countDriver(acc, d) ==
  CASE d.n = 0 -> acc
    [] d.n > 1 \/ (d.n = 1 /\ d.ref \in DOMAIN acc.my) ->
         [acc EXCEPT !.my = addmd(@, d.ref, d.n)]
    [] d.n = 1 /\ d.ref \notin DOMAIN acc.my /\ isGlobalOffset(d.ref) -> acc
    [] d.n = 1 /\ d.ref \notin DOMAIN acc.my /\ d.ref \in acc.bits ->
         [acc EXCEPT !.my = addmd(@, d.ref, 2)]
    [] OTHER -> [acc EXCEPT !.bits = @ \cup {d.ref}]

(* _computeMultiDrivers: reference -> number of drivers, where several. *)
multiDrivers[p \in Process] ==
  LET local == {Library[p].gate[g].out : g \in DOMAIN Library[p].gate}
      sub(inst, i) ==
        LET r == PortRef(inst.of, i) IN
        IF r \in DOMAIN multiDrivers[inst.of] THEN multiDrivers[inst.of][r]
        ELSE IF r \in outputs[inst.of] THEN 1 ELSE 0
      ofInst(inst) == [j \in DOMAIN BoolPorts(inst) |->
                         LET i == BoolPorts(inst)[j]
                         IN [ref |-> inst.conn[i], n |-> sub(inst, i)]]
      insts == [i \in DOMAIN Primary(p) |-> ofInst(Primary(p)[i])]
  IN FoldLeft(LAMBDA acc, d : countDriver(acc, d),
              [bits |-> {r \in local : ~isGlobalOffset(r)}, my |-> <<>>],
              FlattenSeq(insts)).my

addMultidrivers(known, p, base, ports) ==
  LET md == multiDrivers[p]
      gid(ref) == IF ref >= 0 THEN base + ref ELSE ports[portIdx(ref) + 1]
  IN [g \in DOMAIN known \cup {gid(r) : r \in DOMAIN md} |->
        IF g \in DOMAIN known THEN known[g]
        ELSE md[CHOOSE r \in DOMAIN md : gid(r) = g]]

-----------------------------------------------------------------------------
(* Fragmentation.  A piece is a boolean of the process that is a wire of a *)
(* channel it sees: [chan, side, dir], as the process sees the channel,    *)
(* and the direction of the wire ("inout" is driven by the sender).        *)
sideOf(piece, readOnly) ==
  CASE piece.dir = "inout" -> IF readOnly THEN {} ELSE {"out"}
    [] piece.dir = "outin" -> IF readOnly THEN {} ELSE {"in"}
    [] OTHER -> {piece.side}

checkFragmentation(f, obj, ref, readOnly) ==
  LET def == Library[obj.proc]
      ports == {<<obj.proc, i>> : i \in {j \in Range(OfKind(obj.proc, "bool")) :
                                           PortRef(obj.proc, j) = ref}}
  IN IF ref \in DOMAIN def.piece
     THEN LET piece == def.piece[ref] IN
          [used |-> f.used \cup ports,
           marks |-> [f.marks EXCEPT
             ![getGlobalOffset(obj, piece.chan, "chan")] = @ \cup sideOf(piece, readOnly)]]
     ELSE [f EXCEPT !.used = @ \cup ports]

(* The whole body of an object, whatever it reads and writes. *)
checkReads(f, obj, refs) ==
  FoldLeft(LAMBDA h, r : checkFragmentation(h, obj, r, TRUE), f, refs)
checkRule(f, obj, g) == checkFragmentation(checkReads(f, obj, g.in), obj, g.out, FALSE)
checkDevice(f, obj) ==
  LET def == Library[obj.proc]
      wires == SelectSeq([j \in DOMAIN OfKind(obj.proc, "bool") |->
                            PortRef(obj.proc, OfKind(obj.proc, "bool")[j])],
                         LAMBDA r : r \in DOMAIN def.piece)
  IN [f EXCEPT !.marks = FoldLeft(LAMBDA m, r :
        LET piece == def.piece[r] IN
        [m EXCEPT ![getGlobalOffset(obj, piece.chan, "chan")] = @ \cup {piece.side}],
        @, wires)]
checkBody(f, obj) ==
  CASE obj.model \in {"prs", "hse"} ->
         FoldLeft(LAMBDA h, g : checkRule(h, obj, g), f, Library[obj.proc].gate)
    [] obj.model = "device" -> checkDevice(f, obj)
    [] OTHER -> f

(* The connections of an instance, for the ports known to be used. *)
checkPorts(f, parent, inst) ==
  FoldLeft(LAMBDA h, i :
             IF <<inst.of, i>> \in h.used
             THEN checkFragmentation(h, parent, inst.conn[i], Library[inst.of].port[i].input)
             ELSE h,
           f, BoolPorts(inst))

-----------------------------------------------------------------------------
(* Specifications.  A signal that is not in the state is Absent. *)
Absent == -100001
Known(ids) == SelectSeq(ids, LAMBDA r : r # Absent)
offsets(obj, ids) == [i \in DOMAIN Known(ids) |-> getGlobalOffset(obj, Known(ids)[i], "bool")]

isDup(timing, c) == \E t \in Range(timing) : t.n = c.n /\ t.margin = c.margin

addTimingFork(r, obj, s, a, b) ==
  LET n == offsets(obj, <<s.root, a, b>>)
      c == [n |-> n, f |-> s.dir, margin |-> s.margin]
  IN IF Absent \in {s.root, a, b} \/ isDup(r.timing, c) THEN r
     ELSE [r EXCEPT !.timing = Append(@, c), !.special = @ \cup Range(n)]

(* An array stands for its elements: every a against every b. *)
addTiming(r, obj, s) ==
  FoldLeft(LAMBDA x, a : FoldLeft(LAMBDA y, b : addTimingFork(y, obj, s, a, b), x, s.b),
           r, s.a)

Legal(ids) == ids # <<>> /\ IsInjective(ids)
addList(list, ids) == IF Legal(ids) THEN Append(list, ids) ELSE list

(* A mk_excl list also reaches the last else of the chain: _add_hazard. *)
addSpec(r, obj, s) ==
  IF s.kind = "timing" THEN addTiming(r, obj, s)
  ELSE LET ids == offsets(obj, s.ids) IN
    CASE s.kind = "mk_exclhi" -> [r EXCEPT !.mkhi = addList(@, ids), !.hazard = @ \cup Range(ids),
                                           !.special = @ \cup Range(ids)]
      [] s.kind = "mk_excllo" -> [r EXCEPT !.mklo = addList(@, ids), !.hazard = @ \cup Range(ids),
                                           !.special = @ \cup Range(ids)]
      [] s.kind = "exclhi" /\ MonitorExcl -> [r EXCEPT !.hi = addList(@, ids),
                                                       !.special = @ \cup Range(ids)]
      [] s.kind = "excllo" /\ MonitorExcl -> [r EXCEPT !.lo = addList(@, ids),
                                                       !.special = @ \cup Range(ids)]
      [] s.kind = "rand_init" -> [r EXCEPT !.rand = @ \o ids]
      [] s.kind = "hazard" -> [r EXCEPT !.hazard = @ \cup Range(ids)]
      [] OTHER -> r
addSpecs(r, obj, specs) == FoldLeft(LAMBDA x, s : addSpec(x, obj, s), r, specs)

-----------------------------------------------------------------------------
Init ==
  /\ phase = "new" /\ top \in Tops
  /\ cursor = Globals
  /\ table = <<>> /\ stack = <<>>
  /\ frag = [used |-> {}, marks |-> [c \in 0 .. stateSize(top)["chan"] - 1 |-> {}]]
  /\ multi = <<>> /\ drivers = <<>>
  /\ fan = [b \in 0 .. stateSize(top)["bool"] - 1 |-> <<>>]
  /\ reg = [timing |-> <<>>, mkhi |-> <<>>, mklo |-> <<>>, hi |-> <<>>, lo |-> <<>>,
            special |-> {}, hazard |-> {}, rand |-> <<>>]

With(f, k, v) == [x \in DOMAIN f \cup {k} |-> IF x = k THEN v ELSE f[x]]

(* _add_language for the object obj at path, once its offsets are known.   *)
(* An object with instances of its own is entered: _add_all_inst.          *)
AddObject(path, obj, f) ==
  /\ multi' = addMultidrivers(multi, obj.proc, obj.o["bool"], obj.port["bool"])
  /\ table' = With(table, path, obj)
  /\ frag' = f
  /\ reg' = addSpecs(reg, obj, Library[obj.proc].spec)

Fail == phase' = "fatal" /\ UNCHANGED <<top, cursor, table, stack, frag, multi, drivers, fan, reg>>

(* _initSim, up to the call of _add_all_inst. *)
AddRoot ==
  /\ phase = "new"
  /\ LET cur == addVar(cursor, portCounts(top))
         obj == [proc |-> top, o |-> cur, port |-> rootPorts(top, cursor),
                 model |-> Model(Library[top].lang, getlevel(<<>>, top))]
     IN IF obj.model = "fatal" THEN Fail
        ELSE /\ phase' = "elab"
             /\ AddObject(<<>>, obj, checkBody(frag, obj))
             /\ cursor' = addVar(cur, Library[top].local)
             /\ stack' = <<[path |-> <<>>, next |-> 1]>>
             /\ UNCHANGED <<top, drivers, fan>>

Frame == Last(stack)
Here == table[Frame.path]
Insts == Library[Here.proc].inst
Stepped(s) == [s EXCEPT ![Len(s)].next = @ + 1]

SkipElement ==
  /\ phase = "elab" /\ Frame.next <= Len(Insts) /\ ~Insts[Frame.next].primary
  /\ stack' = Stepped(stack)
  /\ UNCHANGED <<phase, top, cursor, table, frag, multi, drivers, fan, reg>>

AddInst ==
  /\ phase = "elab" /\ Frame.next <= Len(Insts) /\ Insts[Frame.next].primary
  /\ LET inst == Insts[Frame.next]
         path == Append(Frame.path, inst.name)
         obj == [proc |-> inst.of, o |-> cursor, port |-> portArrays(Here, inst),
                 model |-> Model(Library[inst.of].lang, getlevel(path, inst.of))]
         f == checkBody(checkPorts(frag, Here, inst), obj)
     IN CASE obj.model = "fatal" -> Fail
          [] obj.model = "device" ->   \* it stands for the whole sub-tree
               /\ AddObject(path, obj, checkPorts(f, Here, inst))
               /\ stack' = Stepped(stack)
               /\ UNCHANGED <<phase, top, cursor, drivers, fan>>
          [] OTHER ->
               /\ AddObject(path, obj, f)
               /\ cursor' = addVar(cursor, Library[inst.of].local)
               /\ stack' = Append(stack, [path |-> path, next |-> 1])
               /\ UNCHANGED <<phase, top, drivers, fan>>

(* The end of _add_all_inst: the specifications of the user types in the   *)
(* scope; then the caller looks at the connections of the instance again.  *)
NoSecondLook(f, inst) == f     \* mutant
SecondLook(f, inst) == checkPorts(f, table[Front(stack)[Len(stack) - 1].path], inst)

Return ==
  /\ phase = "elab" /\ Frame.next > Len(Insts)
  /\ reg' = addSpecs(reg, Here, Library[Here.proc].types)
  /\ IF Len(stack) = 1
     THEN /\ phase' = "fanout"
          /\ stack' = <<[path |-> <<>>, todo |-> DOMAIN table, visited |-> FALSE]>>
          /\ UNCHANGED frag
     ELSE LET caller == stack[Len(stack) - 1] IN
          /\ frag' = SecondLook(frag, Library[table[caller.path].proc].inst[caller.next])
          /\ stack' = Stepped(Front(stack))
          /\ UNCHANGED phase
  /\ UNCHANGED <<top, cursor, table, multi, drivers, fan>>

-----------------------------------------------------------------------------
(* The second walk: computeFanout. *)
incFanout(list, who) ==
  LET from == IF Len(list) >= HighFanout /\ Len(list) > Window THEN Len(list) - Window + 1 ELSE 1
  IN IF who \in {list[i] : i \in from .. Len(list)} THEN list ELSE Append(list, who)

(* Which object is told of a change: [cell, who], one for each variable    *)
(* that is read.  A rule of a node with several drivers tells the          *)
(* MultiPrsSim of the node.                                                *)
rule(path, g) == <<"rule", path, Library[table[path].proc].gate[g].out>>
wakes(path, g) ==
  LET gid == getGlobalOffset(table[path], Library[table[path].proc].gate[g].out, "bool")
  IN IF gid \in DOMAIN multi THEN <<"multi", gid>> ELSE rule(path, g)
Told(obj, refs, who) ==
  [i \in DOMAIN refs |-> [cell |-> getGlobalOffset(obj, refs[i], "bool"), who |-> who]]

prsReads(path, gate) ==
  FlattenSeq([g \in DOMAIN gate |-> Told(table[path], gate[g].in, wakes(path, g))])
usedVariables(gate) == FlattenSeq([g \in DOMAIN gate |-> gate[g].in])
chpReads(path, gate) == Told(table[path], usedVariables(gate), <<"proc", path>>)
deviceReads(path, p) ==
  LET ports == SelectSeq(OfKind(p, "bool"), LAMBDA i : Library[p].port[i].input)
  IN Told(table[path], [j \in DOMAIN ports |-> PortRef(p, ports[j])], <<"proc", path>>)
reads(path) ==
  LET obj == table[path] IN
  CASE obj.model = "prs" -> prsReads(path, Library[obj.proc].gate)
    [] obj.model \in {"hse", "chp"} -> chpReads(path, Library[obj.proc].gate)
    [] obj.model = "device" -> deviceReads(path, obj.proc)
    [] OTHER -> <<>>

(* addOnePrsSim, for the rules of several-driver nodes. *)
addDrivers(d, path) ==
  LET obj == table[path]
      gate == Library[obj.proc].gate
      mine == IF obj.model # "prs" THEN <<>>
              ELSE SelectSeq(Indices(gate), LAMBDA g : wakes(path, g)[1] = "multi")
  IN FoldLeft(LAMBDA x, g : LET gid == wakes(path, g)[2]
                            IN With(x, gid, Append(IF gid \in DOMAIN x THEN x[gid] ELSE <<>>,
                                                   rule(path, g))),
              d, mine)

Children(path) == {q \in DOMAIN table : q # <<>> /\ Front(q) = path}

Visit ==
  /\ phase = "fanout" /\ stack # <<>> /\ ~Frame.visited
  /\ fan' = FoldLeft(LAMBDA f, r : [f EXCEPT ![r.cell] = incFanout(@, r.who)], fan, reads(Frame.path))
  /\ drivers' = addDrivers(drivers, Frame.path)
  /\ stack' = [stack EXCEPT ![Len(stack)] =
                 [path |-> @.path, todo |-> Children(@.path), visited |-> TRUE]]
  /\ UNCHANGED <<phase, top, cursor, table, frag, multi, reg>>

(* The instances are in a hash table: in any order. *)
Enter ==
  /\ phase = "fanout" /\ stack # <<>> /\ Frame.visited
  /\ \E q \in Frame.todo :
       stack' = Append([stack EXCEPT ![Len(stack)].todo = @ \ {q}],
                       [path |-> q, todo |-> {}, visited |-> FALSE])
  /\ UNCHANGED <<phase, top, cursor, table, frag, multi, drivers, fan, reg>>

Leave ==
  /\ phase = "fanout" /\ stack # <<>> /\ Frame.visited /\ Frame.todo = {}
  /\ stack' = Front(stack)
  /\ phase' = IF Len(stack) = 1 THEN "ready" ELSE phase
  /\ UNCHANGED <<top, cursor, table, frag, multi, drivers, fan, reg>>

Build == AddRoot \/ SkipElement \/ AddInst \/ Return \/ Visit \/ Enter \/ Leave

-----------------------------------------------------------------------------
(* What the design says, without offsets.  The net of a variable is where  *)
(* it is declared, found by following the connections of ports upwards.    *)
Refs(p, k) ==
  (0 .. Library[p].local[k] - 1) \cup {PortRef(p, i) : i \in Range(OfKind(p, k))}
                                 \cup {Global(n) : n \in 0 .. Globals[k] - 1}
InstOf(path) ==
  CHOOSE i \in Range(Library[table[Front(path)].proc].inst) : i.name = Last(path)

(* A device has no local state. *)
Owned(path, k) ==
  {r \in Refs(table[path].proc, k) : table[path].model # "device" \/ r < 0}
Nets(k) ==
  LET up[v \in Seq(STRING) \X Int] ==
        IF isGlobalOffset(v[2]) THEN <<<<"global">>, v[2]>>
        ELSE IF v[2] >= 0 \/ v[1] = <<>> THEN v
        ELSE LET inst == InstOf(v[1]) IN
             up[<<Front(v[1]), inst.conn[CHOOSE i \in Range(OfKind(inst.of, k)) :
                                           PortRef(inst.of, i) = v[2]]>>]
  IN {[path |-> v[1], ref |-> v[2], net |-> up[v]] : v \in
        UNION {{x} \X Owned(x, k) : x \in DOMAIN table}}
=============================================================================
