------------------------------ MODULE PrsGates ------------------------------
(***************************************************************************)
(* Production rules as the discrete-event simulator runs them.  A gate is  *)
(* a node with the rules that drive it: one OnePrsSim, or a MultiPrsSim    *)
(* when rules in several processes drive the same node.  A change of a     *)
(* node evaluates the gates it fans out to, at once; each decides whether  *)
(* its output should change, and posts an event that will change it.  The  *)
(* rule may be withdrawn, or contradicted, before the event is delivered.  *)
(* mk_exclhi and mk_excllo (ActExclConstraint) forbid some changes and     *)
(* kill the pending changes they exclude.                                  *)
(*                                                                         *)
(* A guard is an OR of ANDs of literals, a literal [node |-> n, is |-> b]. *)
(* Events are delivered in any order: delays are left out ("random" draws  *)
(* any, 0 included).  Rules with the attribute unstab, pass gates, and     *)
(* timing constraints are left out.                                        *)
(***************************************************************************)
EXTENDS Naturals, Sequences, SequencesExt, FiniteSets

CONSTANTS
  Node,          \* Booleans
  Gate,          \* simulation objects
  Out,           \* gate -> the node it drives
  Drivers,       \* gate -> sequence of [up, upw, dn, dnw], the guards
  ExclHi, ExclLo,\* sequences of sets of nodes, as they were declared
  RandomChoice,  \* _sim_rand_excl
  Stimuli,       \* what the environment does: [node, to, when]
  MaxQueue       \* bound: it waits while a gate has more events pending

X == 2
Value == {0, 1, X}
PENDING_NONE == 0
PENDING(v) == 1 + v    \* PENDING_0, PENDING_1, PENDING_X

Grouped == UNION (Range(ExclHi) \cup Range(ExclLo))

(* Two objects never drive one node: they are one MultiPrsSim.             *)
ASSUME OutAssumption ==
  /\ Out \in [Gate -> Node]
  /\ \A g, h \in Gate : Out[g] = Out[h] => g = h
(* A group does not hold a node driven by several processes, of which the  *)
(* program warns.  Their rules have no guard that is always true.          *)
Guard == SUBSET SUBSET [node : Node, is : {0, 1}]
ASSUME DriversAssumption ==
  /\ Drivers \in [Gate -> Seq([up : Guard, upw : Guard, dn : Guard, dnw : Guard]) \ {<<>>}]
  /\ \A g \in Gate : Len(Drivers[g]) > 1 =>
       /\ Out[g] \notin Grouped
       /\ \A i \in DOMAIN Drivers[g] :
            LET r == Drivers[g][i] IN {} \notin r.up \cup r.upw \cup r.dn \cup r.dnw
ASSUME ExclAssumption == ExclHi \in Seq(SUBSET Node) /\ ExclLo \in Seq(SUBSET Node)
(* The environment sets nodes that no rule drives and no group holds.      *)
ASSUME StimuliAssumption ==
  \A s \in Stimuli : /\ s.node \in Node \ Grouped /\ \A g \in Gate : Out[g] # s.node
                     /\ s.to \in Value
ASSUME QueueAssumption == MaxQueue \in Nat

VARIABLES
  val,       \* the state of every node
  ob,        \* the object of each gate: its flags, its events in the queue,
             \* what its _pending points to ("null", the "last" event it has
             \* posted, or a "stale" one, which is no longer in the queue)
  resetMode, \* _prs_sim_mode
  warned,    \* history: an instability or an interference was reported
  misused    \* history: Remove was called on a stale event

vars == <<val, ob, resetMode, warned, misused>>

Idle == \A g \in Gate : ob[g].queue = <<>>
Queued == [flags : 0 .. 3, queue : Seq(Value), pending : {"null", "last", "stale"}]

TypeOK ==
  /\ val \in [Node -> Value]
  /\ ob \in [Gate -> Queued]
  /\ resetMode \in BOOLEAN /\ warned \in BOOLEAN /\ misused \in BOOLEAN

-----------------------------------------------------------------------------
(* Guards, in three values. *)
Not(a) == IF a = X THEN X ELSE 1 - a
AndOf(S) == IF 0 \in S THEN 0 ELSE IF X \in S THEN X ELSE 1
OrOf(S) == IF 1 \in S THEN 1 ELSE IF X \in S THEN X ELSE 0
Literal(l, v) == IF l.is = 1 THEN v[l.node] ELSE Not(v[l.node])
Eval(guard, v) == OrOf({AndOf({Literal(l, v) : l \in conj}) : conj \in guard})

(* The pull-up or the pull-down of a gate: the drivers are evaluated until *)
(* one of them is on; the weak ones count when no other is.                *)
Scan(vals) == IF 1 \in Range(vals) THEN 1 ELSE Last(vals)
Pull(g, strong, weak, v) ==
  LET s == Scan([i \in DOMAIN Drivers[g] |-> Eval(Drivers[g][i][strong], v)])
      w == Scan([i \in DOMAIN Drivers[g] |-> Eval(Drivers[g][i][weak], v)])
  IN IF s # 0 THEN [is |-> s, weak |-> FALSE] ELSE [is |-> w, weak |-> w # 0]
Up(g, v) == Pull(g, "up", "upw", v)
Dn(g, v) == Pull(g, "dn", "dnw", v)

(* p is on, and its opponent is off or weaker. *)
Wins(p, q) == p.is = 1 /\ (q.is = 0 \/ (~p.weak /\ q.weak))
Interfere(u, d) == u.is # 0 /\ d.is # 0 /\ ~Wins(u, d) /\ ~Wins(d, u)

Mentions(g, n) ==
  \E i \in DOMAIN Drivers[g] :
    LET r == Drivers[g][i] IN
    \E conj \in r.up \cup r.upw \cup r.dn \cup r.dnw : \E l \in conj : l.node = n
FanoutShort(n) ==              \* mutant: the list is one entry short
  LET all == {g \in Gate : Mentions(g, n)} IN
  IF all = {} THEN {} ELSE all \ {CHOOSE g \in all : TRUE}
Fanout(n) == {g \in Gate : Mentions(g, n)}

-----------------------------------------------------------------------------
(* Event, Remove, and the macros DO_SET_VAL and MAKE_NODE_X, on the state  *)
(* o of one object whose node is at cur.                                   *)
Post(o, v) == [flags |-> PENDING(v), queue |-> Append(o.queue, v), pending |-> "last"]
Removed(o) ==
  IF o.pending = "last" THEN [o EXCEPT !.queue = Front(@), !.pending = "stale"] ELSE o

DoSetValTwice(o, cur, v) ==    \* mutant: an event that is pending is posted again
  IF cur # v THEN Post(o, v) ELSE o
DoSetVal(o, cur, v) == IF cur # v /\ o.flags # PENDING(v) THEN Post(o, v) ELSE o

MakeNodeX(o, cur) ==
  IF cur # X
    THEN IF o.flags = PENDING(X) THEN o ELSE Post(Removed(o), X)
    ELSE IF o.flags \in {PENDING(0), PENDING(1)}
           THEN [Removed(o) EXCEPT !.flags = PENDING_NONE] ELSE o

(* The event that is pending is no longer what the rules ask for.          *)
UnstableNot(o, u, d) == FALSE  \* mutant: the event is left alone
Unstable(o, u, d) ==
  \/ o.flags = PENDING(1) /\ u.is # 1
  \/ o.flags = PENDING(0) /\ d.is # 1

(* propagate, once Unstable has been dealt with. *)
Decide(o, cur, u, d) ==
  CASE Wins(u, d) -> DoSetVal(o, cur, 1)
    [] Wins(d, u) -> DoSetVal(o, cur, 0)
    [] \/ Interfere(u, d)
       \/ d.is = 0 /\ u.is = X /\ cur = 0
       \/ u.is = 0 /\ d.is = X /\ cur = 1 -> MakeNodeX(o, cur)
    [] OTHER -> o

Propagated(g, o, v) ==
  LET cur == v[Out[g]]
      u == Up(g, v)
      d == Dn(g, v)
  IN Decide(IF Unstable(o, u, d) THEN MakeNodeX(o, cur) ELSE o, cur, u, d)

(* What it reports: in reset mode, neither unknown rules nor unknown       *)
(* interference.                                                           *)
Warns(g, o, v) ==
  LET u == Up(g, v)
      d == Dn(g, v)
  IN \/ Unstable(o, u, d) /\ (~resetMode \/ (IF o.flags = PENDING(1) THEN u.is ELSE d.is) = 0)
     \/ Interfere(u, d) /\ (~resetMode \/ (u.is = 1 /\ d.is = 1))

(* Remove is called on the event _pending points to. *)
Removes(g, o, v) ==
  LET cur == v[Out[g]]
      u == Up(g, v)
      d == Dn(g, v)
  IN \/ Unstable(o, u, d)
     \/ cur # X /\ o.flags # PENDING(X) /\ Decide(o, cur, u, d) = MakeNodeX(o, cur)

(* Every gate in gs is told that some node has changed. *)
Told(gs, os, v) == [g \in Gate |-> IF g \in gs THEN Propagated(g, os[g], v) ELSE os[g]]

(* Step, when the node has become X and nothing is pending: only a rule    *)
(* that wins is looked for.                                                *)
RecheckedNot(g, o, v) == o     \* mutant: it does not look again
Rechecked(g, o, v) ==
  LET u == Up(g, v)
      d == Dn(g, v)
  IN CASE Wins(u, d) -> DoSetVal(o, v[Out[g]], 1)
       [] Wins(d, u) -> DoSetVal(o, v[Out[g]], 0)
       [] OTHER -> o

-----------------------------------------------------------------------------
(* The other nodes of the groups that a change of n to v has to respect,   *)
(* and of the group declared last, the head of the list.                   *)
ExclSwapped(v) ==              \* mutant: the two lists are swapped
  IF v = 1 THEN ExclLo ELSE IF v = 0 THEN ExclHi ELSE <<>>
Excl(v) == IF v = 1 THEN ExclHi ELSE IF v = 0 THEN ExclLo ELSE <<>>

Rivals(n, v) == (UNION {S \in Range(Excl(v)) : n \in S}) \ {n}
Newest(n, v, i) ==
  n \in Excl(v)[i] /\ \A j \in DOMAIN Excl(v) : j > i => n \notin Excl(v)[j]
HeadRivals(n, v) ==
  (UNION {Excl(v)[i] : i \in {i \in DOMAIN Excl(v) : Newest(n, v, i)}}) \ {n}

(* safeChange: the check; the dice; the pending changes it kills.          *)
Allowed(n, v) == \A m \in Rivals(n, v) : val[m] = 1 - v

MayLose(n, v) ==
  /\ RandomChoice
  /\ \E h \in Gate : Out[h] \in HeadRivals(n, v) /\ ob[h].pending # "null"

FlushNot(o) == o               \* mutant: the pending changes are not killed
Flush(o) == IF o.pending = "null" THEN o ELSE [Removed(o) EXCEPT !.flags = PENDING_NONE]

(* The event at i is delivered to Step. *)
DeliveredHandle(o, i) ==       \* mutant: _pending still points to the event
  [flags |-> IF o.flags = PENDING(o.queue[i]) THEN PENDING_NONE ELSE o.flags,
   queue |-> RemoveAt(o.queue, i),
   pending |-> IF o.pending = "last" /\ i = Len(o.queue) THEN "stale" ELSE o.pending]
Delivered(o, i) ==
  [flags |-> IF o.flags = PENDING(o.queue[i]) THEN PENDING_NONE ELSE o.flags,
   queue |-> RemoveAt(o.queue, i),
   pending |-> "null"]

StoredX(n, v) ==               \* mutant: both bits of the old value survive
  [val EXCEPT ![n] = IF @ = X /\ v # X THEN X + v ELSE v]
Stored(n, v) == [val EXCEPT ![n] = v]

Init ==
  /\ val = [n \in Node |-> X]
  /\ ob = Told(Gate, [g \in Gate |-> [flags |-> PENDING_NONE, queue |-> <<>>,
                                      pending |-> "null"]], val)
  /\ resetMode = TRUE
  /\ warned = FALSE /\ misused = FALSE

(* The gates of gs learn that the nodes are at v now. *)
Reported(gs, os, v, bad) ==
  /\ warned' = (warned \/ \E g \in gs : Warns(g, os[g], v))
  /\ misused' = (misused \/ bad \/ \E g \in gs : os[g].pending = "stale" /\ Removes(g, os[g], v))

(* Step of the object of g, for the event at i: setBool accepts the value, *)
(* or refuses it.                                                          *)
Fires(g, i) ==
  LET n == Out[g]
      v == ob[g].queue[i]
      killed == {h \in Gate \ {g} : Out[h] \in Rivals(n, v)}
      os == [h \in Gate |-> IF h = g THEN Delivered(ob[g], i)
                            ELSE IF h \in killed THEN Flush(ob[h]) ELSE ob[h]]
      told == Told(Fanout(n), os, Stored(n, v))
  IN /\ Allowed(n, v)
     /\ val' = Stored(n, v)
     /\ ob' = IF v = X /\ told[g].flags = PENDING_NONE
                THEN [told EXCEPT ![g] = Rechecked(g, @, val')] ELSE told
     /\ Reported(Fanout(n), os, val', \E h \in killed : ob[h].pending = "stale")
     /\ UNCHANGED resetMode

Refused(g, i) ==
  /\ LET v == ob[g].queue[i] IN ~Allowed(Out[g], v) \/ MayLose(Out[g], v)
  /\ ob' = [ob EXCEPT ![g] = [Delivered(@, i) EXCEPT !.flags = PENDING_NONE]]
  /\ UNCHANGED <<val, resetMode, warned, misused>>

Step(g) == \E i \in DOMAIN ob[g].queue : Fires(g, i) \/ Refused(g, i)

(* A node no rule drives is set, at the console or by an action of an      *)
(* Initialize block.  The actions of the block but the last ones are run   *)
(* one at a time, each until no event is pending.                          *)
Possible(s) ==
  /\ s.reset = resetMode
  /\ val[s.node] # s.to
  /\ \A n \in DOMAIN s.when : val[n] = s.when[n]

EnvSet(s) ==
  /\ Possible(s)
  /\ IF resetMode THEN Idle ELSE \A g \in Gate : Len(ob[g].queue) <= MaxQueue
  /\ val' = Stored(s.node, s.to)
  /\ ob' = Told(Fanout(s.node), ob, val')
  /\ Reported(Fanout(s.node), ob, val', FALSE)
  /\ UNCHANGED resetMode

EndReset ==
  /\ resetMode
  /\ Idle
  /\ \A s \in Stimuli : ~Possible(s)
  /\ resetMode' = FALSE
  /\ UNCHANGED <<val, ob, warned, misused>>

Next ==
  \/ \E g \in Gate : Step(g)
  \/ \E s \in Stimuli : EnvSet(s)
  \/ EndReset

(* The event queue delivers every event.  Nothing obliges the environment. *)
Fairness == WF_vars(EndReset) /\ \A g \in Gate : WF_vars(Step(g))
Spec == Init /\ [][Next]_vars /\ Fairness

-----------------------------------------------------------------------------
(* mk_exclhi, mk_excllo: no two nodes of a group are ever at 1, or at 0,   *)
(* together (ActExclConstraint::safeChange).                               *)
Exclusive ==
  /\ \A S \in Range(ExclHi) : \A m, n \in S : val[m] = 1 /\ val[n] = 1 => m = n
  /\ \A S \in Range(ExclLo) : \A m, n \in S : val[m] = 0 /\ val[n] = 0 => m = n

(* A hazard-free circuit never has more than one event of an object in the *)
(* queue, and the flags name it: the case in which flags and _pending are  *)
(* enough to take an event back (DO_SET_VAL, Step, flushPending).          *)
OneEvent ==
  \A g \in Gate :
    ob[g].queue = IF ob[g].flags = PENDING_NONE THEN <<>> ELSE <<ob[g].flags - 1>>

(* A hazard-free circuit gives no warning whatever the delays: neither the *)
(* order of the events, nor a change that an exclusion refused or killed,  *)
(* looks like an instability or an interference (propagate).               *)
NoFalseAlarm == ~warned

(* The Event _pending points to is in the queue when Remove is called on   *)
(* it, by MAKE_NODE_X or by flushPending.                                  *)
NoStaleRemoval == ~misused

(* When there is nothing left to happen the rules are satisfied: a node    *)
(* whose pull-up wins is at 1 and one whose pull-down wins is at 0, unless *)
(* an exclusion forbids it (propagate and Step post every change).         *)
Settled ==
  Idle /\ ~resetMode =>
    \A g \in Gate :
      LET u == Up(g, val)
          d == Dn(g, val)
      IN /\ Wins(u, d) => val[Out[g]] = 1 \/ ~Allowed(Out[g], 1)
         /\ Wins(d, u) => val[Out[g]] = 0 \/ ~Allowed(Out[g], 0)

(* An X that the rules resolve does not stay, whatever hazards the circuit *)
(* has: when nothing is left to happen, a node no exclusion applies to has *)
(* no winning rule if it is at X (Step looks again when it has set it).    *)
XIsCleared ==
  Idle => \A g \in Gate :
            LET u == Up(g, val)
                d == Dn(g, val)
            IN val[Out[g]] = X => /\ Wins(u, d) => Rivals(Out[g], 1) # {}
                                  /\ Wins(d, u) => Rivals(Out[g], 0) # {}

(* A node is not left contradicting its rules in silence: when nothing is  *)
(* left to happen and a node no exclusion applies to is not where its      *)
(* winning rule would have it, a warning has been given (propagate).       *)
NotSilentlyWrong ==
  Idle /\ ~warned =>
    \A g \in Gate :
      LET u == Up(g, val)
          d == Dn(g, val)
      IN /\ Wins(u, d) => val[Out[g]] = 1 \/ Rivals(Out[g], 1) # {}
         /\ Wins(d, u) => val[Out[g]] = 0 \/ Rivals(Out[g], 0) # {}

(* A hazard-free circuit behaves, through the event queue, as its rules    *)
(* do: see ProductionRules.                                                *)
RulesOf(g) ==
  UNION {LET r == Drivers[g][i]
             rule(to, guard, weak) == [node |-> Out[g], to |-> to, guard |-> guard, weak |-> weak]
         IN {rule(1, r.up, FALSE), rule(1, r.upw, TRUE),
             rule(0, r.dn, FALSE), rule(0, r.dnw, TRUE)} : i \in DOMAIN Drivers[g]}
R == INSTANCE ProductionRules WITH Rule <- UNION {RulesOf(g) : g \in Gate}
ImplementsProductionRules == R!Spec
=============================================================================
