--------------------------- MODULE PrsGatesProofs ---------------------------
(***************************************************************************)
(* For every circuit, hazard-free or not, whatever the rules, the delays   *)
(* and the dice: the state of the simulator is well-formed, and mk_exclhi  *)
(* and mk_excllo are respected.                                            *)
(***************************************************************************)
EXTENDS PrsGates, SequenceTheorems, TLAPS

-----------------------------------------------------------------------------
(* What is done to one object keeps it well-formed, whatever the values of *)
(* its node and its rules.                                                 *)
LEMMA FrontType ==
  ASSUME NEW s \in Seq(Value) PROVE Front(s) \in Seq(Value)
BY SubSeqProperties DEF Front

LEMMA RemovedType ==
  ASSUME NEW o \in Queued PROVE Removed(o) \in Queued
BY FrontType DEF Removed, Queued

LEMMA PostType ==
  ASSUME NEW o \in Queued, NEW v \in Value PROVE Post(o, v) \in Queued
BY AppendProperties DEF Post, Queued, PENDING, Value, X

LEMMA DoSetValType ==
  ASSUME NEW o \in Queued, NEW cur, NEW v \in Value PROVE DoSetVal(o, cur, v) \in Queued
BY PostType DEF DoSetVal

LEMMA MakeNodeXType ==
  ASSUME NEW o \in Queued, NEW cur PROVE MakeNodeX(o, cur) \in Queued
<1>1. Removed(o) \in Queued
  BY RemovedType
<1>2. Post(Removed(o), X) \in Queued
  BY <1>1, PostType DEF Value
<1>3. [Removed(o) EXCEPT !.flags = PENDING_NONE] \in Queued
  BY <1>1 DEF Queued, PENDING_NONE
<1> QED
  BY <1>2, <1>3 DEF MakeNodeX

LEMMA DecideType ==
  ASSUME NEW o \in Queued, NEW cur, NEW u, NEW d PROVE Decide(o, cur, u, d) \in Queued
<1>1. 0 \in Value /\ 1 \in Value
  BY DEF Value
<1>2. DoSetVal(o, cur, 0) \in Queued /\ DoSetVal(o, cur, 1) \in Queued
  BY <1>1, DoSetValType
<1>3. MakeNodeX(o, cur) \in Queued
  BY MakeNodeXType
<1> QED
  BY <1>2, <1>3 DEF Decide

LEMMA PropagatedType ==
  ASSUME NEW o \in Queued, NEW g, NEW v PROVE Propagated(g, o, v) \in Queued
<1> DEFINE cur == v[Out[g]]
           left == IF Unstable(o, Up(g, v), Dn(g, v)) THEN MakeNodeX(o, cur) ELSE o
<1>1. left \in Queued
  BY MakeNodeXType
<1>2. Decide(left, cur, Up(g, v), Dn(g, v)) \in Queued
  BY <1>1, DecideType
<1> QED
  BY <1>2 DEF Propagated

LEMMA RecheckedType ==
  ASSUME NEW o \in Queued, NEW g, NEW v PROVE Rechecked(g, o, v) \in Queued
<1>1. 0 \in Value /\ 1 \in Value
  BY DEF Value
<1>2. DoSetVal(o, v[Out[g]], 0) \in Queued /\ DoSetVal(o, v[Out[g]], 1) \in Queued
  BY <1>1, DoSetValType
<1> QED
  BY <1>2 DEF Rechecked

LEMMA ToldType ==
  ASSUME NEW os \in [Gate -> Queued], NEW gs, NEW v PROVE Told(gs, os, v) \in [Gate -> Queued]
BY PropagatedType DEF Told

LEMMA FlushType ==
  ASSUME NEW o \in Queued PROVE Flush(o) \in Queued
<1>1. Removed(o) \in Queued
  BY RemovedType
<1> QED
  BY <1>1 DEF Flush, Queued, PENDING_NONE

LEMMA DeliveredType ==
  ASSUME NEW o \in Queued, NEW i \in DOMAIN o.queue
  PROVE  Delivered(o, i) \in Queued /\ o.queue[i] \in Value
<1>1. /\ o.flags \in 0 .. 3
      /\ o.queue \in Seq(Value)
      /\ i \in 1 .. Len(o.queue)
      /\ Len(o.queue) \in Nat
  BY DEF Queued
<1>2. SubSeq(o.queue, 1, i - 1) \in Seq(Value) /\ SubSeq(o.queue, i + 1, Len(o.queue)) \in Seq(Value)
  BY <1>1, SubSeqProperties
<1>3. RemoveAt(o.queue, i) \in Seq(Value)
  BY <1>2 DEF RemoveAt
<1> QED
  BY <1>1, <1>3 DEF Delivered, Queued, PENDING_NONE

-----------------------------------------------------------------------------
LEMMA InitType == Init => TypeOK
<1> SUFFICES ASSUME Init PROVE TypeOK
  OBVIOUS
<1> DEFINE blank == [g \in Gate |-> [flags |-> PENDING_NONE, queue |-> <<>>, pending |-> "null"]]
<1>1. val \in [Node -> Value]
  BY DEF Init, Value
<1>2. blank \in [Gate -> Queued]
  BY DEF Queued, PENDING_NONE
<1>3. Told(Gate, blank, val) \in [Gate -> Queued]
  BY <1>2, ToldType
<1> QED
  BY <1>1, <1>3 DEF Init, TypeOK

LEMMA FiresType ==
  ASSUME TypeOK, NEW g \in Gate, NEW i \in DOMAIN ob[g].queue, Fires(g, i)
  PROVE  TypeOK'
<1> DEFINE n == Out[g]
           v == ob[g].queue[i]
           killed == {h \in Gate \ {g} : Out[h] \in Rivals(n, v)}
           os == [h \in Gate |-> IF h = g THEN Delivered(ob[g], i)
                                 ELSE IF h \in killed THEN Flush(ob[h]) ELSE ob[h]]
           told == Told(Fanout(n), os, Stored(n, v))
<1>1. ob[g] \in Queued /\ n \in Node
  BY OutAssumption DEF TypeOK
<1>2. Delivered(ob[g], i) \in Queued /\ v \in Value
  BY <1>1, DeliveredType
<1>3. val' \in [Node -> Value]
  BY <1>1, <1>2 DEF Fires, Stored, TypeOK
<1>4. os \in [Gate -> Queued]
  BY <1>2, FlushType DEF TypeOK
<1>5. told \in [Gate -> Queued]
  BY <1>4, ToldType
<1>6. Rechecked(g, told[g], val') \in Queued
  BY <1>5, RecheckedType
<1>7. ob' = told \/ ob' = [told EXCEPT ![g] = Rechecked(g, told[g], val')]
  BY <1>5 DEF Fires
<1>8. ob' \in [Gate -> Queued]
  BY <1>5, <1>6, <1>7
<1>9. resetMode' \in BOOLEAN /\ warned' \in BOOLEAN /\ misused' \in BOOLEAN
  BY DEF Fires, Reported, TypeOK
<1> QED
  BY <1>3, <1>8, <1>9 DEF TypeOK

LEMMA RefusedType ==
  ASSUME TypeOK, NEW g \in Gate, NEW i \in DOMAIN ob[g].queue, Refused(g, i)
  PROVE  TypeOK'
<1>1. Delivered(ob[g], i) \in Queued
  BY DeliveredType DEF TypeOK
<1>2. [Delivered(ob[g], i) EXCEPT !.flags = PENDING_NONE] \in Queued
  BY <1>1 DEF Queued, PENDING_NONE
<1>3. ob' = [ob EXCEPT ![g] = [Delivered(ob[g], i) EXCEPT !.flags = PENDING_NONE]]
  BY DEF Refused, TypeOK
<1>4. ob' \in [Gate -> Queued]
  BY <1>2, <1>3 DEF TypeOK
<1> QED
  BY <1>4 DEF Refused, TypeOK

LEMMA EnvSetType ==
  ASSUME TypeOK, NEW s \in Stimuli, EnvSet(s)
  PROVE  TypeOK'
<1>1. val' \in [Node -> Value]
  BY StimuliAssumption DEF EnvSet, Stored, TypeOK
<1>2. ob' \in [Gate -> Queued]
  BY ToldType DEF EnvSet, TypeOK
<1>3. resetMode' \in BOOLEAN /\ warned' \in BOOLEAN /\ misused' \in BOOLEAN
  BY DEF EnvSet, Reported, TypeOK
<1> QED
  BY <1>1, <1>2, <1>3 DEF TypeOK

(* Nodes, objects and modes keep their types.                              *)
THEOREM TypeCorrect == Spec => []TypeOK
<1>1. TypeOK /\ [Next]_vars => TypeOK'
  <2> SUFFICES ASSUME TypeOK, [Next]_vars PROVE TypeOK'
    OBVIOUS
  <2>1. CASE UNCHANGED vars
    BY <2>1 DEF vars, TypeOK
  <2>2. ASSUME NEW g \in Gate, Step(g) PROVE TypeOK'
    BY <2>2, FiresType, RefusedType DEF Step
  <2>3. ASSUME NEW s \in Stimuli, EnvSet(s) PROVE TypeOK'
    BY <2>3, EnvSetType
  <2>4. CASE EndReset
    BY <2>4 DEF EndReset, TypeOK
  <2> QED
    BY <2>1, <2>2, <2>3, <2>4 DEF Next
<1> QED
  BY <1>1, InitType, PTL DEF Spec

-----------------------------------------------------------------------------
(* One group, in the direction in which its nodes exclude each other.      *)
OnlyOne(S, v) == \A m, n \in S : val[m] = v /\ val[n] = v => m = n

(* setBool lets a node of a group take the value only when no other node   *)
(* of the group has it; no other change matters to the group.              *)
LEMMA FiresKeepsGroup ==
  ASSUME TypeOK, NEW g \in Gate, NEW i \in DOMAIN ob[g].queue, Fires(g, i),
         NEW v \in {0, 1}, NEW S \in Range(Excl(v)), S \subseteq Node, OnlyOne(S, v)
  PROVE  OnlyOne(S, v)'
<1> DEFINE n == Out[g]
           w == ob[g].queue[i]
<1>1. Allowed(n, w) /\ val' = [val EXCEPT ![n] = w]
  BY DEF Fires, Stored
<1>2. SUFFICES ASSUME NEW a \in S, NEW b \in S, val'[a] = v, val'[b] = v, a = n, b # n
               PROVE  FALSE
  BY <1>1 DEF OnlyOne, TypeOK
<1>3. w = v /\ val[b] = v
  BY <1>1, <1>2 DEF TypeOK
<1>4. b \in Rivals(n, v)
  BY <1>2 DEF Rivals
<1> QED
  BY <1>1, <1>3, <1>4 DEF Allowed

(* The environment does not touch a node of a group.                       *)
LEMMA EnvSetKeepsGroup ==
  ASSUME TypeOK, NEW s \in Stimuli, EnvSet(s),
         NEW v \in {0, 1}, NEW S \in Range(Excl(v)), S \subseteq Node, OnlyOne(S, v)
  PROVE  OnlyOne(S, v)'
<1>1. S \subseteq Grouped
  BY DEF Grouped, Excl
<1>2. s.node \notin S /\ val' = [val EXCEPT ![s.node] = s.to]
  BY <1>1, StimuliAssumption DEF EnvSet, Stored
<1>3. \A m \in S : val'[m] = val[m]
  BY <1>2 DEF TypeOK
<1> QED
  BY <1>3 DEF OnlyOne

(* mk_exclhi and mk_excllo: no two nodes of a group are at 1, or at 0,     *)
(* together, in any circuit.                                               *)
THEOREM GroupsExclusive == Spec => []Exclusive
<1> DEFINE Kept == \A v \in {0, 1} : \A S \in Range(Excl(v)) : OnlyOne(S, v)
<1>1. Kept <=> Exclusive
  BY DEF OnlyOne, Exclusive, Excl
<1>2. \A v \in {0, 1} : \A S \in Range(Excl(v)) : S \subseteq Node
  BY ExclAssumption DEF Excl, Range
<1>3. Init => Kept
  BY <1>2 DEF Init, OnlyOne, X
<1>4. TypeOK /\ Kept /\ [Next]_vars => Kept'
  <2> SUFFICES ASSUME TypeOK, Kept, [Next]_vars,
                      NEW v \in {0, 1}, NEW S \in Range(Excl(v))
               PROVE  OnlyOne(S, v)'
    BY DEF Excl
  <2>0. S \subseteq Node /\ OnlyOne(S, v)
    BY <1>2
  <2>1. CASE UNCHANGED vars
    BY <2>0, <2>1 DEF vars, OnlyOne
  <2>2. ASSUME NEW g \in Gate, Step(g) PROVE OnlyOne(S, v)'
    <3>1. PICK i \in DOMAIN ob[g].queue : Fires(g, i) \/ Refused(g, i)
      BY <2>2 DEF Step
    <3>2. CASE Fires(g, i)
      BY <2>0, <3>2, FiresKeepsGroup
    <3>3. CASE Refused(g, i)
      BY <2>0, <3>3 DEF Refused, OnlyOne
    <3> QED
      BY <3>1, <3>2, <3>3
  <2>3. ASSUME NEW s \in Stimuli, EnvSet(s) PROVE OnlyOne(S, v)'
    BY <2>0, <2>3, EnvSetKeepsGroup
  <2>4. CASE EndReset
    BY <2>0, <2>4 DEF EndReset, OnlyOne
  <2> QED
    BY <2>1, <2>2, <2>3, <2>4 DEF Next
<1> QED
  BY <1>1, <1>3, <1>4, TypeCorrect, PTL DEF Spec
=============================================================================
