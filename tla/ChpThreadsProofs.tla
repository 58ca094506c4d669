-------------------------- MODULE ChpThreadsProofs --------------------------
(***************************************************************************)
(* What ChpThreads does with every program of the shape that ChpProgram    *)
(* states, with every interleaving: a fork takes only free slots and no    *)
(* slot is lost, a program never runs out of the slots reserved for it,    *)
(* and the counter of a join together with the branches of its fork that   *)
(* are still occupied is the number of branches the join waits for.        *)
(* Along a line of control of the program (InLine) there is one thread at  *)
(* most, or a join that waits for others on its behalf: so statements are  *)
(* completed in the order of the text, and all of them by the end.         *)
(***************************************************************************)
EXTENDS ChpThreads, FiniteSetTheorems, FunctionTheorems, WellFoundedInduction, TLAPS

(* The part of TypeOK that does not depend on where threads go. *)
SlotTypes ==
  /\ root \in Roots
  /\ pc = [s \in Slot |-> pc[s]]
  /\ holes \in [Slot -> Slot \cup {-1}]
  /\ pcused \in 0 .. Npc[root]

SlotInv == SlotTypes /\ SlotsExclusive

LEMMA NullIsNoNode == NULL \notin Node
BY NodeAssumption DEF NULL

LEMMA SlotFacts ==
  ASSUME SlotTypes
  PROVE  Npc[root] \in Nat \ {0} /\ Npc[root] - 1 \in Int /\ pcused \in Nat
BY RootsAssumption DEF SlotTypes, WellBuilt

(* The Assert of _updatepc: while a thread runs, pcused is not 0.  Were it *)
(* 0, the stack would hold Npc slots, all different and none of them the   *)
(* slot of that thread.                                                    *)
LEMMA RunningUsesSlot ==
  ASSUME SlotInv, NEW s \in Slot, pc[s] # NULL
  PROVE  pcused > 0
<1>1. SUFFICES ASSUME pcused = 0 PROVE FALSE
  BY SlotFacts DEF SlotInv
<1>2. Free = Slot
  BY <1>1 DEF Free, Slot
<1>3. IsFiniteSet(Slot) /\ Cardinality(Slot) = Npc[root]
  <2>1. 0 \in Int /\ Npc[root] - 1 \in Int /\ ~(0 > Npc[root] - 1)
    BY SlotFacts DEF SlotInv
  <2>2. IsFiniteSet(0 .. Npc[root] - 1) /\ Cardinality(0 .. Npc[root] - 1) = Npc[root] - 1 - 0 + 1
    BY <2>1, FS_Interval
  <2> QED
    BY <2>2, SlotFacts DEF SlotInv, Slot
<1>4. IsFiniteSet(Slot \ {s}) /\ Cardinality(Slot \ {s}) = Npc[root] - 1
  BY <1>3, FS_RemoveElement
<1>5. holes \in [Slot -> Slot \ {s}]
  <2>1. \A i \in Slot : holes[i] \in Slot \ {s}
    BY <1>2 DEF SlotInv, SlotsExclusive
  <2> QED
    BY <2>1 DEF SlotInv, SlotTypes
<1>6. Cardinality(Slot \ {s}) < Cardinality(Slot)
  BY <1>3, <1>4, SlotFacts DEF SlotInv
<1>7. \E i, j \in Slot : i # j /\ holes[i] = holes[j]
  BY <1>3, <1>4, <1>5, <1>6, FS_PigeonHole
<1> QED
  BY <1>2, <1>7 DEF SlotInv, SlotsExclusive

(* A thread moves on, or ends and pushes its slot. *)
LEMMA MoveKeepsSlots ==
  ASSUME SlotInv, NEW s \in Slot, pc[s] # NULL, NEW r, Move(s, r), root' = root
  PROVE  SlotInv'
<1>1. Slot' = Slot /\ pcused > 0
  BY RunningUsesSlot DEF Slot
<1>2. pc' = [pc EXCEPT ![s] = r.node]
  BY DEF Move
<1>3. pc' = [q \in Slot |-> pc'[q]]
  BY <1>2 DEF SlotInv, SlotTypes
<1>4. pc'[s] = r.node /\ \A q \in Slot : q # s => pc'[q] = pc[q]
  BY <1>2 DEF SlotInv, SlotTypes
<1>5. CASE r.node # NULL
  <2>1. UNCHANGED <<holes, pcused>> /\ Free' = Free
    BY <1>5 DEF Move, Free
  <2>2. SlotTypes'
    BY <1>1, <1>3, <2>1 DEF SlotInv, SlotTypes
  <2>3. SlotsExclusive'
    BY <1>1, <1>4, <1>5, <2>1 DEF SlotInv, SlotsExclusive
  <2> QED
    BY <2>2, <2>3 DEF SlotInv
<1>6. CASE r.node = NULL
  <2>1. holes' = [holes EXCEPT ![pcused - 1] = s] /\ pcused' = pcused - 1
    BY <1>1, <1>6 DEF Move
  <2>2. pcused - 1 \in Slot /\ Free' = Free \cup {pcused - 1} /\ pcused - 1 \notin Free
        /\ Free \subseteq Slot
    BY <1>1, <2>1, SlotFacts DEF SlotInv, SlotTypes, Slot, Free
  <2>3. holes'[pcused - 1] = s /\ \A i \in Free : holes'[i] = holes[i]
    BY <2>1, <2>2 DEF SlotInv, SlotTypes
  <2>4. SlotTypes'
    <3>1. holes' \in [Slot -> Slot \cup {-1}]
      BY <2>1 DEF SlotInv, SlotTypes
    <3>2. pcused' \in 0 .. Npc[root]
      BY <1>1, <2>1, SlotFacts DEF SlotInv, SlotTypes
    <3> QED
      BY <1>1, <1>3, <3>1, <3>2 DEF SlotInv, SlotTypes
  <2>5. \A i \in Free : holes'[i] \in Slot /\ holes'[i] # s /\ pc'[holes'[i]] = NULL
    BY <1>4, <2>3 DEF SlotInv, SlotsExclusive
  <2>6. \A i, j \in Free' : holes'[i] = holes'[j] => i = j
    <3>1. \A i, j \in Free : holes'[i] = holes'[j] => i = j
      BY <2>3 DEF SlotInv, SlotsExclusive
    <3> QED
      BY <2>2, <2>3, <2>5, <3>1
  <2>7. \A q \in Slot : pc'[q] = NULL => \E i \in Free' : holes'[i] = q
    <3> SUFFICES ASSUME NEW q \in Slot, pc'[q] = NULL
                 PROVE  \E i \in Free' : holes'[i] = q
      OBVIOUS
    <3>1. CASE q = s
      BY <2>2, <2>3, <3>1
    <3>2. CASE q # s
      <4>1. PICK i \in Free : holes[i] = q
        BY <1>4, <3>2 DEF SlotInv, SlotsExclusive
      <4> QED
        BY <2>2, <2>3, <4>1
    <3> QED
      BY <3>1, <3>2
  <2>8. SlotsExclusive'
    BY <1>1, <1>4, <1>6, <2>2, <2>3, <2>5, <2>6, <2>7 DEF SlotsExclusive
  <2> QED
    BY <2>4, <2>8 DEF SlotInv
<1> QED
  BY <1>5, <1>6

(* A fork takes the slots at the bottom of the free part of the stack; the *)
(* rest of it is as before, and every slot taken now has a thread.         *)
LEMMA ForkKeepsSlots ==
  ASSUME SlotInv, NEW s \in Slot, Fork(s)
  PROVE  SlotInv'
<1> DEFINE all == Live(pc[s])
           more == Len(all) - 1
<1>1. root' = root /\ Slot' = Slot
  BY DEF Fork, Slot
<1>2. pc[s] \in Forks /\ pc[s] # NULL
  BY NullIsNoNode DEF Fork, Running, Forks
<1>3. all \in Seq(Node) /\ more \in Nat /\ \A k \in 1 .. more + 1 : all[k] \in Node
  BY <1>2, ForkAssumption DEF StartsAtStatements
<1>4. CASE pcused + more > Npc[root]
  <2>1. UNCHANGED <<root, pc, holes, pcused>>
    BY <1>4 DEF Fork
  <2> QED
    BY <2>1 DEF SlotInv, SlotTypes, SlotsExclusive, Slot, Free
<1>5. CASE ~(pcused + more > Npc[root])
  <2>1. /\ pc' = [q \in Slot |->
                    IF q = s THEN all[1]
                    ELSE IF \E k \in 1 .. more : q = Taken(k)
                    THEN all[1 + CHOOSE k \in 1 .. more : q = Taken(k)]
                    ELSE pc[q]]
        /\ holes' = [i \in Slot |-> IF i \in pcused .. pcused + more - 1
                                      THEN -1 ELSE holes[i]]
        /\ pcused' = pcused + more
    BY <1>5 DEF Fork
  <2>2. /\ Free' \subseteq Free /\ Free \subseteq Slot
        /\ \A i \in Free : i \notin Free' => i - pcused + 1 \in 1 .. more
        /\ \A i \in Free', k \in 1 .. more : pcused + k - 1 \in Free /\ i # pcused + k - 1
        /\ \A i \in Free' : i \notin pcused .. pcused + more - 1
    BY <1>1, <1>3, <1>5, <2>1, SlotFacts DEF SlotInv, SlotTypes, Slot, Free
  <2>3. \A i \in Free' : holes'[i] = holes[i]
    BY <2>1, <2>2
  <2>4. SlotTypes'
    <3>1. holes' \in [Slot -> Slot \cup {-1}]
      BY <2>1 DEF SlotInv, SlotTypes
    <3>2. pcused' \in 0 .. Npc[root]
      BY <1>3, <1>5, <2>1, SlotFacts DEF SlotInv, SlotTypes
    <3>3. pc' = [q \in Slot |-> pc'[q]]
      BY <2>1
    <3> QED
      BY <1>1, <3>1, <3>2, <3>3 DEF SlotInv, SlotTypes
  <2>5. \A i \in Free' : holes[i] \in Slot /\ pc'[holes[i]] = NULL
    <3> SUFFICES ASSUME NEW i \in Free'
                 PROVE  holes[i] \in Slot /\ pc'[holes[i]] = NULL
      OBVIOUS
    <3>1. holes[i] \in Slot /\ pc[holes[i]] = NULL
      BY <2>2 DEF SlotInv, SlotsExclusive
    <3>2. holes[i] # s
      BY <1>2, <3>1
    <3>3. \A k \in 1 .. more : holes[i] # Taken(k)
      BY <2>2 DEF SlotInv, SlotsExclusive, Taken
    <3> QED
      BY <2>1, <3>1, <3>2, <3>3
  <2>6. \A q \in Slot : pc'[q] = NULL => \E i \in Free' : holes'[i] = q
    <3> SUFFICES ASSUME NEW q \in Slot, pc'[q] = NULL
                 PROVE  \E i \in Free' : holes'[i] = q
      OBVIOUS
    <3>1. q # s
      <4>1. all[1] # NULL
        BY <1>3, NullIsNoNode
      <4> QED
        BY <2>1, <4>1
    <3>2. ~ \E k \in 1 .. more : q = Taken(k)
      <4> SUFFICES ASSUME \E k \in 1 .. more : q = Taken(k) PROVE FALSE
        OBVIOUS
      <4> DEFINE k0 == CHOOSE k \in 1 .. more : q = Taken(k)
      <4>1. k0 \in 1 .. more
        OBVIOUS
      <4>2. 1 + k0 \in 1 .. more + 1
        BY <1>3, <4>1
      <4>3. all[1 + k0] # NULL
        BY <1>3, <4>2, NullIsNoNode
      <4> QED
        BY <2>1, <3>1, <4>3
    <3>3. pc[q] = NULL
      BY <2>1, <3>1, <3>2
    <3>4. PICK i \in Free : holes[i] = q
      BY <3>3 DEF SlotInv, SlotsExclusive
    <3>5. i \in Free'
      <4>1. pcused + (i - pcused + 1) - 1 = i
        BY SlotFacts DEF SlotInv, SlotTypes, Free
      <4> QED
        BY <2>2, <3>2, <3>4, <4>1 DEF Taken
    <3> QED
      BY <2>3, <3>4, <3>5
  <2>7. SlotsExclusive'
    <3>1. \A i, j \in Free' : holes'[i] = holes'[j] => i = j
      BY <2>2, <2>3 DEF SlotInv, SlotsExclusive
    <3>2. \A i \in Free' : holes'[i] \in Slot /\ pc'[holes'[i]] = NULL
      BY <2>3, <2>5
    <3> QED
      BY <1>1, <2>6, <3>1, <3>2 DEF SlotsExclusive
  <2> QED
    BY <2>4, <2>7 DEF SlotInv
<1> QED
  BY <1>4, <1>5

LEMMA SlotInvInit ==
  ASSUME Init
  PROVE  SlotInv
<1>1. root \in Roots /\ Npc[root] \in Nat \ {0} /\ root # NULL
  BY RootsAssumption, NullIsNoNode DEF Init, WellBuilt
<1>2. 0 \in Slot /\ Free = 1 .. Npc[root] - 1 /\ Free \subseteq Slot
  BY <1>1 DEF Slot, Free, Init
<1>3. \A i \in Free : i # 0 /\ holes[i] = i /\ pc[i] = NULL
  BY <1>2 DEF Init, Slot
<1>4. \A s \in Slot : pc[s] = NULL => s \in Free
  BY <1>1, <1>2 DEF Init, Slot
<1>5. SlotTypes
  BY <1>1 DEF Init, SlotTypes, Slot
<1>6. SlotsExclusive
  BY <1>2, <1>3, <1>4 DEF SlotsExclusive
<1> QED
  BY <1>5, <1>6 DEF SlotInv

LEMMA SlotInvStep ==
  ASSUME SlotInv, [Next]_vars
  PROVE  SlotInv'
<1>1. ASSUME NEW s \in Slot, Execute(s) PROVE SlotInv'
  <2>1. pc[s] # NULL
    BY <1>1, NullIsNoNode DEF Execute, Running
  <2> QED
    BY <1>1, <2>1, MoveKeepsSlots DEF Execute
<1>2. ASSUME NEW s \in Slot, Fork(s) PROVE SlotInv'
  BY <1>2, ForkKeepsSlots
<1>3. ASSUME NEW s \in Slot, Choose(s) PROVE SlotInv'
  <2>1. pc[s] # NULL
    BY <1>3, NullIsNoNode DEF Choose, Running
  <2> QED
    BY <1>3, <2>1, MoveKeepsSlots DEF Choose
<1>4. ASSUME NEW s \in Slot, Turn(s) PROVE SlotInv'
  <2>1. pc[s] # NULL
    BY <1>4, NullIsNoNode DEF Turn, Running
  <2> QED
    BY <1>4, <2>1, MoveKeepsSlots DEF Turn
<1>5. ASSUME NEW s \in Slot, Exit(s) PROVE SlotInv'
  <2>1. pc[s] # NULL
    BY <1>5, NullIsNoNode DEF Exit, Running
  <2> QED
    BY <1>5, <2>1, MoveKeepsSlots DEF Exit
<1>6. CASE UNCHANGED vars
  BY <1>6 DEF vars, SlotInv, SlotTypes, SlotsExclusive, Slot, Free
<1> QED
  BY <1>1, <1>2, <1>3, <1>4, <1>5, <1>6 DEF Next

(* The slots that are free are exactly those on the stack, each once: a    *)
(* branch of a fork never lands in the slot of a running thread.           *)
THEOREM SlotSafety == Spec => []SlotsExclusive
<1>1. Init => SlotInv
  BY SlotInvInit
<1>2. SlotInv /\ [Next]_vars => SlotInv'
  BY SlotInvStep
<1>3. SlotInv => SlotsExclusive
  BY DEF SlotInv
<1> QED
  BY <1>1, <1>2, <1>3, PTL DEF Spec

(* A thread gives its slot back only while pcused counts at least one: the *)
(* Assert in _updatepc is unreachable.                                     *)
THEOREM ReleaseIsSafe ==
  Spec => [](\A s \in Slot : pc[s] # NULL => pcused > 0)
<1>1. Init => SlotInv
  BY SlotInvInit
<1>2. SlotInv /\ [Next]_vars => SlotInv'
  BY SlotInvStep
<1>3. SlotInv => \A s \in Slot : pc[s] # NULL => pcused > 0
  BY RunningUsesSlot
<1> QED
  BY <1>1, <1>2, <1>3, PTL DEF Spec

-----------------------------------------------------------------------------
(* What the shape of a program says of its branches.                       *)
LEMMA ConcurrentSymmetric ==
  ASSUME NEW B, NEW n, NEW m, Concurrent(B, n, m) PROVE Concurrent(B, m, n)
BY DEF Concurrent

LEMMA OneBranch ==
  ASSUME NEW g, NEW B, WellBuilt(g, B), NEW f \in ForksOf(B),
         NEW i \in Branches(f), NEW j \in Branches(f), NEW n, n \in Branch(f, i), n \in Branch(f, j)
  PROVE  i = j
BY DEF WellBuilt, ForkShape

(* A branch that holds a fork or its join holds all that is inside it.     *)
LEMMA ForkInBranch ==
  ASSUME NEW g, NEW B, WellBuilt(g, B), NEW f \in ForksOf(B), NEW k \in ForksOf(B),
         NEW i \in Branches(k), f \in Branch(k, i) \/ Join(f) \in Branch(k, i)
  PROVE  k # f /\ f \in Branch(k, i) /\ Inside(f) \subseteq Branch(k, i)
<1>1. f \in Branch(k, i)
  BY DEF WellBuilt, ForkShape, Same
<1>2. k # f
  BY <1>1 DEF WellBuilt, ForkShape, Inside
<1> QED
  BY <1>1, <1>2 DEF WellBuilt, ForksNest

LEMMA SameConcurrent ==
  ASSUME NEW B, NEW n, NEW m, NEW x, Same(B, n, m), Concurrent(B, n, x)
  PROVE  Concurrent(B, m, x)
BY DEF Same, Concurrent

LEMMA OutsideFork ==
  ASSUME NEW g, NEW B, WellBuilt(g, B), NEW f \in ForksOf(B), NEW x, Concurrent(B, f, x)
  PROVE  x \notin Inside(f)
<1>1a. PICK k \in ForksOf(B) : \E i, j \in Branches(k) :
        i # j /\ f \in Branch(k, i) /\ x \in Branch(k, j)
  BY DEF Concurrent
<1>1. PICK i \in Branches(k), j \in Branches(k) :
        i # j /\ f \in Branch(k, i) /\ x \in Branch(k, j)
  BY <1>1a
<1>2. Inside(f) \subseteq Branch(k, i)
  BY <1>1, ForkInBranch
<1> QED
  BY <1>1, <1>2, OneBranch

(* Who runs at the same time as a thread that goes to the join of f is in  *)
(* another branch of f, or outside and concurrent with the join.           *)
LEMMA BeforeJoin ==
  ASSUME NEW g, NEW B, WellBuilt(g, B), NEW f \in ForksOf(B), NEW i \in Branches(f),
         NEW n, n \in Branch(f, i), SameBut(B, n, Join(f), f), NEW x, Concurrent(B, n, x)
  PROVE  /\ x \notin Branch(f, i)
         /\ x \notin Inside(f) => Concurrent(B, Join(f), x)
<1>1a. PICK k \in ForksOf(B) : \E a, b \in Branches(k) :
        a # b /\ n \in Branch(k, a) /\ x \in Branch(k, b)
  BY DEF Concurrent
<1>1. PICK a \in Branches(k), b \in Branches(k) :
        a # b /\ n \in Branch(k, a) /\ x \in Branch(k, b)
  BY <1>1a
<1>2. CASE k = f
  <2>1. x \in Inside(f) /\ a = i
    BY <1>1, <1>2, OneBranch DEF Inside
  <2> QED
    BY <1>1, <1>2, <2>1, OneBranch
<1>3. CASE k # f
  <2>1. Join(f) \in Branch(k, a)
    BY <1>1, <1>3 DEF SameBut
  <2>2. Inside(f) \subseteq Branch(k, a)
    BY <2>1, ForkInBranch
  <2>3. x \notin Branch(f, i)
    BY <1>1, <2>2, OneBranch DEF Inside
  <2> QED
    BY <1>1, <2>1, <2>3 DEF Concurrent
<1> QED
  BY <1>2, <1>3

-----------------------------------------------------------------------------
(* The threads of a program: p tells the node of each slot in S, t is      *)
(* _tot[].  Any two threads are in different branches of some fork; what a *)
(* join has counted is what is missing in its branches; a counter that is  *)
(* not in use is 0.                                                        *)
At(S, p, f) == {i \in Branches(f) : \E s \in S : p[s] \in Branch(f, i)}
Apart(B, S, p) ==
  \A s, q \in S : s # q /\ p[s] # NULL /\ p[q] # NULL => Concurrent(B, p[s], p[q])
Counted(B, S, p, t) ==
  \A f \in ForksOf(B) :
    At(S, p, f) # {} => t[Counter(f)] + Cardinality(At(S, p, f)) = Graph[Join(f)].wait
Cleared(B, S, p, t) ==
  \A c \in Counters : (\A f \in ForksOf(B) : Counter(f) = c => At(S, p, f) = {}) => t[c] = 0
Crew(B, S, p, t) ==
  /\ p \in [S -> B \cup {NULL}]
  /\ t \in [Counters -> Nat]
  /\ Apart(B, S, p)
  /\ Counted(B, S, p, t)
  /\ Cleared(B, S, p, t)

LEMMA NobodyNowhere ==
  ASSUME NEW g, NEW B, WellBuilt(g, B), NEW f \in ForksOf(B) PROVE NULL \notin Inside(f)
BY NullIsNoNode DEF WellBuilt, ForkShape

LEMMA AtFinite ==
  ASSUME NEW g, NEW B, WellBuilt(g, B), NEW f \in ForksOf(B), NEW S, NEW p
  PROVE  IsFiniteSet(At(S, p, f)) /\ Cardinality(At(S, p, f)) \in Nat
<1>1. IsFiniteSet(Branches(f)) /\ At(S, p, f) \subseteq Branches(f)
  BY DEF WellBuilt, ForkShape, At
<1> QED
  BY <1>1, FS_Subset, FS_CardinalityType

(* Forks that share a counter are not in progress together.                *)
LEMMA OneBusy ==
  ASSUME NEW g, NEW B, WellBuilt(g, B), NEW S, NEW p, p \in [S -> B \cup {NULL}], Apart(B, S, p),
         NEW f \in ForksOf(B), NEW h \in ForksOf(B), f # h, Counter(f) = Counter(h),
         At(S, p, f) # {}, At(S, p, h) # {}
  PROVE  FALSE
<1>1. /\ h \notin Inside(f) /\ f \notin Inside(h) /\ ~Concurrent(B, f, h)
      /\ Inside(f) \cap Inside(h) = {}
  BY DEF WellBuilt, CountersShared, ForksNest
<1>2. PICK s \in S, i \in Branches(f) : p[s] \in Branch(f, i)
  BY DEF At
<1>3. PICK q \in S, j \in Branches(h) : p[q] \in Branch(h, j)
  BY DEF At
<1>4. p[s] \in Inside(f) /\ p[q] \in Inside(h) /\ p[s] # NULL /\ p[q] # NULL
  BY <1>2, <1>3, NobodyNowhere DEF Inside
<1>5. s # q
  BY <1>1, <1>4
<1>6a. PICK k \in ForksOf(B) : \E a, b \in Branches(k) :
        a # b /\ p[s] \in Branch(k, a) /\ p[q] \in Branch(k, b)
  BY <1>4, <1>5 DEF Apart, Concurrent
<1>6. PICK a \in Branches(k), b \in Branches(k) :
        a # b /\ p[s] \in Branch(k, a) /\ p[q] \in Branch(k, b)
  BY <1>6a
<1>7. p[s] \in Inside(k) /\ p[q] \in Inside(k)
  BY <1>6 DEF Inside
<1>8. k # f /\ k # h
  BY <1>1, <1>4, <1>7
<1>9. f \in Branch(k, a)
  <2>1. f \in Inside(k) \/ k \in Inside(f)
    BY <1>4, <1>7, <1>8 DEF WellBuilt, ForksNest
  <2>2. CASE k \in Inside(f)
    <3>1. Inside(k) \subseteq Inside(f)
      BY <2>2, ForkInBranch DEF Inside
    <3> QED
      BY <1>1, <1>4, <1>7, <3>1
  <2>3. CASE f \in Inside(k)
    <3>1. PICK c \in Branches(k) : f \in Branch(k, c)
      BY <2>3 DEF Inside
    <3>2. p[s] \in Branch(k, c)
      BY <1>4, <3>1, ForkInBranch
    <3> QED
      BY <1>6, <3>1, <3>2, OneBranch
  <2> QED
    BY <2>1, <2>2, <2>3
<1>10. h \in Branch(k, b)
  <2>1. h \in Inside(k) \/ k \in Inside(h)
    BY <1>4, <1>7, <1>8 DEF WellBuilt, ForksNest
  <2>2. CASE k \in Inside(h)
    <3>1. Inside(k) \subseteq Inside(h)
      BY <2>2, ForkInBranch DEF Inside
    <3> QED
      BY <1>1, <1>4, <1>7, <3>1
  <2>3. CASE h \in Inside(k)
    <3>1. PICK c \in Branches(k) : h \in Branch(k, c)
      BY <2>3 DEF Inside
    <3>2. p[q] \in Branch(k, c)
      BY <1>4, <3>1, ForkInBranch
    <3> QED
      BY <1>6, <3>1, <3>2, OneBranch
  <2> QED
    BY <2>1, <2>2, <2>3
<1> QED
  BY <1>1, <1>6, <1>9, <1>10 DEF Concurrent

(* A fork that is about to start finds its branches empty and its counter  *)
(* at 0.                                                                   *)
LEMMA ForkIsFresh ==
  ASSUME NEW g, NEW B, WellBuilt(g, B), NEW S, NEW p, NEW t, Crew(B, S, p, t),
         NEW s \in S, p[s] \in ForksOf(B)
  PROVE  At(S, p, p[s]) = {} /\ t[Counter(p[s])] = 0
<1> DEFINE f == p[s]
<1>1. f # NULL /\ f \in ForksOf(B)
  BY NullIsNoNode DEF ForksOf, Forks
<1> HIDE DEF f
<1>2. \A q \in S : q # s /\ p[q] # NULL => Concurrent(B, f, p[q])
  BY <1>1 DEF f, Crew, Apart
<1>3. ASSUME NEW h \in ForksOf(B), h # f, Counter(h) = Counter(f), At(S, p, h) # {} PROVE FALSE
  <2>1. f \notin Inside(h) /\ ~Concurrent(B, f, h)
    BY <1>1, <1>3 DEF WellBuilt, CountersShared
  <2>2. PICK q \in S, j \in Branches(h) : p[q] \in Branch(h, j)
    BY <1>3 DEF At
  <2>3. p[q] \in Inside(h) /\ p[q] # NULL
    BY <2>2, NobodyNowhere DEF Inside
  <2>4. q # s
    BY <2>1, <2>3 DEF f
  <2>5a. PICK k \in ForksOf(B) : \E a, b \in Branches(k) :
          a # b /\ f \in Branch(k, a) /\ p[q] \in Branch(k, b)
    BY <1>2, <2>3, <2>4 DEF Concurrent
<2>5. PICK a \in Branches(k), b \in Branches(k) :
          a # b /\ f \in Branch(k, a) /\ p[q] \in Branch(k, b)
    BY <2>5a
  <2>6. f \in Inside(k) /\ p[q] \in Inside(k)
    BY <2>5 DEF Inside
  <2>7. k # h
    BY <2>1, <2>6
  <2>8. CASE k \in Inside(h)
    <3>1. Inside(k) \subseteq Inside(h)
      BY <2>8, ForkInBranch DEF Inside
    <3> QED
      BY <2>1, <2>6, <3>1
  <2>9. CASE h \in Inside(k)
    <3>1. PICK c \in Branches(k) : h \in Branch(k, c)
      BY <2>9 DEF Inside
    <3>2. p[q] \in Branch(k, c)
      BY <2>3, <3>1, ForkInBranch
    <3>3. c = b
      BY <2>5, <3>2, OneBranch
    <3> QED
      BY <2>1, <2>5, <3>1, <3>3 DEF Concurrent
  <2> QED
    BY <2>3, <2>6, <2>7, <2>8, <2>9 DEF WellBuilt, ForksNest
<1>4. At(S, p, f) = {}
  <2> SUFFICES ASSUME NEW q \in S, NEW i \in Branches(f), p[q] \in Branch(f, i) PROVE FALSE
    BY DEF At
  <2>1. p[q] \in Inside(f) /\ p[q] # NULL
    BY <1>1, NobodyNowhere DEF Inside
  <2>2. q # s
    BY <1>1, <2>1 DEF f, WellBuilt, ForkShape
  <2> QED
    BY <1>1, <1>2, <2>1, <2>2, OutsideFork
<1>5. Counter(f) \in Counters
  BY <1>1 DEF WellBuilt, ForkShape
<1> QED
  BY <1>3, <1>4, <1>5 DEF f, Crew, Cleared

-----------------------------------------------------------------------------
(* The steps of a thread.  Slot s moves to m, in the same branches.        *)
LEMMA SameStep ==
  ASSUME NEW g, NEW B, WellBuilt(g, B), NEW S, NEW p, NEW t, Crew(B, S, p, t),
         NEW s \in S, p[s] # NULL, NEW m \in B, Same(B, p[s], m)
  PROVE  Crew(B, S, [p EXCEPT ![s] = m], t)
<1> DEFINE r == [p EXCEPT ![s] = m]
<1>1. p \in [S -> B \cup {NULL}] /\ Apart(B, S, p)
  BY DEF Crew
<1>2. r \in [S -> B \cup {NULL}] /\ r[s] = m /\ \A q \in S : q # s => r[q] = p[q]
  BY <1>1
<1> HIDE DEF r
<1>3. \A f \in ForksOf(B) : At(S, r, f) = At(S, p, f)
  BY <1>2 DEF At, Same
<1>4. Apart(B, S, r)
  <2> SUFFICES ASSUME NEW q \in S, NEW u \in S, q # u, r[q] # NULL, r[u] # NULL
               PROVE  Concurrent(B, r[q], r[u])
    BY DEF Apart
  <2>1. CASE q = s
    BY <1>1, <1>2, <2>1, SameConcurrent DEF Apart
  <2>2. CASE u = s
    <3>1. Concurrent(B, p[s], p[q])
      BY <1>1, <1>2, <2>2 DEF Apart
    <3> QED
      BY <1>2, <2>2, <3>1, SameConcurrent, ConcurrentSymmetric
  <2>3. CASE q # s /\ u # s
    BY <1>1, <1>2, <2>3 DEF Apart
  <2> QED
    BY <2>1, <2>2, <2>3
<1>5. Crew(B, S, r, t)
  BY <1>2, <1>3, <1>4 DEF Crew, Counted, Cleared
<1> QED
  BY <1>5 DEF r

(* The last statement of a program has been completed.                     *)
LEMMA EndStep ==
  ASSUME NEW g, NEW B, WellBuilt(g, B), NEW S, NEW p, NEW t, Crew(B, S, p, t),
         NEW s \in S, \A f \in ForksOf(B) : p[s] \notin Inside(f)
  PROVE  Crew(B, S, [p EXCEPT ![s] = NULL], t)
<1> DEFINE r == [p EXCEPT ![s] = NULL]
<1>1. p \in [S -> B \cup {NULL}] /\ Apart(B, S, p)
  BY DEF Crew
<1>2. r \in [S -> B \cup {NULL}] /\ r[s] = NULL /\ \A q \in S : q # s => r[q] = p[q]
  BY <1>1
<1> HIDE DEF r
<1>3. \A f \in ForksOf(B) : At(S, r, f) = At(S, p, f)
  BY <1>2, NobodyNowhere DEF At, Inside
<1>4. Apart(B, S, r)
  BY <1>1, <1>2 DEF Apart
<1>5. Crew(B, S, r, t)
  BY <1>2, <1>3, <1>4 DEF Crew, Counted, Cleared
<1> QED
  BY <1>5 DEF r

(* A thread that arrives at the join of f leaves its branch empty, and     *)
(* changes nothing for other forks: those inside f are over, those around  *)
(* f still have the thread, or another one of f, in the same branch.       *)
LEMMA Arrival ==
  ASSUME NEW g, NEW B, WellBuilt(g, B), NEW S, NEW p, NEW t, Crew(B, S, p, t),
         NEW s \in S, NEW f \in ForksOf(B), NEW i \in Branches(f), p[s] \in Branch(f, i),
         SameBut(B, p[s], Join(f), f), NEW r, \A q \in S : q # s => r[q] = p[q]
  PROVE  /\ p[s] # NULL /\ i \in At(S, p, f)
         /\ \A q \in S : q # s => p[q] \notin Branch(f, i)
         /\ r[s] \in {NULL, Join(f)} => At(S, r, f) = At(S, p, f) \ {i}
         /\ \A h \in ForksOf(B) : h # f /\ r[s] = Join(f) => At(S, r, h) = At(S, p, h)
         /\ \A h \in ForksOf(B) : h # f /\ r[s] = NULL /\ At(S, r, f) # {} =>
              At(S, r, h) = At(S, p, h)
<1>1. p[s] # NULL /\ i \in At(S, p, f)
  BY NobodyNowhere DEF At, Inside
<1>2. \A q \in S : q # s => p[q] \notin Branch(f, i)
  <2> SUFFICES ASSUME NEW q \in S, q # s, p[q] \in Branch(f, i) PROVE FALSE
    OBVIOUS
  <2>1. p[q] # NULL
    BY NobodyNowhere DEF Inside
  <2>2. Concurrent(B, p[s], p[q])
    BY <1>1, <2>1 DEF Crew, Apart
  <2> QED
    BY <2>2, BeforeJoin
<1>3. NULL \notin Inside(f) /\ Join(f) \notin Inside(f)
  BY NobodyNowhere DEF WellBuilt, ForkShape
<1>4. ASSUME r[s] \in {NULL, Join(f)} PROVE At(S, r, f) = At(S, p, f) \ {i}
  <2>1. \A j \in Branches(f) : r[s] \notin Branch(f, j)
    BY <1>3, <1>4 DEF Inside
  <2>2. \A j \in Branches(f) : p[s] \in Branch(f, j) => j = i
    BY OneBranch
  <2> QED
    BY <1>2, <2>1, <2>2 DEF At
<1>5. ASSUME NEW h \in ForksOf(B), h # f, r[s] = Join(f) PROVE At(S, r, h) = At(S, p, h)
  BY <1>5 DEF At, SameBut
<1>6. ASSUME NEW h \in ForksOf(B), h # f, r[s] = NULL, At(S, r, f) # {}
      PROVE  At(S, r, h) = At(S, p, h)
  <2>1. PICK q \in S, j \in Branches(f) : r[q] \in Branch(f, j)
    BY <1>6 DEF At
  <2>2. q # s /\ r[q] \in Inside(f)
    BY <1>3, <1>6, <2>1 DEF Inside
  <2>3. \A j2 \in Branches(h) : p[s] \in Branch(h, j2) => r[q] \in Branch(h, j2)
    BY <1>6, <2>2, ForkInBranch DEF SameBut
  <2>4. \A j2 \in Branches(h) : NULL \notin Branch(h, j2)
    BY NobodyNowhere DEF Inside
  <2> QED
    BY <1>6, <2>2, <2>3, <2>4 DEF At
<1> QED
  BY <1>1, <1>2, <1>4, <1>5, <1>6

LEMMA JoinStep ==
  ASSUME NEW g, NEW B, WellBuilt(g, B), NEW S, NEW p, NEW t, Crew(B, S, p, t),
         NEW s \in S, NEW f \in ForksOf(B), p[s] \in Inside(f), SameBut(B, p[s], Join(f), f),
         Join(f) \in B
  PROVE  IF t[Counter(f)] + 1 = Graph[Join(f)].wait
           THEN Crew(B, S, [p EXCEPT ![s] = Join(f)], [t EXCEPT ![Counter(f)] = 0])
           ELSE Crew(B, S, [p EXCEPT ![s] = NULL], [t EXCEPT ![Counter(f)] = @ + 1])
<1> DEFINE c == Counter(f)
           wait == Graph[Join(f)].wait
           N == Cardinality(At(S, p, f))
<1>1. PICK i \in Branches(f) : p[s] \in Branch(f, i)
  BY DEF Inside
<1>2. /\ p \in [S -> B \cup {NULL}] /\ Apart(B, S, p) /\ t \in [Counters -> Nat]
      /\ Counted(B, S, p, t) /\ Cleared(B, S, p, t)
  BY DEF Crew
<1>3. c \in Counters /\ Join(f) # NULL
  BY DEF WellBuilt, ForkShape
<1>4. p[s] # NULL /\ i \in At(S, p, f) /\ \A q \in S : q # s => p[q] \notin Branch(f, i)
  BY <1>1, Arrival
<1>5. t[c] \in Nat /\ N \in Nat /\ IsFiniteSet(At(S, p, f)) /\ t[c] + N = wait
  BY <1>2, <1>3, <1>4, AtFinite DEF Counted
<1>6. \A h \in ForksOf(B) : h # f /\ Counter(h) = c => At(S, p, h) = {}
  BY <1>2, <1>4, OneBusy
<1>7. Cardinality(At(S, p, f) \ {i}) = N - 1
  BY <1>4, <1>5, FS_RemoveElement
<1>8. ASSUME t[c] + 1 = wait
      PROVE  Crew(B, S, [p EXCEPT ![s] = Join(f)], [t EXCEPT ![c] = 0])
  <2> DEFINE r == [p EXCEPT ![s] = Join(f)]
             v == [t EXCEPT ![c] = 0]
  <2>1. /\ r \in [S -> B \cup {NULL}] /\ r[s] = Join(f) /\ \A q \in S : q # s => r[q] = p[q]
        /\ v \in [Counters -> Nat] /\ v[c] = 0 /\ \A d \in Counters : d # c => v[d] = t[d]
    BY <1>2, <1>3
  <2> HIDE DEF r, v
  <2>2. At(S, p, f) \ {i} = {}
    <3>1. N - 1 = 0 /\ IsFiniteSet(At(S, p, f) \ {i})
      BY <1>5, <1>8, FS_Subset
    <3> QED
      BY <1>7, <3>1, FS_EmptySet
  <2>3. At(S, r, f) = {} /\ \A h \in ForksOf(B) : h # f => At(S, r, h) = At(S, p, h)
    BY <1>1, <2>1, <2>2, Arrival
  <2>4. \A q \in S : q # s /\ p[q] # NULL => Concurrent(B, Join(f), p[q])
    <3> SUFFICES ASSUME NEW q \in S, q # s, p[q] # NULL PROVE Concurrent(B, Join(f), p[q])
      OBVIOUS
    <3>1. Concurrent(B, p[s], p[q])
      BY <1>2, <1>4 DEF Apart
    <3>2. p[q] \notin Inside(f)
      BY <2>1, <2>3 DEF At, Inside
    <3> QED
      BY <1>1, <3>1, <3>2, BeforeJoin
  <2>5. Apart(B, S, r)
    BY <1>2, <2>1, <2>4, ConcurrentSymmetric DEF Apart
  <2>6. Counted(B, S, r, v)
    <3> SUFFICES ASSUME NEW h \in ForksOf(B), At(S, r, h) # {}
                 PROVE  v[Counter(h)] + Cardinality(At(S, r, h)) = Graph[Join(h)].wait
      BY DEF Counted
    <3>1. h # f /\ At(S, r, h) = At(S, p, h) /\ Counter(h) # c
      BY <1>6, <2>3
    <3>2. Counter(h) \in Counters
      BY DEF WellBuilt, ForkShape
    <3> QED
      BY <1>2, <2>1, <3>1, <3>2 DEF Counted
  <2>7. Cleared(B, S, r, v)
    <3> SUFFICES ASSUME NEW d \in Counters, d # c,
                        \A h \in ForksOf(B) : Counter(h) = d => At(S, r, h) = {}
                 PROVE  t[d] = 0
      BY <2>1 DEF Cleared
    <3> QED
      BY <1>2, <2>3 DEF Cleared
  <2>8. Crew(B, S, r, v)
    BY <2>1, <2>5, <2>6, <2>7 DEF Crew
  <2> QED
    BY <2>8 DEF r, v
<1>9. ASSUME t[c] + 1 # wait
      PROVE  Crew(B, S, [p EXCEPT ![s] = NULL], [t EXCEPT ![c] = @ + 1])
  <2> DEFINE r == [p EXCEPT ![s] = NULL]
             v == [t EXCEPT ![c] = @ + 1]
  <2>1. /\ r \in [S -> B \cup {NULL}] /\ r[s] = NULL /\ \A q \in S : q # s => r[q] = p[q]
        /\ v \in [Counters -> Nat] /\ v[c] = t[c] + 1 /\ \A d \in Counters : d # c => v[d] = t[d]
    BY <1>2, <1>3
  <2> HIDE DEF r, v
  <2>2. At(S, r, f) = At(S, p, f) \ {i}
    BY <1>1, <2>1, Arrival
  <2>3. Cardinality(At(S, r, f)) = N - 1 /\ At(S, r, f) # {}
    <3>1. Cardinality(At(S, r, f)) = N - 1 /\ N - 1 # 0
      BY <1>5, <1>7, <1>9, <2>2
    <3>2. Cardinality({}) = 0
      BY FS_EmptySet
    <3> QED
      BY <3>1, <3>2
  <2>4. \A h \in ForksOf(B) : h # f => At(S, r, h) = At(S, p, h)
    BY <1>1, <2>1, <2>3, Arrival
  <2>5. Apart(B, S, r)
    BY <1>2, <2>1 DEF Apart
  <2>6. Counted(B, S, r, v)
    <3> SUFFICES ASSUME NEW h \in ForksOf(B), At(S, r, h) # {}
                 PROVE  v[Counter(h)] + Cardinality(At(S, r, h)) = Graph[Join(h)].wait
      BY DEF Counted
    <3>1. CASE h = f
      BY <1>5, <2>1, <2>3, <3>1
    <3>2. CASE h # f
      <4>1. At(S, r, h) = At(S, p, h) /\ Counter(h) # c
        BY <1>6, <2>4, <3>2
      <4>2. Counter(h) \in Counters
        BY DEF WellBuilt, ForkShape
      <4> QED
        BY <1>2, <2>1, <4>1, <4>2 DEF Counted
    <3> QED
      BY <3>1, <3>2
  <2>7. Cleared(B, S, r, v)
    <3> SUFFICES ASSUME NEW d \in Counters,
                        \A h \in ForksOf(B) : Counter(h) = d => At(S, r, h) = {}
                 PROVE  v[d] = 0
      BY DEF Cleared
    <3>1. d # c
      BY <2>3
    <3>2. \A h \in ForksOf(B) : Counter(h) = d => At(S, p, h) = {}
      BY <2>4, <3>1
    <3> QED
      BY <1>2, <2>1, <3>1, <3>2 DEF Cleared
  <2>8. Crew(B, S, r, v)
    BY <2>1, <2>5, <2>6, <2>7 DEF Crew
  <2> QED
    BY <2>8 DEF r, v
<1> QED
  BY <1>8, <1>9

-----------------------------------------------------------------------------
(* A fork.                                                                 *)
LEMMA LiveFacts ==
  ASSUME NEW g, NEW B, WellBuilt(g, B), NEW f \in ForksOf(B)
  PROVE  /\ Len(Live(f)) \in Nat /\ Len(Live(f)) > 0 /\ DOMAIN Live(f) = 1 .. Len(Live(f))
         /\ \A k \in 1 .. Len(Live(f)) : Live(f)[k] \in B /\ Live(f)[k] # NULL
<1>1. f \in Forks /\ f \in B /\ f \in Node /\ Graph[f].kind = "fork"
  BY DEF ForksOf, Forks
<1>2. Live(f) \in Seq(Node) /\ Len(Live(f)) > 0
  BY <1>1, ForkAssumption DEF StartsAtStatements
<1>3. Len(Live(f)) \in Nat /\ DOMAIN Live(f) = 1 .. Len(Live(f))
  BY <1>2
<1>4. \A k \in DOMAIN Live(f) : Live(f)[k] \in B /\ Live(f)[k] \in Node
  BY <1>1, <1>2 DEF WellBuilt, Closed
<1> QED
  BY <1>2, <1>3, <1>4, NullIsNoNode

LEMMA LiveConcurrent ==
  ASSUME NEW g, NEW B, WellBuilt(g, B), NEW f \in ForksOf(B), NEW k \in DOMAIN Live(f)
  PROVE  /\ \A l \in DOMAIN Live(f) : k # l => Concurrent(B, Live(f)[k], Live(f)[l])
         /\ \A x : Concurrent(B, f, x) => Concurrent(B, Live(f)[k], x)
<1>1. ASSUME NEW l \in DOMAIN Live(f), k # l PROVE Concurrent(B, Live(f)[k], Live(f)[l])
  <2>1. PICK i \in Branches(f) : \A j \in DOMAIN Live(f) : Live(f)[j] \in Branch(f, i) <=> j = k
    BY DEF WellBuilt, ForkShape
  <2>2. PICK i2 \in Branches(f) : \A j \in DOMAIN Live(f) : Live(f)[j] \in Branch(f, i2) <=> j = l
    BY DEF WellBuilt, ForkShape
  <2> QED
    BY <1>1, <2>1, <2>2 DEF Concurrent
<1>2. ASSUME NEW x, Concurrent(B, f, x) PROVE Concurrent(B, Live(f)[k], x)
  <2>1. PICK h \in ForksOf(B) : \E i, j \in Branches(h) :
          i # j /\ f \in Branch(h, i) /\ x \in Branch(h, j)
    BY <1>2 DEF Concurrent
  <2>2. h # f /\ SameBut(B, f, Live(f)[k], f)
    BY <2>1 DEF WellBuilt, ForkShape, Inside
  <2> QED
    BY <2>1, <2>2 DEF Concurrent, SameBut
<1> QED
  BY <1>1, <1>2

(* The first branch stays in the slot of the fork, the others take the     *)
(* slots e[2], e[3], ..., which were free.                                 *)
Forked(S, s, f, e, p, r) ==
  /\ p[s] = f /\ e \in [1 .. Len(Live(f)) -> S] /\ e[1] = s
  /\ \A k, l \in 1 .. Len(Live(f)) : e[k] = e[l] => k = l
  /\ \A k \in 1 .. Len(Live(f)) : k # 1 => p[e[k]] = NULL
  /\ r = [q \in S |-> r[q]]
  /\ \A k \in 1 .. Len(Live(f)) : r[e[k]] = Live(f)[k]
  /\ \A q \in S : (\A k \in 1 .. Len(Live(f)) : q # e[k]) => r[q] = p[q]

(* The branches that are not empty are occupied now, and nothing changes   *)
(* for other forks.                                                        *)
LEMMA ForkAt ==
  ASSUME NEW g, NEW B, WellBuilt(g, B), NEW S, NEW p, NEW t, Crew(B, S, p, t),
         NEW s \in S, NEW f \in ForksOf(B), NEW e, NEW r, Forked(S, s, f, e, p, r)
  PROVE  /\ \A i \in Branches(f) :
              i \in At(S, r, f) <=> \E k \in 1 .. Len(Live(f)) : Live(f)[k] \in Branch(f, i)
         /\ \A h \in ForksOf(B) : h # f => At(S, r, h) = At(S, p, h)
<1> DEFINE L == 1 .. Len(Live(f))
<1>2. 1 \in L /\ L = DOMAIN Live(f)
  BY LiveFacts
<1>3. At(S, p, f) = {}
  BY ForkIsFresh DEF Forked
<1>4. \A q \in S : (\E k \in L : q = e[k]) \/ r[q] = p[q]
  BY DEF Forked
<1>5. /\ \A k \in L : r[e[k]] = Live(f)[k] /\ e[k] \in S
      /\ \A k \in L : e[k] = s \/ p[e[k]] = NULL
      /\ p[s] = f /\ e[1] = s
  BY DEF Forked
<1> HIDE DEF L
<1>7. \A i \in Branches(f) : i \in At(S, r, f) <=> \E k \in L : Live(f)[k] \in Branch(f, i)
  BY <1>3, <1>4, <1>5 DEF At
<1>9. \A h \in ForksOf(B) : h # f => At(S, r, h) = At(S, p, h)
  <2> SUFFICES ASSUME NEW h \in ForksOf(B), h # f, NEW i \in Branches(h)
               PROVE  (\E q \in S : r[q] \in Branch(h, i)) <=> (\E q \in S : p[q] \in Branch(h, i))
    BY DEF At
  <2>1. \A k \in L : f \in Branch(h, i) <=> Live(f)[k] \in Branch(h, i)
    BY <1>2 DEF WellBuilt, ForkShape, SameBut
  <2>2. NULL \notin Branch(h, i)
    BY NobodyNowhere DEF Inside
  <2>3. ASSUME NEW q \in S, r[q] \in Branch(h, i) PROVE \E u \in S : p[u] \in Branch(h, i)
    BY <1>4, <1>5, <2>1, <2>3
  <2>4. ASSUME NEW q \in S, p[q] \in Branch(h, i) PROVE \E u \in S : r[u] \in Branch(h, i)
    <3>1. CASE q = s
      BY <1>2, <1>5, <2>1, <2>4, <3>1
    <3>2. CASE q # s
      BY <1>4, <1>5, <2>2, <2>4, <3>2
    <3> QED
      BY <3>1, <3>2
  <2> QED
    BY <2>3, <2>4
<1> QED
  BY <1>7, <1>9 DEF L

LEMMA ForkStep ==
  ASSUME NEW g, NEW B, WellBuilt(g, B), NEW S, NEW p, NEW t, Crew(B, S, p, t),
         NEW s \in S, NEW f \in ForksOf(B), NEW e, NEW r, Forked(S, s, f, e, p, r)
  PROVE  Crew(B, S, r, t)
<1> DEFINE L == 1 .. Len(Live(f))
           c == Counter(f)
<1>1. /\ p \in [S -> B \cup {NULL}] /\ Apart(B, S, p) /\ t \in [Counters -> Nat]
      /\ Counted(B, S, p, t) /\ Cleared(B, S, p, t)
  BY DEF Crew
<1>2. /\ 1 \in L /\ L = DOMAIN Live(f) /\ Len(Live(f)) \in Nat
      /\ \A k \in L : Live(f)[k] \in B /\ Live(f)[k] # NULL
  BY LiveFacts
<1>3. At(S, p, f) = {} /\ t[c] = 0
  BY ForkIsFresh DEF Forked
<1>4. \A q \in S : (\E k \in L : q = e[k]) \/ r[q] = p[q]
  BY DEF Forked
<1>5. /\ \A k \in L : r[e[k]] = Live(f)[k] /\ e[k] \in S
      /\ \A k \in L : e[k] = s \/ p[e[k]] = NULL
      /\ f # NULL /\ p[s] = f /\ e[1] = s
  BY NullIsNoNode DEF ForksOf, Forks, Forked
<1>6. r \in [S -> B \cup {NULL}]
  <2>1. \A q \in S : r[q] \in B \cup {NULL}
    <3> SUFFICES ASSUME NEW q \in S PROVE r[q] \in B \cup {NULL}
      OBVIOUS
    <3>1. CASE \E k \in L : q = e[k]
      <4>1. PICK k \in L : q = e[k]
        BY <3>1
      <4>2. r[q] = Live(f)[k]
        BY <4>1, <1>5
      <4> QED
        BY <1>2, <4>1, <4>2
    <3>2. CASE r[q] = p[q]
      BY <1>1, <3>2
    <3> QED
      BY <1>4, <3>1, <3>2
  <2> QED
    BY <2>1 DEF Forked
<1> HIDE DEF L
<1>7. \A i \in Branches(f) : i \in At(S, r, f) <=> \E k \in L : Live(f)[k] \in Branch(f, i)
  BY ForkAt DEF L
<1>8. Cardinality(At(S, r, f)) = Len(Live(f))
  <2> DEFINE b == [k \in L |-> CHOOSE i \in Branches(f) :
                     \A l \in DOMAIN Live(f) : Live(f)[l] \in Branch(f, i) <=> l = k]
  <2>1. \A k \in L : b[k] \in Branches(f) /\ \A l \in L : Live(f)[l] \in Branch(f, b[k]) <=> l = k
    BY <1>2 DEF WellBuilt, ForkShape
  <2> HIDE DEF b
  <2>2. \A k, l \in L : b[k] = b[l] => k = l
    BY <2>1
  <2>3. b \in [L -> At(S, r, f)]
    <3>1. \A k \in L : b[k] \in At(S, r, f)
      BY <1>7, <2>1
    <3> QED
      BY <3>1 DEF b
  <2>4. \A i \in At(S, r, f) : \E k \in L : b[k] = i
    <3> SUFFICES ASSUME NEW i \in At(S, r, f) PROVE \E k \in L : b[k] = i
      OBVIOUS
    <3>1. i \in Branches(f)
      BY DEF At
    <3>2. PICK k \in L : Live(f)[k] \in Branch(f, i)
      BY <1>7, <3>1
    <3>3. b[k] = i
      BY <2>1, <3>1, <3>2, OneBranch
    <3> QED
      BY <3>3
  <2>5. b \in Bijection(L, At(S, r, f))
    BY <2>2, <2>3, <2>4, Fun_IsBij
  <2>6. IsFiniteSet(L) /\ Cardinality(L) = Len(Live(f))
    <3>1. 1 \in Int /\ Len(Live(f)) \in Int /\ ~(1 > Len(Live(f)))
      BY LiveFacts
    <3>2. IsFiniteSet(L) /\ Cardinality(L) = Len(Live(f)) - 1 + 1
      BY <3>1, FS_Interval DEF L
    <3> QED
      BY <1>2, <3>2
  <2> QED
    BY <2>5, <2>6, FS_Bijection DEF ExistsBijection
<1>9. \A h \in ForksOf(B) : h # f => At(S, r, h) = At(S, p, h)
  BY ForkAt
<1>10. Apart(B, S, r)
  <2> SUFFICES ASSUME NEW q \in S, NEW u \in S, q # u, r[q] # NULL, r[u] # NULL
               PROVE  Concurrent(B, r[q], r[u])
    BY DEF Apart
  <2>1. ASSUME NEW x \in S, NEW y \in S, x # y, r[y] # NULL, NEW k \in L, x = e[k],
               \A l \in L : y # e[l]
        PROVE  Concurrent(B, r[x], r[y])
    <3>1. r[y] = p[y] /\ y # s
      BY <1>2, <1>4, <1>5, <2>1
    <3>2. Concurrent(B, f, r[y])
      BY <1>1, <1>5, <2>1, <3>1 DEF Apart
    <3> QED
      BY <1>2, <1>5, <2>1, <3>2, LiveConcurrent
  <2>2. CASE \E k, l \in L : q = e[k] /\ u = e[l]
    BY <1>2, <1>5, <2>2, LiveConcurrent
  <2>3. CASE (\E k \in L : q = e[k]) /\ (\A l \in L : u # e[l])
    BY <2>1, <2>3
  <2>4. CASE (\E k \in L : u = e[k]) /\ (\A l \in L : q # e[l])
    BY <2>1, <2>4, ConcurrentSymmetric
  <2>5. CASE (\A l \in L : q # e[l]) /\ (\A l \in L : u # e[l])
    BY <1>1, <1>4, <2>5 DEF Apart
  <2> QED
    BY <2>2, <2>3, <2>4, <2>5
<1>11. \A h \in ForksOf(B) : h # f /\ Counter(h) = c => At(S, r, h) = {}
  <2> SUFFICES ASSUME NEW h \in ForksOf(B), h # f, Counter(h) = c, At(S, r, h) # {} PROVE FALSE
    OBVIOUS
  <2>1. At(S, r, f) # {}
    <3>1. PICK i \in Branches(f) : \A l \in DOMAIN Live(f) : Live(f)[l] \in Branch(f, i) <=> l = 1
      BY <1>2 DEF WellBuilt, ForkShape
    <3> QED
      BY <1>2, <1>7, <3>1
  <2> QED
    BY <1>6, <1>10, <2>1, OneBusy
<1>12. Counted(B, S, r, t)
  <2> SUFFICES ASSUME NEW h \in ForksOf(B), At(S, r, h) # {}
               PROVE  t[Counter(h)] + Cardinality(At(S, r, h)) = Graph[Join(h)].wait
    BY DEF Counted
  <2>1. CASE h = f
    BY <1>2, <1>3, <1>8, <2>1 DEF WellBuilt, ForkShape
  <2>2. CASE h # f
    BY <1>1, <1>9, <2>2 DEF Counted
  <2> QED
    BY <2>1, <2>2
<1>13. Cleared(B, S, r, t)
  <2> SUFFICES ASSUME NEW d \in Counters, d # c,
                      \A h \in ForksOf(B) : Counter(h) = d => At(S, r, h) = {}
               PROVE  t[d] = 0
    BY <1>3 DEF Cleared
  <2> QED
    BY <1>1, <1>9 DEF Cleared
<1> QED
  BY <1>1, <1>6, <1>10, <1>12, <1>13 DEF Crew

(* The threads there will be after a fork have slots.                      *)
LEMMA EnoughSlots ==
  ASSUME NEW g, NEW B, WellBuilt(g, B), NEW S \in SUBSET Nat, IsFiniteSet(S),
         NEW p, NEW t, Crew(B, S, p, t), NEW s \in S, NEW f \in ForksOf(B), p[s] = f
  PROVE  Cardinality({q \in S : p[q] # NULL}) - 1 + Len(Live(f)) <= Npc[g]
<1> DEFINE T == {q \in S : p[q] # NULL}
           others == T \ {s}
           len == Len(Live(f))
           new == -len .. -1
           h == [x \in others \cup new |-> IF x \in new THEN Lane(Live(f)[-x]) ELSE Lane(p[x])]
<1>1. /\ len \in Nat /\ len > 0 /\ DOMAIN Live(f) = 1 .. len
      /\ \A k \in 1 .. len : Live(f)[k] \in B /\ Live(f)[k] # NULL
  BY LiveFacts
<1>2. p \in [S -> B \cup {NULL}] /\ Apart(B, S, p) /\ f # NULL /\ f \in B
  BY NullIsNoNode DEF Crew, ForksOf, Forks
<1>3. IsFiniteSet(T) /\ s \in T
  BY <1>2, FS_Subset
<1>4. /\ IsFiniteSet(others) /\ Cardinality(others) = Cardinality(T) - 1
      /\ Cardinality(T) \in Nat /\ Cardinality(others) \in Nat
  <2>1. IsFiniteSet(others) /\ Cardinality(others) = Cardinality(T) - 1
    BY <1>3, FS_RemoveElement
  <2> QED
    BY <1>3, <2>1, FS_CardinalityType
<1>5. IsFiniteSet(new) /\ Cardinality(new) = len
  <2> HIDE DEF len
  <2>1. -len \in Int /\ -1 \in Int /\ ~(-len > -1) /\ (-1) - (-len) + 1 = len
    BY <1>1
  <2> QED
    BY <2>1, FS_Interval
<1>6. others \cap new = {}
  <2>1. \A x \in others : x \in Nat
    OBVIOUS
  <2>2. \A x \in new : x \notin Nat
    BY <1>1
  <2> QED
    BY <2>1, <2>2
<1>7. IsFiniteSet(others \cup new) /\ Cardinality(others \cup new) = Cardinality(T) - 1 + len
  <2>1. /\ IsFiniteSet(others \cup new)
        /\ Cardinality(others \cup new)
             = Cardinality(others) + Cardinality(new) - Cardinality(others \cap new)
    <3> HIDE DEF others, new
    <3> QED
      BY <1>4, <1>5, FS_Union
  <2>2. Cardinality(others \cap new) = 0
    BY <1>6, FS_EmptySet
  <2> QED
    BY <1>1, <1>4, <1>5, <2>1, <2>2
<1>8. \A x \in new : -x \in 1 .. len
  BY <1>1
<1>9. \A x \in others : x \notin new /\ x \in S /\ x # s /\ p[x] # NULL /\ p[x] \in B
  BY <1>2, <1>6
<1>10. \A x \in others \cup new : h[x] \in 0 .. Npc[g] - 1
  <2>1. \A n \in B : Lane(n) \in 0 .. Npc[g] - 1
    BY DEF WellBuilt, SlotsSuffice
  <2> QED
    BY <1>1, <1>8, <1>9, <2>1
<1>11. \A n, m \in B : Concurrent(B, n, m) => Lane(n) # Lane(m)
  BY DEF WellBuilt, SlotsSuffice
<1>12. \A x, y \in others \cup new : x # y => h[x] # h[y]
  <2>1. ASSUME NEW x \in new, NEW y \in others PROVE h[x] # h[y]
    <3>1. Concurrent(B, f, p[y])
      BY <1>2, <1>9 DEF Apart
    <3>2. Concurrent(B, Live(f)[-x], p[y])
      BY <1>1, <1>8, <3>1, LiveConcurrent
    <3> QED
      BY <1>1, <1>8, <1>9, <1>11, <3>2
  <2>2. ASSUME NEW x \in new, NEW y \in new, x # y PROVE h[x] # h[y]
    <3>1. -x # -y
      BY <2>2
    <3>2. Concurrent(B, Live(f)[-x], Live(f)[-y])
      BY <1>1, <1>8, <3>1, LiveConcurrent
    <3> QED
      BY <1>1, <1>8, <1>11, <3>2
  <2>3. ASSUME NEW x \in others, NEW y \in others, x # y PROVE h[x] # h[y]
    <3>1. Concurrent(B, p[x], p[y])
      BY <1>2, <1>9, <2>3 DEF Apart
    <3> QED
      BY <1>9, <1>11, <3>1
  <2> HIDE DEF h, others, new
  <2> QED
    BY <2>1, <2>2, <2>3
<1>13. h \in Injection(others \cup new, 0 .. Npc[g] - 1)
  <2>1. h \in [others \cup new -> 0 .. Npc[g] - 1]
    BY <1>10
  <2> HIDE DEF h
  <2> QED
    BY <1>12, <2>1, Fun_IsInj
<1>14. IsFiniteSet(0 .. Npc[g] - 1) /\ Cardinality(0 .. Npc[g] - 1) = Npc[g]
  <2>1. Npc[g] \in Nat /\ Npc[g] > 0
    BY DEF WellBuilt
  <2>2. 0 \in Int /\ Npc[g] - 1 \in Int /\ ~(0 > Npc[g] - 1) /\ Npc[g] - 1 - 0 + 1 = Npc[g]
    BY <2>1
  <2> QED
    BY <2>2, FS_Interval
<1>15. Cardinality(others \cup new) <= Npc[g]
  BY <1>13, <1>14, FS_Injection
<1> QED
  BY <1>7, <1>15

-----------------------------------------------------------------------------
(* A thread that goes on from a node n that is no fork and no selection.   *)
LEMMA CompletedStep ==
  ASSUME NEW g, NEW B, WellBuilt(g, B), NEW S, NEW p, NEW t, Crew(B, S, p, t),
         NEW s \in S, p[s] \in B, Graph[p[s]].kind \notin {"fork", "select"}
  PROVE  /\ Completed(p[s], t).node \in B \cup {NULL}
         /\ Crew(B, S, [p EXCEPT ![s] = Completed(p[s], t).node], Completed(p[s], t).tot)
<1> DEFINE n == p[s]
           m == Graph[n].next
<1>1. n \in Node /\ m \in B \cup {NULL} /\ Flow(B, n)
  BY DEF WellBuilt, Closed
<1>2. n # NULL
  BY <1>1, NullIsNoNode
<1>3. CASE m = NULL /\ \A f \in ForksOf(B) : n \notin Inside(f)
  <2>1. Completed(n, t) = [node |-> NULL, tot |-> t]
    BY <1>3 DEF Completed
  <2>2. Crew(B, S, [p EXCEPT ![s] = NULL], t)
    BY <1>3, EndStep
  <2> QED
    BY <2>1, <2>2
<1>4. CASE m # NULL /\ Graph[m].wait = 0 /\ Same(B, n, m)
  <2>1. Completed(n, t) = [node |-> m, tot |-> t]
    BY <1>4 DEF Completed
  <2>2. m \in B /\ Crew(B, S, [p EXCEPT ![s] = m], t)
    BY <1>1, <1>2, <1>4, SameStep
  <2> QED
    BY <2>1, <2>2
<1>5. CASE \E f \in ForksOf(B) : m = Join(f) /\ n \in Inside(f) /\ SameBut(B, n, m, f)
  <2>1. PICK f \in ForksOf(B) : m = Join(f) /\ n \in Inside(f) /\ SameBut(B, n, m, f)
    BY <1>5
  <2>2. m # NULL /\ Graph[m].wait = Len(Live(f)) /\ Graph[m].wait # 0
    <3>1. Len(Live(f)) \in Nat /\ Len(Live(f)) > 0
      BY LiveFacts
    <3> QED
      BY <2>1, <3>1 DEF WellBuilt, ForkShape
  <2>3. Graph[m].totidx = Counter(f) /\ m \in B /\ Join(f) \in B
    BY <1>1, <2>1, <2>2 DEF Counter
  <2>4. n \in Inside(f) /\ SameBut(B, n, Join(f), f)
    BY <2>1
  <2>5. CASE t[Counter(f)] + 1 = Graph[m].wait
    <3>1. Completed(n, t) = [node |-> m, tot |-> [t EXCEPT ![Counter(f)] = 0]]
      BY <2>2, <2>3, <2>5 DEF Completed
    <3>2. Crew(B, S, [p EXCEPT ![s] = Join(f)], [t EXCEPT ![Counter(f)] = 0])
      <4>1. t[Counter(f)] + 1 = Graph[Join(f)].wait
        BY <2>1, <2>5
      <4> QED
        BY <2>3, <2>4, <4>1, JoinStep
    <3> QED
      BY <2>1, <2>3, <3>1, <3>2
  <2>6. CASE t[Counter(f)] + 1 # Graph[m].wait
    <3>1. Completed(n, t) = [node |-> NULL, tot |-> [t EXCEPT ![Counter(f)] = @ + 1]]
      BY <2>2, <2>3, <2>6 DEF Completed
    <3>2. Crew(B, S, [p EXCEPT ![s] = NULL], [t EXCEPT ![Counter(f)] = @ + 1])
      BY <2>1, <2>3, <2>4, <2>6, JoinStep
    <3> QED
      BY <3>1, <3>2
  <2> QED
    BY <2>5, <2>6
<1> QED
  BY <1>1, <1>3, <1>4, <1>5 DEF Flow

-----------------------------------------------------------------------------
(* _nextEvent: the recursive function Settled is well defined, because a   *)
(* place without a statement leads to one with a smaller node, or to one   *)
(* where the thread stops.                                                 *)
Stops(r) == r.node = NULL \/ HasStmt(r.node)
After(r) == Completed(r.node, r.tot)

LEMMA AfterIsPlace ==
  ASSUME NEW r \in Place, ~Stops(r)
  PROVE  /\ After(r) \in Place
         /\ Stops(After(r)) \/ After(r).node < r.node
<1> DEFINE n == r.node
           t == r.tot
           m == Graph[n].next
           i == Graph[m].totidx
<1>1. n \in Node /\ ~HasStmt(n) /\ t \in [Counters -> Nat]
  BY DEF Place, Stops
<1>2. m \in Node \cup {NULL} /\ (m # NULL => HasStmt(m) \/ m < n)
  BY <1>1, NextAssumption DEF LeadsBack
<1>3. After(r).node \in {NULL, m} /\ After(r).tot \in {t, [t EXCEPT ![i] = 0], [t EXCEPT ![i] = @ + 1]}
  BY DEF After, Completed
<1>4. After(r) = [node |-> After(r).node, tot |-> After(r).tot]
  BY DEF After, Completed
<1>5. [t EXCEPT ![i] = 0] \in [Counters -> Nat]
  BY <1>1
<1>6. [t EXCEPT ![i] = @ + 1] \in [Counters -> Nat]
  <2>1. CASE i \in Counters
    BY <1>1, <2>1
  <2>2. CASE i \notin Counters
    BY <1>1, <2>2
  <2> QED
    BY <2>1, <2>2
<1>7. After(r).tot \in [Counters -> Nat] /\ After(r).node \in Node \cup {NULL}
  BY <1>1, <1>2, <1>3, <1>5, <1>6
<1>8. After(r) \in Place
  BY <1>4, <1>7 DEF Place
<1> QED
  BY <1>2, <1>3, <1>8 DEF Stops

(* z is where r leads to: every set that holds z and the places before its *)
(* elements holds r.                                                       *)
Before(P) == \A q \in Place : ~Stops(q) /\ After(q) \in P => q \in P
Ends(r) == {z \in Place : Stops(z) /\ \A P \in SUBSET Place : z \in P /\ Before(P) => r \in P}

LEMMA SettledIs ==
  \A r \in Place : Settled[r] = IF Stops(r) THEN r ELSE Settled[After(r)]
<1> DEFINE F == [r \in Place |-> CHOOSE z : z \in Ends(r)]
<1>1. ASSUME NEW r \in Place, Stops(r) PROVE F[r] = r
  <2>1. r \in Ends(r)
    BY <1>1 DEF Ends
  <2>2. ASSUME NEW z \in Ends(r) PROVE z = r
    <3> DEFINE P == {z} \cup {q \in Place : ~Stops(q)}
    <3>1. z \in P /\ P \in SUBSET Place /\ Before(P)
      BY DEF Before, Ends
    <3>2. r \in P
      BY <3>1 DEF Ends
    <3> QED
      BY <1>1, <3>2
  <2>3. Ends(r) = {r}
    BY <2>1, <2>2
  <2> QED
    BY <2>3
<1>2. ASSUME NEW r \in Place, ~Stops(r) PROVE F[r] = F[After(r)]
  <2>1. After(r) \in Place
    BY <1>2, AfterIsPlace
  <2>2. ASSUME NEW z \in Ends(After(r)) PROVE z \in Ends(r)
    BY <1>2, <2>1, <2>2 DEF Ends, Before
  <2>3. ASSUME NEW z \in Ends(r) PROVE z \in Ends(After(r))
    <3> SUFFICES ASSUME NEW P \in SUBSET Place, z \in P, Before(P), After(r) \notin P PROVE FALSE
      BY DEF Ends
    <3> DEFINE Q == P \ {r}
    <3>1. z # r
      BY <1>2 DEF Ends
    <3>2. Q \in SUBSET Place /\ z \in Q /\ Before(Q)
      BY <3>1 DEF Before
    <3>3. r \in Q
      BY <3>2 DEF Ends
    <3> QED
      BY <3>3
  <2>4. Ends(r) = Ends(After(r))
    BY <2>2, <2>3
  <2> QED
    BY <2>1, <2>4
<1>3. F = [r \in Place |-> IF Stops(r) THEN r ELSE F[After(r)]]
  <2>1. F = [r \in Place |-> F[r]]
    OBVIOUS
  <2> HIDE DEF F
  <2>2. \A r \in Place : F[r] = IF Stops(r) THEN r ELSE F[After(r)]
    BY <1>1, <1>2
  <2> QED
    BY <2>1, <2>2
<1> HIDE DEF F
<1>4. \E f : f = [r \in Place |-> IF Stops(r) THEN r ELSE f[After(r)]]
  BY <1>3
<1>5. Settled = CHOOSE f : f = [r \in Place |-> IF Stops(r) THEN r ELSE f[After(r)]]
  BY DEF Settled, Stops, After
<1>6. Settled = [r \in Place |-> IF Stops(r) THEN r ELSE Settled[After(r)]]
  BY <1>4, <1>5
<1> QED
  BY <1>6

LEMMA LeastNatural ==
  ASSUME NEW D \in SUBSET Nat, D # {} PROVE \E x \in D : \A y \in D : ~(y < x)
<1>1. \E x \in D : \A y \in D : ~(<<y, x>> \in OpToRel(<, Nat))
  BY NatLessThanWellFounded, WFMin
<1>2. \A x, y \in D : y < x => <<y, x>> \in OpToRel(<, Nat)
  BY DEF OpToRel
<1> QED
  BY <1>1, <1>2

(* What completing a node keeps, settling keeps.                           *)
LEMMA SettledKeeps ==
  ASSUME NEW K \in SUBSET Place, \A r \in K : ~Stops(r) => After(r) \in K
  PROVE  \A r \in K : Settled[r] \in K
<1> DEFINE bad == {r \in K : Settled[r] \notin K}
           D == {r.node : r \in bad}
<1>1. \A r \in bad : ~Stops(r) /\ After(r) \in bad /\ r.node \in Nat
  <2> SUFFICES ASSUME NEW r \in bad PROVE ~Stops(r) /\ After(r) \in bad /\ r.node \in Nat
    OBVIOUS
  <2>1. ~Stops(r) /\ Settled[r] = Settled[After(r)]
    BY SettledIs
  <2>2. r.node \in Node
    BY <2>1 DEF Place, Stops
  <2> QED
    BY <2>1, <2>2, NodeAssumption
<1>2. \A r \in bad : After(r).node < r.node
  BY <1>1, AfterIsPlace
<1>3. D = {}
  <2> SUFFICES ASSUME D # {} PROVE FALSE
    OBVIOUS
  <2>1. D \in SUBSET Nat
    BY <1>1
  <2>2. PICK x \in D : \A y \in D : ~(y < x)
    <3> HIDE DEF D
    <3> QED
      BY <2>1, LeastNatural
  <2>3. PICK r \in bad : r.node = x
    OBVIOUS
  <2>4. After(r).node \in D /\ After(r).node < x
    BY <1>1, <1>2, <2>3
  <2> QED
    BY <2>2, <2>4
<1> QED
  BY <1>3

-----------------------------------------------------------------------------
(* The invariant: the slots are right, the threads in them are a crew of   *)
(* the program, and no Assert has been reached.                            *)
ThreadInv ==
  /\ SlotInv
  /\ Crew(Body(root), Slot, pc, tot)
  /\ failed = FALSE
  /\ runs \in [Stmts -> Nat]
  /\ turns \in 0 .. MaxTurns

LEMMA RootShape ==
  ASSUME root \in Roots PROVE WellBuilt(root, Body(root)) /\ root \in Node
BY RootsAssumption

LEMMA SlotCount ==
  ASSUME root \in Roots
  PROVE  Slot \in SUBSET Nat /\ IsFiniteSet(Slot) /\ Cardinality(Slot) = Npc[root]
<1>1. Npc[root] \in Nat /\ Npc[root] > 0
  BY RootShape DEF WellBuilt
<1>2. 0 \in Int /\ Npc[root] - 1 \in Int /\ ~(0 > Npc[root] - 1) /\ Npc[root] - 1 - 0 + 1 = Npc[root]
  BY <1>1
<1> QED
  BY <1>2, FS_Interval DEF Slot

(* _pcused counts the threads.                                             *)
LEMMA UsedSlots ==
  ASSUME SlotInv
  PROVE  IsFiniteSet({q \in Slot : pc[q] # NULL}) /\ Cardinality({q \in Slot : pc[q] # NULL}) = pcused
<1> DEFINE empty == {q \in Slot : pc[q] = NULL}
           used == {q \in Slot : pc[q] # NULL}
           b == [i \in Free |-> holes[i]]
<1>1. root \in Roots /\ Npc[root] \in Nat /\ pcused \in Nat /\ pcused <= Npc[root]
  BY SlotFacts DEF SlotInv, SlotTypes
<1>2. b \in [Free -> empty]
  BY DEF SlotInv, SlotsExclusive
<1>3. b \in Bijection(Free, empty)
  <2>1. \A i, j \in Free : b[i] = b[j] => i = j
    BY DEF SlotInv, SlotsExclusive
  <2>2. \A q \in empty : \E i \in Free : b[i] = q
    BY DEF SlotInv, SlotsExclusive
  <2> HIDE DEF b, empty
  <2> QED
    BY <1>2, <2>1, <2>2, Fun_IsBij
<1>4. IsFiniteSet(Free) /\ Cardinality(Free) = Npc[root] - pcused
  <2>1. pcused \in Int /\ Npc[root] - 1 \in Int
        /\ (IF pcused > Npc[root] - 1 THEN 0 ELSE Npc[root] - 1 - pcused + 1) = Npc[root] - pcused
    BY <1>1
  <2> QED
    BY <2>1, FS_Interval DEF Free
<1>5. IsFiniteSet(empty) /\ Cardinality(empty) = Npc[root] - pcused
  <2> HIDE DEF empty
  <2> QED
    BY <1>3, <1>4, FS_Bijection DEF ExistsBijection
<1>6. used = Slot \ empty /\ Slot \cap empty = empty
  OBVIOUS
<1>7. IsFiniteSet(Slot) /\ Cardinality(Slot) = Npc[root]
  BY <1>1, SlotCount
<1>8. IsFiniteSet(Slot \ empty) /\ Cardinality(Slot \ empty) = Cardinality(Slot) - Cardinality(Slot \cap empty)
  <2> HIDE DEF empty
  <2> QED
    BY <1>7, FS_Difference
<1> QED
  BY <1>1, <1>5, <1>6, <1>7, <1>8

(* A thread that passes through a node without a statement.                *)
LEMMA AfterKeepsCrew ==
  ASSUME NEW g, NEW B, WellBuilt(g, B), NEW S, NEW p, p \in [S -> B \cup {NULL}], NEW s \in S,
         NEW q \in Place, ~Stops(q), q.node \in B \cup {NULL},
         Crew(B, S, [p EXCEPT ![s] = q.node], q.tot)
  PROVE  /\ After(q) \in Place /\ After(q).node \in B \cup {NULL}
         /\ Crew(B, S, [p EXCEPT ![s] = After(q).node], After(q).tot)
<1> DEFINE u == [p EXCEPT ![s] = q.node]
<1>1. u[s] = q.node /\ \A x : [u EXCEPT ![s] = x] = [p EXCEPT ![s] = x]
  OBVIOUS
<1>2. q.node \in B /\ Graph[q.node].kind = "none"
  BY DEF Stops, HasStmt
<1>3. Crew(B, S, u, q.tot)
  OBVIOUS
<1> HIDE DEF u
<1>4. /\ Completed(u[s], q.tot).node \in B \cup {NULL}
      /\ Crew(B, S, [u EXCEPT ![s] = Completed(u[s], q.tot).node], Completed(u[s], q.tot).tot)
  BY <1>1, <1>2, <1>3, CompletedStep
<1>5. After(q) \in Place
  BY AfterIsPlace
<1> QED
  BY <1>1, <1>4, <1>5 DEF After

LEMMA MoveKeepsCrew ==
  ASSUME ThreadInv, NEW s \in Slot, pc[s] # NULL, root' = root,
         NEW r \in Place, r.node \in Body(root) \cup {NULL},
         Crew(Body(root), Slot, [pc EXCEPT ![s] = r.node], r.tot),
         Move(s, Settled[r])
  PROVE  SlotInv' /\ Crew(Body(root), Slot, pc, tot)' /\ failed' = FALSE
<1> DEFINE B == Body(root)
           K == {q \in Place : /\ q.node \in B \cup {NULL}
                               /\ Crew(B, Slot, [pc EXCEPT ![s] = q.node], q.tot)}
<1>1. root \in Roots /\ WellBuilt(root, B)
  BY RootShape DEF ThreadInv, SlotInv, SlotTypes
<1>2. pc \in [Slot -> B \cup {NULL}]
  BY DEF ThreadInv, Crew
<1>3. ASSUME NEW q \in K, ~Stops(q) PROVE After(q) \in K
  <2> HIDE DEF B
  <2> QED
    BY <1>1, <1>2, <1>3, AfterKeepsCrew
<1>4. r \in K
  OBVIOUS
<1>5. Settled[r] \in K
  <2> HIDE DEF K
  <2>1. K \in SUBSET Place
    BY DEF K
  <2> QED
    BY <1>3, <1>4, <2>1, SettledKeeps
<1>6. pc' = [pc EXCEPT ![s] = Settled[r].node] /\ tot' = Settled[r].tot /\ Slot' = Slot /\ B' = B
  BY DEF Move, Slot
<1>7. Crew(B, Slot, pc, tot)'
  BY <1>5, <1>6
<1>8. SlotInv' /\ pcused > 0
  BY MoveKeepsSlots, RunningUsesSlot DEF ThreadInv
<1>9. failed' = FALSE
  <2>1. pcused # 0
    BY <1>8, SlotFacts DEF ThreadInv, SlotInv
  <2> QED
    BY <2>1 DEF Move
<1> QED
  BY <1>7, <1>8, <1>9

LEMMA ForkTakes ==
  ASSUME ThreadInv, NEW s \in Slot, Fork(s)
  PROVE  /\ pc[s] \in ForksOf(Body(root)) /\ failed' = FALSE /\ tot' = tot /\ root' = root
         /\ \E e : Forked(Slot, s, pc[s], e, pc, pc')
<1> DEFINE B == Body(root)
           f == pc[s]
           all == Live(f)
           more == Len(all) - 1
           e == [k \in 1 .. Len(all) |-> IF k = 1 THEN s ELSE Taken(k - 1)]
<1>1. root \in Roots /\ WellBuilt(root, B)
  BY RootShape DEF ThreadInv, SlotInv, SlotTypes
<1>2. pc \in [Slot -> B \cup {NULL}] /\ Crew(B, Slot, pc, tot)
  BY DEF ThreadInv, Crew
<1>3. f \in ForksOf(B) /\ f # NULL
  <2>1. f \in Node /\ Graph[f].kind = "fork"
    BY DEF Fork, Running
  <2> QED
    BY <1>2, <2>1, NullIsNoNode DEF ForksOf, Forks
<1>4. Len(all) \in Nat /\ Len(all) > 0 /\ more \in Nat
  <2> HIDE DEF B, f
  <2> QED
    BY <1>1, <1>3, LiveFacts
<1>5. SlotInv /\ SlotInv'
  BY ForkKeepsSlots DEF ThreadInv
<1>6. pcused \in Nat /\ Npc[root] \in Nat
  BY <1>5, SlotFacts DEF SlotInv
<1>7. ~(pcused + more > Npc[root])
  <2>1. Slot \in SUBSET Nat /\ IsFiniteSet(Slot)
    BY <1>1, SlotCount
  <2>2. Cardinality({q \in Slot : pc[q] # NULL}) - 1 + Len(Live(f)) <= Npc[root]
    <3> HIDE DEF B
    <3> QED
      BY <1>1, <1>2, <1>3, <2>1, EnoughSlots
  <2>3. Cardinality({q \in Slot : pc[q] # NULL}) = pcused
    BY <1>5, UsedSlots
  <2> QED
    BY <1>4, <1>6, <2>2, <2>3
<1>8. /\ pc' = [q \in Slot |->
                  IF q = s THEN all[1]
                  ELSE IF \E k \in 1 .. more : q = Taken(k)
                  THEN all[1 + CHOOSE k \in 1 .. more : q = Taken(k)]
                  ELSE pc[q]]
      /\ failed' = failed /\ tot' = tot /\ root' = root
  BY <1>7 DEF Fork
<1>9. failed' = FALSE
  BY <1>8 DEF ThreadInv
<1>10. \A k \in 1 .. more : pcused + k - 1 \in Free
  BY <1>4, <1>6, <1>7 DEF Free
<1>11. \A k \in 1 .. more : Taken(k) \in Slot /\ pc[Taken(k)] = NULL /\ Taken(k) # s
  BY <1>3, <1>5, <1>10 DEF Taken, SlotInv, SlotsExclusive
<1>12. \A k, l \in 1 .. more : Taken(k) = Taken(l) => k = l
  <2> SUFFICES ASSUME NEW k \in 1 .. more, NEW l \in 1 .. more, Taken(k) = Taken(l) PROVE k = l
    OBVIOUS
  <2>1. pcused + k - 1 = pcused + l - 1
    BY <1>5, <1>10 DEF Taken, SlotInv, SlotsExclusive
  <2> QED
    BY <1>6, <2>1
<1>13. \A k \in 1 .. Len(all) : k # 1 => k - 1 \in 1 .. more
  BY <1>4
<1>14. e \in [1 .. Len(all) -> Slot] /\ e[1] = s
  BY <1>4, <1>11, <1>13
<1>15. \A k, l \in 1 .. Len(all) : e[k] = e[l] => k = l
  <2> SUFFICES ASSUME NEW k \in 1 .. Len(all), NEW l \in 1 .. Len(all), e[k] = e[l] PROVE k = l
    OBVIOUS
  <2>1. CASE k = 1 \/ l = 1
    BY <1>11, <1>13, <2>1
  <2>2. CASE k # 1 /\ l # 1
    <3>1. k - 1 = l - 1
      BY <1>12, <1>13, <2>2
    <3> QED
      BY <3>1
  <2> QED
    BY <2>1, <2>2
<1>16. \A k \in 1 .. Len(all) : k # 1 => pc[e[k]] = NULL
  BY <1>11, <1>13
<1>17. \A k \in 1 .. Len(all) : pc'[e[k]] = all[k]
  <2> SUFFICES ASSUME NEW k \in 1 .. Len(all) PROVE pc'[e[k]] = all[k]
    OBVIOUS
  <2>1. CASE k = 1
    BY <1>8, <1>14, <2>1
  <2>2. CASE k # 1
    <3> DEFINE j == k - 1
               j2 == CHOOSE m \in 1 .. more : Taken(j) = Taken(m)
    <3>1. j \in 1 .. more /\ e[k] = Taken(j) /\ Taken(j) \in Slot /\ Taken(j) # s
      BY <1>11, <1>13, <2>2
    <3>2. j2 = j
      BY <1>12, <3>1
    <3>3. pc'[Taken(j)] = all[1 + j2] /\ 1 + j = k
      BY <1>8, <3>1
    <3> QED
      BY <2>2, <3>1, <3>2, <3>3
  <2> QED
    BY <2>1, <2>2
<1>18. \A q \in Slot : (\A k \in 1 .. Len(all) : q # e[k]) => pc'[q] = pc[q]
  <2> SUFFICES ASSUME NEW q \in Slot, \A k \in 1 .. Len(all) : q # e[k] PROVE pc'[q] = pc[q]
    OBVIOUS
  <2>1. q # s
    BY <1>4, <1>14
  <2>2. ASSUME NEW k \in 1 .. more PROVE q # Taken(k)
    <3>1. k + 1 \in 1 .. Len(all) /\ k + 1 # 1 /\ (k + 1) - 1 = k
      BY <1>4
    <3>2. e[k + 1] = Taken(k)
      BY <3>1
    <3> QED
      BY <3>1, <3>2
  <2> QED
    BY <1>8, <2>1, <2>2
<1>19. pc' = [q \in Slot |-> pc'[q]]
  BY <1>8
<1>20. Forked(Slot, s, f, e, pc, pc')
  <2> HIDE DEF e
  <2> QED
    BY <1>14, <1>15, <1>16, <1>17, <1>18, <1>19 DEF Forked
<1> HIDE DEF e
<1> QED
  BY <1>3, <1>8, <1>9, <1>20

LEMMA ForkKeepsCrew ==
  ASSUME ThreadInv, NEW s \in Slot, Fork(s)
  PROVE  SlotInv' /\ Crew(Body(root), Slot, pc, tot)' /\ failed' = FALSE
<1> DEFINE B == Body(root)
<1>1. WellBuilt(root, B) /\ Crew(B, Slot, pc, tot) /\ SlotInv'
  BY RootShape, ForkKeepsSlots DEF ThreadInv, SlotInv, SlotTypes
<1>2. /\ pc[s] \in ForksOf(B) /\ failed' = FALSE /\ tot' = tot /\ root' = root
      /\ \E e : Forked(Slot, s, pc[s], e, pc, pc')
  BY ForkTakes
<1>3. Slot' = Slot /\ B' = B
  BY <1>2 DEF Slot
<1> HIDE DEF B
<1>4. Crew(B, Slot, pc', tot)
  BY <1>1, <1>2, ForkStep
<1> QED
  BY <1>1, <1>2, <1>3, <1>4 DEF B

LEMMA ThreadInit == Init => ThreadInv
<1> SUFFICES ASSUME Init PROVE ThreadInv
  OBVIOUS
<1> DEFINE B == Body(root)
<1>1. root \in Roots /\ WellBuilt(root, B) /\ root \in B
  BY RootShape DEF Init, WellBuilt
<1>2. SlotInv
  BY SlotInvInit
<1>3. \A q \in Slot : pc[q] = (IF q = 0 THEN root ELSE NULL)
  BY DEF Init
<1>4. \A f \in ForksOf(B) : At(Slot, pc, f) = {}
  <2> SUFFICES ASSUME NEW f \in ForksOf(B), NEW i \in Branches(f), NEW q \in Slot,
                      pc[q] \in Branch(f, i)
               PROVE  FALSE
    BY DEF At
  <2>1. pc[q] \in Inside(f) /\ pc[q] \in {root, NULL}
    BY <1>3 DEF Inside
  <2> HIDE DEF B
  <2> QED
    BY <1>1, <2>1, NobodyNowhere DEF WellBuilt, ForksOf
<1>5. Crew(B, Slot, pc, tot)
  <2>1. pc \in [Slot -> B \cup {NULL}]
    BY <1>1 DEF Init
  <2>2. tot \in [Counters -> Nat] /\ \A c \in Counters : tot[c] = 0
    BY DEF Init
  <2>3. Apart(B, Slot, pc)
    BY <1>3 DEF Apart
  <2> HIDE DEF B
  <2> QED
    BY <1>4, <2>1, <2>2, <2>3 DEF Crew, Counted, Cleared
<1>6. failed = FALSE /\ runs \in [Stmts -> Nat] /\ turns \in 0 .. MaxTurns
  BY TurnsAssumption DEF Init
<1> QED
  BY <1>2, <1>5, <1>6 DEF ThreadInv

(* Every move: on from a statement or a loop, or into a branch.            *)
LEMMA GoOnKeepsCrew ==
  ASSUME ThreadInv, NEW s \in Slot, pc[s] \in Node, Graph[pc[s]].kind \notin {"fork", "select"},
         root' = root, Move(s, Settled[Completed(pc[s], tot)])
  PROVE  SlotInv' /\ Crew(Body(root), Slot, pc, tot)' /\ failed' = FALSE
<1> DEFINE B == Body(root)
           r == Completed(pc[s], tot)
<1>1. root \in Roots /\ WellBuilt(root, B)
  BY RootShape DEF ThreadInv, SlotInv, SlotTypes
<1>2. pc \in [Slot -> B \cup {NULL}] /\ Crew(B, Slot, pc, tot)
  BY DEF ThreadInv, Crew
<1>3. pc[s] # NULL /\ pc[s] \in B
  BY <1>2, NullIsNoNode
<1>4. r.node \in B \cup {NULL} /\ Crew(B, Slot, [pc EXCEPT ![s] = r.node], r.tot)
  <2> HIDE DEF B
  <2> QED
    BY <1>1, <1>2, <1>3, CompletedStep
<1>5. r \in Place
  <2>1. r = [node |-> r.node, tot |-> r.tot]
    BY DEF Completed
  <2>2. r.tot \in [Counters -> Nat]
    BY <1>4 DEF Crew
  <2>3. r.node \in Node \cup {NULL}
    BY <1>1, <1>4 DEF WellBuilt, Closed
  <2> QED
    BY <2>1, <2>2, <2>3 DEF Place
<1> HIDE DEF r
<1>6. Move(s, Settled[r])
  BY DEF r
<1> QED
  BY <1>3, <1>4, <1>5, <1>6, MoveKeepsCrew

LEMMA BranchKeepsCrew ==
  ASSUME ThreadInv, NEW s \in Slot, pc[s] \in Node, Graph[pc[s]].kind \in {"select", "loop"},
         root' = root, NEW i \in DOMAIN Graph[pc[s]].all,
         Move(s, Settled[[node |-> Graph[pc[s]].all[i], tot |-> tot]])
  PROVE  SlotInv' /\ Crew(Body(root), Slot, pc, tot)' /\ failed' = FALSE
<1> DEFINE B == Body(root)
           m == Graph[pc[s]].all[i]
           r == [node |-> m, tot |-> tot]
<1>1. root \in Roots /\ WellBuilt(root, B)
  BY RootShape DEF ThreadInv, SlotInv, SlotTypes
<1>2. pc \in [Slot -> B \cup {NULL}] /\ Crew(B, Slot, pc, tot) /\ tot \in [Counters -> Nat]
  BY DEF ThreadInv, Crew
<1>3. pc[s] # NULL /\ pc[s] \in B
  BY <1>2, NullIsNoNode
<1>4. m \in B /\ m \in Node /\ Same(B, pc[s], m)
  BY <1>1, <1>3 DEF WellBuilt, Closed, Flow
<1>5. Crew(B, Slot, [pc EXCEPT ![s] = m], tot)
  <2> HIDE DEF B, m
  <2> QED
    BY <1>1, <1>2, <1>3, <1>4, SameStep
<1>6. r \in Place /\ r.node = m /\ r.tot = tot
  BY <1>2, <1>4 DEF Place
<1>7. Move(s, Settled[r])
  OBVIOUS
<1> HIDE DEF r, m
<1> QED
  BY <1>3, <1>4, <1>5, <1>6, <1>7, MoveKeepsCrew

LEMMA ThreadStep == ThreadInv /\ [Next]_vars => ThreadInv'
<1> SUFFICES ASSUME ThreadInv, [Next]_vars PROVE ThreadInv'
  OBVIOUS
<1> USE DEF Running
<1>1. runs \in [Stmts -> Nat] /\ turns \in 0 .. MaxTurns /\ MaxTurns \in Nat
  BY TurnsAssumption DEF ThreadInv
<1>2. ASSUME NEW s \in Slot, Execute(s) PROVE ThreadInv'
  <2>1. SlotInv' /\ Crew(Body(root), Slot, pc, tot)' /\ failed' = FALSE
    BY <1>2, GoOnKeepsCrew DEF Execute
  <2>2. runs' \in [Stmts -> Nat]
    <3> DEFINE x == Graph[pc[s]].name
    <3>1. CASE x \in Stmts
      BY <1>1, <1>2, <3>1 DEF Execute
    <3>2. CASE x \notin Stmts
      BY <1>1, <1>2, <3>2 DEF Execute
    <3> QED
      BY <3>1, <3>2
  <2> QED
    BY <1>1, <1>2, <2>1, <2>2 DEF Execute, ThreadInv
<1>3. ASSUME NEW s \in Slot, Fork(s) PROVE ThreadInv'
  BY <1>1, <1>3, ForkKeepsCrew DEF Fork, ThreadInv
<1>4. ASSUME NEW s \in Slot, Choose(s) PROVE ThreadInv'
  <2>1. SlotInv' /\ Crew(Body(root), Slot, pc, tot)' /\ failed' = FALSE
    BY <1>4, BranchKeepsCrew DEF Choose
  <2> QED
    BY <1>1, <1>4, <2>1 DEF Choose, ThreadInv
<1>5. ASSUME NEW s \in Slot, Turn(s) PROVE ThreadInv'
  <2>1. SlotInv' /\ Crew(Body(root), Slot, pc, tot)' /\ failed' = FALSE
    BY <1>5, BranchKeepsCrew DEF Turn
  <2>2. turns' \in 0 .. MaxTurns
    BY <1>1, <1>5 DEF Turn
  <2> QED
    BY <1>1, <1>5, <2>1, <2>2 DEF Turn, ThreadInv
<1>6. ASSUME NEW s \in Slot, Exit(s) PROVE ThreadInv'
  <2>1. SlotInv' /\ Crew(Body(root), Slot, pc, tot)' /\ failed' = FALSE
    BY <1>6, GoOnKeepsCrew DEF Exit
  <2> QED
    BY <1>1, <1>6, <2>1 DEF Exit, ThreadInv
<1>7. CASE UNCHANGED vars
  <2>1. SlotInv'
    BY SlotInvStep DEF ThreadInv
  <2>2. Slot' = Slot /\ Body(root)' = Body(root)
    BY <1>7 DEF vars, Slot
  <2> QED
    BY <1>7, <2>1, <2>2 DEF vars, ThreadInv
<1> QED
  BY <1>2, <1>3, <1>4, <1>5, <1>6, <1>7 DEF Next

(* The invariant, for every program of the right shape and any number of   *)
(* turns.                                                                  *)
THEOREM ThreadsInvariant == Spec => []ThreadInv
BY ThreadInit, ThreadStep, PTL DEF Spec

THEOREM TypeCorrect == Spec => []TypeOK
<1>1. ThreadInv => TypeOK
  <2> SUFFICES ASSUME ThreadInv PROVE TypeOK
    OBVIOUS
  <2>1. WellBuilt(root, Body(root)) /\ Crew(Body(root), Slot, pc, tot) /\ SlotTypes
    BY RootShape DEF ThreadInv, SlotInv, SlotTypes
  <2>2. pc \in [Slot -> Node \cup {NULL}] /\ tot \in [Counters -> Nat]
    BY <2>1 DEF WellBuilt, Closed, Crew
  <2> QED
    BY <2>1, <2>2 DEF ThreadInv, TypeOK, SlotTypes
<1> QED
  BY <1>1, ThreadsInvariant, PTL

(* The number of slots computed from the program text is enough: what runs *)
(* at once lies in different branches, and those have different slots.     *)
THEOREM NeverOverflows == Spec => []NoOverflow
<1>1. ThreadInv => NoOverflow
  BY DEF ThreadInv, NoOverflow
<1> QED
  BY <1>1, ThreadsInvariant, PTL

(* A join counter serves one fork at a time and has counted the branches   *)
(* of that fork that are over.                                             *)
THEOREM JoinsCount == Spec => []ForkJoin
<1>1. ThreadInv => ForkJoin
  <2> SUFFICES ASSUME ThreadInv PROVE ForkJoin
    OBVIOUS
  <2> DEFINE B == Body(root)
  <2>1. root \in Roots /\ WellBuilt(root, B) /\ Crew(B, Slot, pc, tot)
    BY RootShape DEF ThreadInv, SlotInv, SlotTypes
  <2>2. /\ pc \in [Slot -> B \cup {NULL}] /\ Apart(B, Slot, pc)
        /\ Counted(B, Slot, pc, tot) /\ Cleared(B, Slot, pc, tot)
    BY <2>1 DEF Crew
  <2>3. \A f \in Forks : Occupied(f) = At(Slot, pc, f)
    BY DEF Occupied, At, Branches, Branch
  <2> HIDE DEF B
  <2>4. ASSUME NEW f \in Forks, Occupied(f) # {} PROVE f \in ForksOf(B)
    <3>1. PICK i \in Branches(f), q \in Slot : pc[q] \in Branch(f, i)
      BY <2>3, <2>4 DEF At
    <3>2. Inside(f) \cap (B \cup {NULL}) # {}
      BY <2>2, <3>1 DEF Inside
    <3> QED
      BY <2>1, <3>2 DEF WellBuilt, ForksOf
  <2> SUFFICES ASSUME NEW c \in Counters
               PROVE  LET busy == {f \in Forks : Graph[Graph[f].next].totidx = c /\ Occupied(f) # {}}
                      IN /\ Cardinality(busy) <= 1
                         /\ busy = {} => tot[c] = 0
                         /\ \A f \in busy :
                              tot[c] + Cardinality(Occupied(f)) = Graph[Graph[f].next].wait
    BY DEF ForkJoin
  <2> DEFINE busy == {f \in Forks : Graph[Graph[f].next].totidx = c /\ Occupied(f) # {}}
  <2>5. \A f \in busy : f \in ForksOf(B) /\ Counter(f) = c /\ At(Slot, pc, f) # {}
    BY <2>3, <2>4 DEF Counter, Join
  <2>6. \A f, h \in busy : f = h
    BY <2>1, <2>2, <2>5, OneBusy
  <2>7. Cardinality(busy) <= 1
    <3>1. CASE busy = {}
      BY <3>1, FS_EmptySet
    <3>2. CASE busy # {}
      <4>1. PICK f \in busy : TRUE
        BY <3>2
      <4>2. busy = {f}
        BY <2>6, <4>1
      <4> HIDE DEF busy
      <4>3. Cardinality(busy) = 1
        BY <4>2, FS_Singleton
      <4> QED
        BY <4>3
    <3> QED
      BY <3>1, <3>2
  <2>8. busy = {} => tot[c] = 0
    <3> SUFFICES ASSUME busy = {} PROVE tot[c] = 0
      OBVIOUS
    <3>1. \A f \in ForksOf(B) : Counter(f) = c => At(Slot, pc, f) = {}
      BY <2>3 DEF Counter, Join, ForksOf
    <3> QED
      BY <2>2, <3>1 DEF Cleared
  <2>9. \A f \in busy : tot[c] + Cardinality(Occupied(f)) = Graph[Graph[f].next].wait
    BY <2>2, <2>3, <2>5 DEF Counted, Join
  <2> QED
    BY <2>7, <2>8, <2>9
<1> QED
  BY <1>1, ThreadsInvariant, PTL

(* Nobody waits at a join when the last thread has ended, and all slots    *)
(* have been given back.                                                   *)
THEOREM NobodyWaits ==
  Spec => []((\A s \in Slot : pc[s] = NULL) => pcused = 0 /\ \A c \in Counters : tot[c] = 0)
<1>1. ThreadInv => ((\A s \in Slot : pc[s] = NULL) => pcused = 0 /\ \A c \in Counters : tot[c] = 0)
  <2> SUFFICES ASSUME ThreadInv, \A s \in Slot : pc[s] = NULL
               PROVE  pcused = 0 /\ \A c \in Counters : tot[c] = 0
    OBVIOUS
  <2> DEFINE B == Body(root)
  <2>1. WellBuilt(root, B) /\ Cleared(B, Slot, pc, tot)
    BY RootShape DEF ThreadInv, SlotInv, SlotTypes, Crew
  <2>2. \A f \in ForksOf(B) : At(Slot, pc, f) = {}
    <3> HIDE DEF B
    <3> QED
      BY <2>1, NobodyNowhere DEF At, Inside
  <2>3. {q \in Slot : pc[q] # NULL} = {}
    OBVIOUS
  <2>4. pcused = 0
    BY <2>3, UsedSlots, FS_EmptySet DEF ThreadInv
  <2> QED
    BY <2>1, <2>2, <2>4 DEF Cleared
<1> QED
  BY <1>1, ThreadsInvariant, PTL

-----------------------------------------------------------------------------
(* Lines of control.  A line is held by a thread on it, or by a branch that *)
(* has brought it to a join which others have not reached yet.             *)
Waits(B, X, Y, R, S, p, f, i) ==
  Carries(B, X, Y, R, f, i) /\ At(S, p, f) # {} /\ i \notin At(S, p, f)
OnLine(B, X, Y, R, S, p) ==
  \/ \E s \in S : p[s] \in R
  \/ \E f \in ForksOf(B) : \E i \in Branches(f) : Waits(B, X, Y, R, S, p, f, i)

(* What completing a node n does to a line.                                *)
LineStep(B, X, Y, R, S, p, n, r) ==
  OnLine(B, X, Y, R, S, r) <=> (n \in GoesOn(X, Y, R) \/ (OnLine(B, X, Y, R, S, p) /\ n \notin Y))

LEMMA LineFacts ==
  ASSUME NEW g, NEW B, WellBuilt(g, B), NEW X, NEW Y, NEW R, InLine(B, X, Y, R)
  PROVE  /\ NULL \notin R /\ NULL \notin X /\ X \cap Y = {} /\ X \cap R = {} /\ Y \subseteq R
         /\ \A n \in R \cup X : \A m \in R \cup X : ~Concurrent(B, n, m)
BY NullIsNoNode DEF WellBuilt, Closed, InLine

(* A thread that is on the line, or about to enter it, is the only one, and *)
(* no join has the line.                                                   *)
LEMMA AloneOnLine ==
  ASSUME NEW g, NEW B, WellBuilt(g, B), NEW S, NEW p, NEW t, Crew(B, S, p, t),
         NEW X, NEW Y, NEW R, InLine(B, X, Y, R), NEW s \in S, p[s] \in R \cup X
  PROVE  /\ \A q \in S : q # s => p[q] \notin R \cup X
         /\ \A f \in ForksOf(B) : \A i \in Branches(f) : ~Waits(B, X, Y, R, S, p, f, i)
<1>1. /\ p[s] # NULL /\ \A m \in R \cup X : m # NULL /\ ~Concurrent(B, p[s], m)
      /\ \A q \in S : q # s /\ p[q] # NULL => Concurrent(B, p[s], p[q])
  BY LineFacts DEF Crew, Apart
<1>2. ASSUME NEW f \in ForksOf(B), NEW i \in Branches(f), Waits(B, X, Y, R, S, p, f, i) PROVE FALSE
  <2>1. PICK m : m \in Branch(f, i) /\ m \in R \cup X
    BY <1>2 DEF Waits, Carries, ToJoin, GoesOn
  <2>2. PICK j \in Branches(f), q \in S : p[q] \in Branch(f, j)
    BY <1>2 DEF Waits, At
  <2>3. p[s] \notin Inside(f)
    <3> SUFFICES ASSUME NEW k \in Branches(f), p[s] \in Branch(f, k) PROVE FALSE
      BY DEF Inside
    <3>1. k # i
      BY <1>2 DEF Waits, At
    <3> QED
      BY <1>1, <2>1, <3>1 DEF Concurrent
  <2>4. p[q] \in Inside(f) /\ p[q] # NULL /\ q # s
    BY <2>2, <2>3, NobodyNowhere DEF Inside
  <2>5a. PICK h \in ForksOf(B) : \E a, b \in Branches(h) :
          a # b /\ p[s] \in Branch(h, a) /\ p[q] \in Branch(h, b)
    BY <1>1, <2>4 DEF Concurrent
  <2>5. PICK a \in Branches(h), b \in Branches(h) :
          a # b /\ p[s] \in Branch(h, a) /\ p[q] \in Branch(h, b)
    BY <2>5a
  <2>6. p[s] \in Inside(h) /\ p[q] \in Inside(h) /\ h # f
    BY <2>3, <2>5 DEF Inside
  <2>7. CASE h \in Inside(f)
    <3>1. Inside(h) \subseteq Inside(f)
      BY <2>7, ForkInBranch DEF Inside
    <3> QED
      BY <2>3, <2>6, <3>1
  <2>8. CASE f \in Inside(h)
    <3>1. PICK c \in Branches(h) : f \in Branch(h, c)
      BY <2>8 DEF Inside
    <3>2. Inside(f) \subseteq Branch(h, c)
      BY <3>1, ForkInBranch
    <3>3. c = b
      BY <2>4, <2>5, <3>2, OneBranch
    <3>4. m \in Branch(h, b)
      BY <2>1, <3>2, <3>3 DEF Inside
    <3> QED
      BY <1>1, <2>1, <2>5, <3>4 DEF Concurrent
  <2> QED
    BY <2>4, <2>6, <2>7, <2>8 DEF WellBuilt, ForksNest
<1> QED
  BY <1>1, <1>2

(* The line after a step of thread s, in four cases: it was not concerned, *)
(* it entered, went on, or left.                                           *)
LEMMA LineCases ==
  ASSUME NEW g, NEW B, WellBuilt(g, B), NEW S, NEW p, NEW t, Crew(B, S, p, t),
         NEW X, NEW Y, NEW R, InLine(B, X, Y, R), NEW s \in S, NEW r,
         \A q \in S : q # s => r[q] = p[q],
         p[s] \in GoesOn(X, Y, R) => OnLine(B, X, Y, R, S, r),
         p[s] \in Y => r[s] \notin R /\ \A f \in ForksOf(B) : \A i \in Branches(f) :
                                      ~Waits(B, X, Y, R, S, r, f, i),
         p[s] \notin R \cup X => (OnLine(B, X, Y, R, S, r) <=> OnLine(B, X, Y, R, S, p))
  PROVE  LineStep(B, X, Y, R, S, p, p[s], r)
<1>1. CASE p[s] \in GoesOn(X, Y, R)
  BY <1>1 DEF LineStep
<1>2. CASE p[s] \in Y
  <2>1. p[s] \in R \cup X /\ p[s] \notin GoesOn(X, Y, R)
    BY <1>2, LineFacts DEF GoesOn
  <2>2. \A q \in S : q # s => p[q] \notin R
    BY <2>1, AloneOnLine
  <2>3. ~OnLine(B, X, Y, R, S, r)
    BY <1>2, <2>2 DEF OnLine
  <2> QED
    BY <1>2, <2>1, <2>3 DEF LineStep
<1>3. CASE p[s] \notin R \cup X
  <2>1. p[s] \notin GoesOn(X, Y, R) /\ p[s] \notin Y
    BY <1>3, LineFacts DEF GoesOn
  <2> QED
    BY <1>3, <2>1 DEF LineStep
<1> QED
  BY <1>1, <1>2, <1>3 DEF GoesOn

(* A thread that moves without changing which branches are occupied.       *)
LEMMA ForwardOnLine ==
  ASSUME NEW g, NEW B, WellBuilt(g, B), NEW S, NEW p, NEW t, Crew(B, S, p, t),
         NEW X, NEW Y, NEW R, InLine(B, X, Y, R), NEW s \in S, NEW r,
         \A q \in S : q # s => r[q] = p[q],
         \A f \in ForksOf(B) : At(S, r, f) = At(S, p, f),
         r[s] \in R <=> p[s] \in GoesOn(X, Y, R)
  PROVE  LineStep(B, X, Y, R, S, p, p[s], r)
<1>1. \A f \in ForksOf(B) : \A i \in Branches(f) :
        Waits(B, X, Y, R, S, r, f, i) <=> Waits(B, X, Y, R, S, p, f, i)
  BY DEF Waits
<1>2. p[s] \in GoesOn(X, Y, R) => OnLine(B, X, Y, R, S, r)
  BY DEF OnLine
<1>3. p[s] \in Y => r[s] \notin R /\ \A f \in ForksOf(B) : \A i \in Branches(f) :
                                   ~Waits(B, X, Y, R, S, r, f, i)
  <2> SUFFICES ASSUME p[s] \in Y
               PROVE  r[s] \notin R /\ \A f \in ForksOf(B) : \A i \in Branches(f) :
                                         ~Waits(B, X, Y, R, S, r, f, i)
    OBVIOUS
  <2>1. p[s] \in R \cup X /\ p[s] \notin GoesOn(X, Y, R)
    BY LineFacts DEF GoesOn
  <2> QED
    BY <1>1, <2>1, AloneOnLine
<1>4. p[s] \notin R \cup X => (OnLine(B, X, Y, R, S, r) <=> OnLine(B, X, Y, R, S, p))
  <2> SUFFICES ASSUME p[s] \notin R \cup X
               PROVE  OnLine(B, X, Y, R, S, r) <=> OnLine(B, X, Y, R, S, p)
    OBVIOUS
  <2>1. r[s] \notin R /\ p[s] \notin R
    BY DEF GoesOn
  <2>2. \A q \in S : r[q] \in R <=> p[q] \in R
    BY <2>1
  <2> QED
    BY <1>1, <2>2 DEF OnLine
<1> QED
  BY <1>2, <1>3, <1>4, LineCases

(* A thread that ends at the join of f, where others are still missing: if *)
(* it was on the line, the join waits on behalf of the line.               *)
LEMMA ArriveOnLine ==
  ASSUME NEW g, NEW B, WellBuilt(g, B), NEW S, NEW p, NEW t, Crew(B, S, p, t),
         NEW X, NEW Y, NEW R, InLine(B, X, Y, R), NEW s \in S, NEW r,
         \A q \in S : q # s => r[q] = p[q],
         NEW f \in ForksOf(B), NEW i \in Branches(f), p[s] \in ToJoin(B, f, i),
         SameBut(B, p[s], Join(f), f), r[s] = NULL, At(S, p, f) # {i}
  PROVE  LineStep(B, X, Y, R, S, p, p[s], r)
<1> DEFINE W(u, h, j) == Waits(B, X, Y, R, S, u, h, j)
<1>1. p[s] \in Branch(f, i) /\ (p[s] \in GoesOn(X, Y, R) <=> Carries(B, X, Y, R, f, i))
  BY DEF InLine, ToJoin
<1>2. i \in At(S, p, f) /\ At(S, r, f) = At(S, p, f) \ {i}
  BY <1>1, Arrival
<1>3. At(S, r, f) # {}
  BY <1>2
<1>4. \A h \in ForksOf(B) : h # f => At(S, r, h) = At(S, p, h)
  BY <1>1, <1>3, Arrival
<1>5. W(r, f, i) <=> p[s] \in GoesOn(X, Y, R)
  BY <1>1, <1>2, <1>3 DEF Waits
<1>6. ~W(p, f, i)
  BY <1>2 DEF Waits
<1>7. \A h \in ForksOf(B) : \A j \in Branches(h) : h # f \/ j # i => (W(r, h, j) <=> W(p, h, j))
  BY <1>2, <1>3, <1>4 DEF Waits
<1> HIDE DEF W
<1>8. p[s] \in GoesOn(X, Y, R) => OnLine(B, X, Y, R, S, r)
  BY <1>5 DEF OnLine, W
<1>9. p[s] \in Y => r[s] \notin R /\ \A h \in ForksOf(B) : \A j \in Branches(h) : ~W(r, h, j)
  <2> SUFFICES ASSUME p[s] \in Y
               PROVE  r[s] \notin R /\ \A h \in ForksOf(B) : \A j \in Branches(h) : ~W(r, h, j)
    OBVIOUS
  <2>1. p[s] \in R \cup X /\ p[s] \notin GoesOn(X, Y, R) /\ NULL \notin R
    BY LineFacts DEF GoesOn
  <2>2. \A h \in ForksOf(B) : \A j \in Branches(h) : ~W(p, h, j)
    BY <2>1, AloneOnLine DEF W
  <2> QED
    BY <1>5, <1>7, <2>1, <2>2
<1>10. p[s] \notin R \cup X => (OnLine(B, X, Y, R, S, r) <=> OnLine(B, X, Y, R, S, p))
  <2> SUFFICES ASSUME p[s] \notin R \cup X
               PROVE  OnLine(B, X, Y, R, S, r) <=> OnLine(B, X, Y, R, S, p)
    OBVIOUS
  <2>1. \A q \in S : r[q] \in R <=> p[q] \in R
    BY LineFacts
  <2>2. \A h \in ForksOf(B) : \A j \in Branches(h) : W(r, h, j) <=> W(p, h, j)
    BY <1>5, <1>6, <1>7 DEF GoesOn
  <2> QED
    BY <2>1, <2>2 DEF OnLine, W
<1> QED
  BY <1>8, <1>9, <1>10, LineCases DEF W

(* The last one goes on from the join, for whichever branch had the line.  *)
LEMMA JoinOnLine ==
  ASSUME NEW g, NEW B, WellBuilt(g, B), NEW S, NEW p, NEW t, Crew(B, S, p, t),
         NEW X, NEW Y, NEW R, InLine(B, X, Y, R), NEW s \in S, NEW r,
         \A q \in S : q # s => r[q] = p[q],
         NEW f \in ForksOf(B), NEW i \in Branches(f), p[s] \in ToJoin(B, f, i),
         SameBut(B, p[s], Join(f), f), r[s] = Join(f), At(S, p, f) = {i}
  PROVE  LineStep(B, X, Y, R, S, p, p[s], r)
<1> DEFINE W(u, h, j) == Waits(B, X, Y, R, S, u, h, j)
<1>1. /\ p[s] \in Branch(f, i) /\ (p[s] \in GoesOn(X, Y, R) <=> Carries(B, X, Y, R, f, i))
      /\ Join(f) \in R <=> \E j \in Branches(f) : Carries(B, X, Y, R, f, j)
  BY DEF InLine, ToJoin
<1>2. At(S, r, f) = {}
  BY <1>1, Arrival
<1>3. \A h \in ForksOf(B) : h # f => At(S, r, h) = At(S, p, h)
  BY <1>1, Arrival
<1>4. \A j \in Branches(f) : ~W(r, f, j) /\ (W(p, f, j) <=> j # i /\ Carries(B, X, Y, R, f, j))
  BY <1>2 DEF Waits
<1>5. \A h \in ForksOf(B) : h # f => \A j \in Branches(h) : W(r, h, j) <=> W(p, h, j)
  BY <1>3 DEF Waits
<1> HIDE DEF W
<1>6. p[s] \in GoesOn(X, Y, R) => OnLine(B, X, Y, R, S, r)
  BY <1>1 DEF OnLine
<1>7. p[s] \in Y => r[s] \notin R /\ \A h \in ForksOf(B) : \A j \in Branches(h) : ~W(r, h, j)
  <2> SUFFICES ASSUME p[s] \in Y
               PROVE  r[s] \notin R /\ \A h \in ForksOf(B) : \A j \in Branches(h) : ~W(r, h, j)
    OBVIOUS
  <2>1. p[s] \in R \cup X /\ p[s] \notin GoesOn(X, Y, R)
    BY LineFacts DEF GoesOn
  <2>2. \A h \in ForksOf(B) : \A j \in Branches(h) : ~W(p, h, j)
    BY <2>1, AloneOnLine DEF W
  <2> QED
    BY <1>1, <1>4, <1>5, <2>1, <2>2
<1>8. p[s] \notin R \cup X => (OnLine(B, X, Y, R, S, r) <=> OnLine(B, X, Y, R, S, p))
  <2> SUFFICES ASSUME p[s] \notin R \cup X
               PROVE  OnLine(B, X, Y, R, S, r) <=> OnLine(B, X, Y, R, S, p)
    OBVIOUS
  <2>1. ~Carries(B, X, Y, R, f, i)
    BY <1>1 DEF GoesOn
  <2>2. Join(f) \in R <=> \E j \in Branches(f) : W(p, f, j)
    BY <1>1, <1>4, <2>1
  <2>3. \A q \in S : q # s => (r[q] \in R <=> p[q] \in R)
    OBVIOUS
  <2>4. ASSUME OnLine(B, X, Y, R, S, p) PROVE OnLine(B, X, Y, R, S, r)
    <3>1. CASE \E q \in S : p[q] \in R
      BY <2>3, <3>1 DEF OnLine
    <3>2. CASE \E h \in ForksOf(B) : \E j \in Branches(h) : W(p, h, j)
      BY <1>5, <2>2, <3>2 DEF OnLine, W
    <3> QED
      BY <2>4, <3>1, <3>2 DEF OnLine, W
  <2>5. ASSUME OnLine(B, X, Y, R, S, r) PROVE OnLine(B, X, Y, R, S, p)
    <3>1. CASE \E q \in S : r[q] \in R
      <4>1. PICK q \in S : r[q] \in R
        BY <3>1
      <4>2. CASE q = s
        BY <2>2, <4>1, <4>2 DEF OnLine, W
      <4> QED
        BY <2>3, <4>1, <4>2 DEF OnLine
    <3>2. CASE \E h \in ForksOf(B) : \E j \in Branches(h) : W(r, h, j)
      BY <1>4, <1>5, <3>2 DEF OnLine, W
    <3> QED
      BY <2>5, <3>1, <3>2 DEF OnLine, W
  <2> QED
    BY <2>4, <2>5
<1> QED
  BY <1>6, <1>7, <1>8, LineCases DEF W

(* The counter of a join tells the last of the branches that are still     *)
(* occupied from the others.                                               *)
LEMMA LastArrival ==
  ASSUME NEW g, NEW B, WellBuilt(g, B), NEW S, NEW p, NEW t, Crew(B, S, p, t),
         NEW f \in ForksOf(B), NEW i, i \in At(S, p, f)
  PROVE  t[Counter(f)] + 1 = Graph[Join(f)].wait <=> At(S, p, f) = {i}
<1> DEFINE A == At(S, p, f)
           N == Cardinality(A)
<1>1. IsFiniteSet(A) /\ N \in Nat
  BY AtFinite
<1>2. t[Counter(f)] \in Nat /\ t[Counter(f)] + N = Graph[Join(f)].wait
  BY DEF Crew, Counted, WellBuilt, ForkShape
<1> HIDE DEF A
<1>3. i \in A
  BY DEF A
<1>4. IsFiniteSet(A \ {i}) /\ Cardinality(A \ {i}) = N - 1
  BY <1>1, <1>3, FS_RemoveElement
<1>5. N = 1 <=> A \ {i} = {}
  BY <1>1, <1>4, FS_EmptySet
<1>6. A \ {i} = {} <=> A = {i}
  BY <1>3
<1> QED
  BY <1>1, <1>2, <1>5, <1>6 DEF A

(* A thread that goes on from a node n that is no fork and no selection.   *)
LEMMA CompletedOnLine ==
  ASSUME NEW g, NEW B, WellBuilt(g, B), NEW S, NEW p, NEW t, Crew(B, S, p, t),
         NEW X, NEW Y, NEW R, InLine(B, X, Y, R),
         NEW s \in S, p[s] \in B, Graph[p[s]].kind \notin {"fork", "select"},
         NEW r, r = [p EXCEPT ![s] = Completed(p[s], t).node]
  PROVE  LineStep(B, X, Y, R, S, p, p[s], r)
<1> DEFINE n == p[s]
           m == Graph[n].next
<1>1. n \in Node /\ n # NULL /\ m \in B \cup {NULL} /\ Flow(B, n) /\ FollowsLine(B, X, Y, R, n)
  BY NullIsNoNode DEF WellBuilt, Closed, InLine
<1>2. p \in [S -> B \cup {NULL}] /\ r[s] = Completed(n, t).node /\ \A q \in S : q # s => r[q] = p[q]
  BY DEF Crew
<1>3. CASE m = NULL /\ \A f \in ForksOf(B) : n \notin Inside(f)
  <2>1. r[s] = NULL
    BY <1>2, <1>3 DEF Completed
  <2>2. \A f \in ForksOf(B) : At(S, r, f) = At(S, p, f)
    BY <1>2, <1>3, <2>1, NobodyNowhere DEF At, Inside
  <2>3. r[s] \in R <=> n \in GoesOn(X, Y, R)
    BY <1>1, <1>3, <2>1, LineFacts DEF FollowsLine
  <2> QED
    BY <1>2, <2>2, <2>3, ForwardOnLine
<1>4. CASE m # NULL /\ Graph[m].wait = 0 /\ Same(B, n, m)
  <2>1. r[s] = m
    BY <1>2, <1>4 DEF Completed
  <2>2. \A f \in ForksOf(B) : At(S, r, f) = At(S, p, f)
    BY <1>2, <1>4, <2>1 DEF At, Same
  <2>3. r[s] \in R <=> n \in GoesOn(X, Y, R)
    BY <1>1, <1>4, <2>1 DEF FollowsLine
  <2> QED
    BY <1>2, <2>2, <2>3, ForwardOnLine
<1>5. CASE \E f \in ForksOf(B) : m = Join(f) /\ n \in Inside(f) /\ SameBut(B, n, m, f)
  <2>1. PICK f \in ForksOf(B) : m = Join(f) /\ n \in Inside(f) /\ SameBut(B, n, m, f)
    BY <1>5
  <2>2. PICK i \in Branches(f) : n \in Branch(f, i)
    BY <2>1 DEF Inside
  <2>3. n \in ToJoin(B, f, i) /\ SameBut(B, n, Join(f), f) /\ i \in At(S, p, f)
    BY <2>1, <2>2 DEF ToJoin, At
  <2>4. m # NULL /\ Graph[m].wait = Len(Live(f)) /\ Graph[m].wait # 0
    <3>1. Len(Live(f)) \in Nat /\ Len(Live(f)) > 0
      BY LiveFacts
    <3> QED
      BY <2>1, <3>1 DEF WellBuilt, ForkShape
  <2>5. Completed(n, t).node = IF t[Counter(f)] + 1 = Graph[m].wait THEN m ELSE NULL
    BY <2>1, <2>4 DEF Completed, Counter
  <2>6. r[s] = IF At(S, p, f) = {i} THEN Join(f) ELSE NULL
    BY <1>2, <2>1, <2>3, <2>5, LastArrival
  <2>7. CASE At(S, p, f) = {i}
    BY <1>2, <2>2, <2>3, <2>6, <2>7, JoinOnLine
  <2>8. CASE At(S, p, f) # {i}
    BY <1>2, <2>2, <2>3, <2>6, <2>8, ArriveOnLine
  <2> QED
    BY <2>7, <2>8
<1> QED
  BY <1>1, <1>3, <1>4, <1>5 DEF Flow

(* A fork hands the line to one of its branches, and its own branch keeps  *)
(* it as long as a thread is left in it.                                   *)
LEMMA ForkOnLine ==
  ASSUME NEW g, NEW B, WellBuilt(g, B), NEW S, NEW p, NEW t, Crew(B, S, p, t),
         NEW X, NEW Y, NEW R, InLine(B, X, Y, R),
         NEW s \in S, NEW f \in ForksOf(B), f \notin X \cup Y, NEW e, NEW r, Forked(S, s, f, e, p, r)
  PROVE  OnLine(B, X, Y, R, S, r) <=> OnLine(B, X, Y, R, S, p)
<1> DEFINE W(u, h, j) == Waits(B, X, Y, R, S, u, h, j)
           L == 1 .. Len(Live(f))
<1>1. L = DOMAIN Live(f) /\ f \in B /\ Graph[f].kind = "fork"
  BY LiveFacts DEF ForksOf, Forks
<1>2. f \in R <=> \E k \in L : Live(f)[k] \in R
  BY <1>1 DEF InLine, FollowsLine
<1>3. /\ p[s] = f /\ \A k \in L : e[k] \in S /\ r[e[k]] = Live(f)[k] /\ (e[k] = s \/ p[e[k]] = NULL)
      /\ \A q \in S : (\E k \in L : q = e[k]) \/ r[q] = p[q]
      /\ \E k \in L : s = e[k]
  <2>1. 1 \in L
    BY LiveFacts
  <2>2. \A k \in L : k # 1 => p[e[k]] = NULL
    BY DEF Forked
  <2> QED
    BY <2>1, <2>2 DEF Forked
<1>4. At(S, p, f) = {} /\ NULL \notin R
  BY <1>3, ForkIsFresh, LineFacts
<1>5. \A j \in Branches(f) : ~W(p, f, j) /\ ~W(r, f, j)
  <2> SUFFICES ASSUME NEW j \in Branches(f) PROVE ~W(p, f, j) /\ ~W(r, f, j)
    OBVIOUS
  <2>1. Carries(B, X, Y, R, f, j) => j \in At(S, r, f)
    BY <1>1, ForkAt DEF Carries
  <2> QED
    BY <1>4, <2>1 DEF Waits
<1>6. \A h \in ForksOf(B) : h # f => \A j \in Branches(h) : W(r, h, j) <=> W(p, h, j)
  <2> SUFFICES ASSUME NEW h \in ForksOf(B), h # f, NEW j \in Branches(h)
               PROVE  W(r, h, j) <=> W(p, h, j)
    OBVIOUS
  <2>1. At(S, r, h) = At(S, p, h)
    BY ForkAt
  <2> QED
    BY <2>1 DEF Waits
<1> HIDE DEF W, L
<1>7. \A h \in ForksOf(B) : \A j \in Branches(h) : W(r, h, j) <=> W(p, h, j)
  BY <1>5, <1>6
<1>8. (\E q \in S : r[q] \in R) <=> (\E q \in S : p[q] \in R)
  <2>1. ASSUME NEW q \in S, r[q] \in R PROVE \E u \in S : p[u] \in R
    BY <1>2, <1>3, <2>1
  <2>2. ASSUME NEW q \in S, p[q] \in R PROVE \E u \in S : r[u] \in R
    BY <1>2, <1>3, <1>4, <2>2
  <2> QED
    BY <2>1, <2>2
<1> QED
  BY <1>7, <1>8 DEF OnLine, W

(* A thread that enters one of the branches of a selection or a loop.      *)
LEMMA BranchOnLine ==
  ASSUME NEW g, NEW B, WellBuilt(g, B), NEW S, NEW p, NEW t, Crew(B, S, p, t),
         NEW X, NEW Y, NEW R, InLine(B, X, Y, R),
         NEW s \in S, p[s] \in B \ (X \cup Y), Graph[p[s]].kind \in {"select", "loop"},
         NEW i \in DOMAIN Graph[p[s]].all, NEW r, r = [p EXCEPT ![s] = Graph[p[s]].all[i]]
  PROVE  LineStep(B, X, Y, R, S, p, p[s], r)
<1> DEFINE n == p[s]
           m == Graph[n].all[i]
<1>1. Same(B, n, m) /\ (m \in R <=> n \in R)
  BY DEF WellBuilt, Flow, InLine, FollowsLine
<1>2. r[s] = m /\ \A q \in S : q # s => r[q] = p[q]
  BY DEF Crew
<1>3. \A f \in ForksOf(B) : At(S, r, f) = At(S, p, f)
  BY <1>1, <1>2 DEF At, Same
<1>4. r[s] \in R <=> n \in GoesOn(X, Y, R)
  BY <1>1, <1>2 DEF GoesOn
<1> QED
  BY <1>2, <1>3, <1>4, ForwardOnLine

-----------------------------------------------------------------------------
(* A line of the program that starts and ends at statements.               *)
Charted(X, Y, R) ==
  InLine(Body(root), X, Y, R) /\ \A n \in X \cup Y : Graph[n].kind = "stmt"
Held(X, Y, R, p) == OnLine(Body(root), X, Y, R, Slot, p)

(* Settling does not change who holds the line.                            *)
LEMMA SettledOnLine ==
  ASSUME ThreadInv, NEW s \in Slot, NEW X, NEW Y, NEW R, Charted(X, Y, R),
         NEW r \in Place, r.node \in Body(root) \cup {NULL},
         Crew(Body(root), Slot, [pc EXCEPT ![s] = r.node], r.tot)
  PROVE  Held(X, Y, R, [pc EXCEPT ![s] = Settled[r].node]) <=> Held(X, Y, R, [pc EXCEPT ![s] = r.node])
<1> DEFINE B == Body(root)
           H(q) == Held(X, Y, R, [pc EXCEPT ![s] = q.node])
           K == {q \in Place : /\ q.node \in B \cup {NULL}
                               /\ Crew(B, Slot, [pc EXCEPT ![s] = q.node], q.tot)
                               /\ H(q) <=> H(r)}
<1>1. root \in Roots /\ WellBuilt(root, B)
  BY RootShape DEF ThreadInv, SlotInv, SlotTypes
<1>2. pc \in [Slot -> B \cup {NULL}]
  BY DEF ThreadInv, Crew
<1>3. InLine(B, X, Y, R) /\ \A n \in X \cup Y : Graph[n].kind = "stmt"
  BY DEF Charted
<1>4. ASSUME NEW q \in K, ~Stops(q) PROVE After(q) \in K
  <2> DEFINE p == [pc EXCEPT ![s] = q.node]
  <2>1. q \in Place /\ q.node \in B \cup {NULL} /\ Crew(B, Slot, p, q.tot) /\ (H(q) <=> H(r))
    OBVIOUS
  <2>2. /\ After(q) \in Place /\ After(q).node \in B \cup {NULL}
        /\ Crew(B, Slot, [pc EXCEPT ![s] = After(q).node], After(q).tot)
    <3> HIDE DEF B, K, H
    <3> QED
      BY <1>1, <1>2, <1>4, <2>1, AfterKeepsCrew
  <2>3. p[s] = q.node /\ \A x : [p EXCEPT ![s] = x] = [pc EXCEPT ![s] = x]
    BY <1>2
  <2>4. q.node \in B /\ Graph[q.node].kind = "none"
    BY <1>4 DEF Stops, HasStmt
  <2>5. LineStep(B, X, Y, R, Slot, p, p[s], [p EXCEPT ![s] = Completed(p[s], q.tot).node])
    <3> HIDE DEF B, K, H, p
    <3> QED
      BY <1>1, <1>3, <2>1, <2>3, <2>4, CompletedOnLine
  <2>6. LineStep(B, X, Y, R, Slot, p, q.node, [pc EXCEPT ![s] = After(q).node])
    BY <2>3, <2>5 DEF After
  <2>7. q.node \notin X /\ q.node \notin Y
    BY <1>3, <2>4
  <2>8. q.node \in R => OnLine(B, X, Y, R, Slot, p)
    BY <2>3 DEF OnLine
  <2>9. H(After(q)) <=> H(q)
    BY <2>6, <2>7, <2>8 DEF LineStep, GoesOn, Held
  <2> HIDE DEF H
  <2> QED
    BY <2>1, <2>2, <2>9
<1>5. r \in K
  OBVIOUS
<1>6. Settled[r] \in K
  <2> HIDE DEF K
  <2>1. K \in SUBSET Place
    BY DEF K
  <2> QED
    BY <1>4, <1>5, <2>1, SettledKeeps
<1> QED
  BY <1>6

(* Every move of a thread takes the line along.                            *)
LEMMA GoOnLine ==
  ASSUME ThreadInv, NEW s \in Slot, pc[s] \in Node, Graph[pc[s]].kind \notin {"fork", "select"},
         Move(s, Settled[Completed(pc[s], tot)]), NEW X, NEW Y, NEW R, Charted(X, Y, R)
  PROVE  LineStep(Body(root), X, Y, R, Slot, pc, pc[s], pc')
<1> DEFINE B == Body(root)
           r == Completed(pc[s], tot)
<1>1. root \in Roots /\ WellBuilt(root, B) /\ InLine(B, X, Y, R)
  BY RootShape DEF ThreadInv, SlotInv, SlotTypes, Charted
<1>2. pc \in [Slot -> B \cup {NULL}] /\ Crew(B, Slot, pc, tot)
  BY DEF ThreadInv, Crew
<1>3. pc[s] # NULL /\ pc[s] \in B
  BY <1>2, NullIsNoNode
<1>4. /\ r.node \in B \cup {NULL} /\ Crew(B, Slot, [pc EXCEPT ![s] = r.node], r.tot)
      /\ LineStep(B, X, Y, R, Slot, pc, pc[s], [pc EXCEPT ![s] = r.node])
  <2> HIDE DEF B
  <2> QED
    BY <1>1, <1>2, <1>3, CompletedStep, CompletedOnLine
<1>5. r \in Place
  <2>1. r = [node |-> r.node, tot |-> r.tot]
    BY DEF Completed
  <2>2. r.tot \in [Counters -> Nat]
    BY <1>4 DEF Crew
  <2>3. r.node \in Node \cup {NULL}
    BY <1>1, <1>4 DEF WellBuilt, Closed
  <2> QED
    BY <2>1, <2>2, <2>3 DEF Place
<1>6. pc' = [pc EXCEPT ![s] = Settled[r].node]
  BY DEF Move
<1> HIDE DEF r
<1>7. Held(X, Y, R, pc') <=> Held(X, Y, R, [pc EXCEPT ![s] = r.node])
  BY <1>4, <1>5, <1>6, SettledOnLine
<1> QED
  BY <1>4, <1>7 DEF LineStep, Held

LEMMA BranchLine ==
  ASSUME ThreadInv, NEW s \in Slot, pc[s] \in Node, Graph[pc[s]].kind \in {"select", "loop"},
         NEW i \in DOMAIN Graph[pc[s]].all,
         Move(s, Settled[[node |-> Graph[pc[s]].all[i], tot |-> tot]]),
         NEW X, NEW Y, NEW R, Charted(X, Y, R)
  PROVE  LineStep(Body(root), X, Y, R, Slot, pc, pc[s], pc')
<1> DEFINE B == Body(root)
           m == Graph[pc[s]].all[i]
           r == [node |-> m, tot |-> tot]
<1>1. root \in Roots /\ WellBuilt(root, B) /\ InLine(B, X, Y, R)
  BY RootShape DEF ThreadInv, SlotInv, SlotTypes, Charted
<1>2. pc \in [Slot -> B \cup {NULL}] /\ Crew(B, Slot, pc, tot) /\ tot \in [Counters -> Nat]
  BY DEF ThreadInv, Crew
<1>3. pc[s] # NULL /\ pc[s] \in B \ (X \cup Y)
  BY <1>2, NullIsNoNode DEF Charted
<1>4. m \in B /\ m \in Node /\ Same(B, pc[s], m)
  BY <1>1, <1>3 DEF WellBuilt, Closed, Flow
<1>5. /\ Crew(B, Slot, [pc EXCEPT ![s] = m], tot)
      /\ LineStep(B, X, Y, R, Slot, pc, pc[s], [pc EXCEPT ![s] = m])
  <2>1. Crew(B, Slot, [pc EXCEPT ![s] = m], tot)
    <3> HIDE DEF B, m
    <3> QED
      BY <1>1, <1>2, <1>3, <1>4, SameStep
  <2>2. LineStep(B, X, Y, R, Slot, pc, pc[s], [pc EXCEPT ![s] = m])
    <3> HIDE DEF B
    <3> QED
      BY <1>1, <1>2, <1>3, BranchOnLine
  <2> QED
    BY <2>1, <2>2
<1>6. r \in Place /\ r.node = m /\ r.tot = tot
  BY <1>2, <1>4 DEF Place
<1>7. pc' = [pc EXCEPT ![s] = Settled[r].node]
  BY DEF Move
<1> HIDE DEF r, m
<1>8. Held(X, Y, R, pc') <=> Held(X, Y, R, [pc EXCEPT ![s] = m])
  BY <1>4, <1>5, <1>6, <1>7, SettledOnLine
<1> QED
  BY <1>5, <1>8 DEF LineStep, Held

(* A statement before the line starts it, one at its end ends it, and      *)
(* nothing else changes whether it is held.                                *)
Passes(X, Y, R, n, p, r) ==
  /\ n \in X => ~Held(X, Y, R, p) /\ Held(X, Y, R, r)
  /\ n \in Y => Held(X, Y, R, p) /\ ~Held(X, Y, R, r)
  /\ n \notin X \cup Y => (Held(X, Y, R, r) <=> Held(X, Y, R, p))

LEMMA LinePasses ==
  ASSUME ThreadInv, NEW s \in Slot, pc[s] \in Node, NEW X, NEW Y, NEW R, Charted(X, Y, R),
         LineStep(Body(root), X, Y, R, Slot, pc, pc[s], pc')
  PROVE  Passes(X, Y, R, pc[s], pc, pc')
<1> DEFINE B == Body(root)
           n == pc[s]
<1>1. WellBuilt(root, B) /\ Crew(B, Slot, pc, tot) /\ InLine(B, X, Y, R)
  BY RootShape DEF ThreadInv, SlotInv, SlotTypes, Charted
<1>2. X \cap Y = {} /\ X \cap R = {} /\ Y \subseteq R
  BY <1>1, LineFacts
<1>3. Held(X, Y, R, pc') <=> n \in GoesOn(X, Y, R) \/ (Held(X, Y, R, pc) /\ n \notin Y)
  BY DEF LineStep, Held
<1>4. n \in R => Held(X, Y, R, pc)
  BY DEF Held, OnLine
<1>5. n \in X => ~Held(X, Y, R, pc)
  <2> SUFFICES ASSUME n \in X PROVE ~OnLine(B, X, Y, R, Slot, pc)
    BY DEF Held
  <2> HIDE DEF B
  <2>1. n \in R \cup X
    OBVIOUS
  <2>2. /\ \A q \in Slot : q # s => pc[q] \notin R
        /\ \A f \in ForksOf(B) : \A i \in Branches(f) : ~Waits(B, X, Y, R, Slot, pc, f, i)
    BY <1>1, <2>1, AloneOnLine
  <2> QED
    BY <1>2, <2>2 DEF OnLine
<1> QED
  BY <1>2, <1>3, <1>4, <1>5 DEF Passes, GoesOn

(* A step completes one statement, or none and leaves the line alone.      *)
LEMMA StepOnLine ==
  ASSUME ThreadInv, [Next]_vars, NEW X, NEW Y, NEW R, Charted(X, Y, R)
  PROVE  \/ runs' = runs /\ (Held(X, Y, R, pc') <=> Held(X, Y, R, pc))
         \/ \E n \in Body(root) : /\ Graph[n].kind = "stmt"
                                  /\ runs' = [runs EXCEPT ![Graph[n].name] = @ + 1]
                                  /\ Passes(X, Y, R, n, pc, pc')
<1> USE DEF Running
<1> DEFINE Still == runs' = runs /\ (Held(X, Y, R, pc') <=> Held(X, Y, R, pc))
<1>1. pc \in [Slot -> Body(root) \cup {NULL}]
  BY DEF ThreadInv, Crew
<1>2. \A n \in X \cup Y : Graph[n].kind = "stmt"
  BY DEF Charted
<1>3. ASSUME NEW s \in Slot, pc[s] \in Node, Graph[pc[s]].kind # "stmt", runs' = runs,
             Passes(X, Y, R, pc[s], pc, pc')
      PROVE  Still
  BY <1>2, <1>3 DEF Passes
<1>4. ASSUME NEW s \in Slot, Execute(s)
      PROVE  Still \/ \E n \in Body(root) : /\ Graph[n].kind = "stmt"
                                            /\ runs' = [runs EXCEPT ![Graph[n].name] = @ + 1]
                                            /\ Passes(X, Y, R, n, pc, pc')
  <2>1. pc[s] \in Node /\ pc[s] \in Body(root) /\ Graph[pc[s]].kind \notin {"fork", "select"}
    BY <1>1, <1>4, NullIsNoNode DEF Execute
  <2>2. Passes(X, Y, R, pc[s], pc, pc')
    BY <1>4, <2>1, GoOnLine, LinePasses DEF Execute
  <2>3. CASE Graph[pc[s]].kind = "stmt"
    <3>1. runs' = [runs EXCEPT ![Graph[pc[s]].name] = @ + 1]
      BY <1>4, <2>3 DEF Execute
    <3> QED
      BY <2>1, <2>2, <2>3, <3>1
  <2>4. CASE Graph[pc[s]].kind # "stmt"
    <3>1. runs' = runs
      BY <1>4, <2>4 DEF Execute
    <3> QED
      BY <1>3, <2>1, <2>2, <2>4, <3>1
  <2> QED
    BY <2>3, <2>4
<1>5. ASSUME NEW s \in Slot, Fork(s) PROVE Still
  <2>1. /\ WellBuilt(root, Body(root)) /\ Crew(Body(root), Slot, pc, tot)
        /\ InLine(Body(root), X, Y, R)
    BY RootShape DEF ThreadInv, SlotInv, SlotTypes, Charted
  <2>2. pc[s] \in ForksOf(Body(root)) /\ \E e : Forked(Slot, s, pc[s], e, pc, pc')
    BY <1>5, ForkTakes
  <2>3. pc[s] \notin X \cup Y
    BY <1>2, <2>2 DEF ForksOf, Forks
  <2>4. Held(X, Y, R, pc') <=> Held(X, Y, R, pc)
    BY <2>1, <2>2, <2>3, ForkOnLine DEF Held
  <2>5. runs' = runs
    BY <1>5 DEF Fork
  <2> QED
    BY <2>4, <2>5
<1>6. ASSUME NEW s \in Slot, Choose(s) PROVE Still
  <2>1. pc[s] \in Node /\ Graph[pc[s]].kind = "select" /\ runs' = runs
    BY <1>6 DEF Choose
  <2>2. Passes(X, Y, R, pc[s], pc, pc')
    BY <1>6, <2>1, BranchLine, LinePasses DEF Choose
  <2> QED
    BY <1>3, <2>1, <2>2
<1>7. ASSUME NEW s \in Slot, Turn(s) PROVE Still
  <2>1. pc[s] \in Node /\ Graph[pc[s]].kind = "loop" /\ runs' = runs
    BY <1>7 DEF Turn
  <2>2. Passes(X, Y, R, pc[s], pc, pc')
    BY <1>7, <2>1, BranchLine, LinePasses DEF Turn
  <2> QED
    BY <1>3, <2>1, <2>2
<1>8. ASSUME NEW s \in Slot, Exit(s) PROVE Still
  <2>1. pc[s] \in Node /\ Graph[pc[s]].kind = "loop" /\ runs' = runs
    BY <1>8 DEF Exit
  <2>2. Passes(X, Y, R, pc[s], pc, pc')
    BY <1>8, <2>1, GoOnLine, LinePasses DEF Exit
  <2> QED
    BY <1>3, <2>1, <2>2
<1>9. CASE UNCHANGED vars
  BY <1>9 DEF vars
<1> HIDE DEF Still
<1> QED
  BY <1>4, <1>5, <1>6, <1>7, <1>8, <1>9 DEF Next, Still

(* The history of a program along its lines: x is one ahead of y while a   *)
(* thread, or a join, is between them; a statement that every execution    *)
(* completes has not been completed while the line to it is held.          *)
Between(x, y) == Held(Named(Body(root), x), Named(Body(root), y), OrderLine(Body(root), x, y), pc)
Due(x) == Held({}, Named(Body(root), x), MustLine(Body(root), root, x), pc)
OrderInv == \A d \in Order[root] : runs[d[1]] = runs[d[2]] + (IF Between(d[1], d[2]) THEN 1 ELSE 0)
MustInv == \A x \in Must[root] : runs[x] = IF Due(x) THEN 0 ELSE 1
LineInv == ThreadInv /\ OrderInv /\ MustInv

LEMMA OrderCharted ==
  ASSUME root \in Roots, NEW d \in Order[root]
  PROVE  /\ d[1] \in Stmts /\ d[2] \in Stmts
         /\ Charted(Named(Body(root), d[1]), Named(Body(root), d[2]), OrderLine(Body(root), d[1], d[2]))
         /\ root \notin OrderLine(Body(root), d[1], d[2])
<1>1. d \in Stmts \X Stmts /\ OneAfterOther(root, Body(root), d[1], d[2])
  BY OrderAssumption
<1> QED
  BY <1>1 DEF OneAfterOther, Charted, Named

LEMMA MustCharted ==
  ASSUME root \in Roots, NEW x \in Must[root]
  PROVE  /\ x \in Stmts
         /\ Charted({}, Named(Body(root), x), MustLine(Body(root), root, x))
         /\ root \in MustLine(Body(root), root, x)
<1>1. x \in Stmts /\ OnEveryWay(root, Body(root), x)
  BY MustAssumption
<1> QED
  BY <1>1 DEF OnEveryWay, Charted, Named

(* At the start only the first node is occupied.                           *)
LEMMA HeldAtStart ==
  ASSUME Init, NEW X, NEW Y, NEW R, Charted(X, Y, R)
  PROVE  Held(X, Y, R, pc) <=> root \in R
<1> DEFINE B == Body(root)
<1>1. WellBuilt(root, B) /\ InLine(B, X, Y, R) /\ Npc[root] \in Nat \ {0}
  BY RootShape DEF Init, Charted, WellBuilt
<1>2. pc = [q \in Slot |-> IF q = 0 THEN root ELSE NULL] /\ 0 \in Slot
  BY <1>1 DEF Init, Slot
<1> HIDE DEF B
<1>3. NULL \notin R
  BY <1>1, LineFacts
<1>4. \A f \in ForksOf(B) : At(Slot, pc, f) = {}
  <2> SUFFICES ASSUME NEW f \in ForksOf(B), NEW i \in Branches(f), NEW q \in Slot,
                      pc[q] \in Branch(f, i)
               PROVE  FALSE
    BY DEF At
  <2>1. pc[q] \in Inside(f) /\ pc[q] \in {root, NULL}
    BY <1>2 DEF Inside
  <2> QED
    BY <1>1, <2>1, NobodyNowhere DEF WellBuilt, ForksOf
<1>5. (\E q \in Slot : pc[q] \in R) <=> root \in R
  BY <1>2, <1>3
<1> QED
  BY <1>4, <1>5 DEF Held, OnLine, Waits, B

LEMMA LineInit == Init => LineInv
<1> SUFFICES ASSUME Init PROVE OrderInv /\ MustInv
  BY ThreadInit DEF LineInv
<1>1. root \in Roots /\ \A x \in Stmts : runs[x] = 0
  BY DEF Init
<1>2. ASSUME NEW d \in Order[root] PROVE runs[d[1]] = runs[d[2]] + (IF Between(d[1], d[2]) THEN 1 ELSE 0)
  <2>1. d[1] \in Stmts /\ d[2] \in Stmts /\ ~Between(d[1], d[2])
    BY <1>1, OrderCharted, HeldAtStart DEF Between
  <2> QED
    BY <1>1, <2>1
<1>3. ASSUME NEW x \in Must[root] PROVE runs[x] = IF Due(x) THEN 0 ELSE 1
  <2>1. x \in Stmts /\ Due(x)
    BY <1>1, MustCharted, HeldAtStart DEF Due
  <2> QED
    BY <1>1, <2>1
<1> QED
  BY <1>2, <1>3 DEF OrderInv, MustInv

LEMMA LineKept == LineInv /\ [Next]_vars => LineInv'
<1> SUFFICES ASSUME LineInv, [Next]_vars PROVE LineInv'
  OBVIOUS
<1>1. ThreadInv /\ ThreadInv' /\ root \in Roots /\ runs \in [Stmts -> Nat]
  BY ThreadStep DEF LineInv, ThreadInv, SlotInv, SlotTypes
<1>2. root' = root /\ Slot' = Slot
  BY DEF Next, vars, Execute, Fork, Choose, Turn, Exit, Slot
<1>3. ASSUME NEW X, NEW Y, NEW R
      PROVE  Held(X, Y, R, pc)' = Held(X, Y, R, pc')
  BY <1>2 DEF Held
<1>4. ASSUME NEW d \in Order[root]
      PROVE  runs'[d[1]] = runs'[d[2]] + (IF Between(d[1], d[2])' THEN 1 ELSE 0)
  <2> DEFINE B == Body(root)
             x == d[1]
             y == d[2]
             X == Named(B, x)
             Y == Named(B, y)
             R == OrderLine(B, x, y)
  <2>1. x \in Stmts /\ y \in Stmts /\ Charted(X, Y, R) /\ runs[x] \in Nat /\ runs[y] \in Nat
    BY <1>1, OrderCharted
  <2>2. runs[x] = runs[y] + (IF Held(X, Y, R, pc) THEN 1 ELSE 0)
    BY DEF LineInv, OrderInv, Between
  <2>3. Between(x, y)' <=> Held(X, Y, R, pc')
    BY <1>2 DEF Between, Held
  <2>4. CASE runs' = runs /\ (Held(X, Y, R, pc') <=> Held(X, Y, R, pc))
    BY <2>2, <2>3, <2>4
  <2>5. ASSUME NEW n \in B, Graph[n].kind = "stmt", runs' = [runs EXCEPT ![Graph[n].name] = @ + 1],
               Passes(X, Y, R, n, pc, pc')
        PROVE  runs'[x] = runs'[y] + (IF Held(X, Y, R, pc') THEN 1 ELSE 0)
    <3>1. (n \in X <=> Graph[n].name = x) /\ (n \in Y <=> Graph[n].name = y)
      BY <2>5 DEF Named
    <3> HIDE DEF X, Y, R, x, y, B
    <3>2. CASE n \in X
      <4>1. n \notin Y
        BY <2>5, <3>2 DEF Passes
      <4>2. runs'[x] = runs[x] + 1 /\ runs'[y] = runs[y]
        BY <1>1, <2>1, <2>5, <3>1, <3>2, <4>1
      <4>3. ~Held(X, Y, R, pc) /\ Held(X, Y, R, pc')
        BY <2>5, <3>2 DEF Passes
      <4> QED
        BY <2>1, <2>2, <4>2, <4>3
    <3>3. CASE n \in Y
      <4>1. n \notin X
        BY <2>5, <3>3 DEF Passes
      <4>2. runs'[y] = runs[y] + 1 /\ runs'[x] = runs[x]
        BY <1>1, <2>1, <2>5, <3>1, <3>3, <4>1
      <4>3. Held(X, Y, R, pc) /\ ~Held(X, Y, R, pc')
        BY <2>5, <3>3 DEF Passes
      <4> QED
        BY <2>1, <2>2, <4>2, <4>3
    <3>4. CASE n \notin X \cup Y
      <4>1. runs'[y] = runs[y] /\ runs'[x] = runs[x]
        BY <1>1, <2>1, <2>5, <3>1, <3>4
      <4>2. Held(X, Y, R, pc') <=> Held(X, Y, R, pc)
        BY <2>5, <3>4 DEF Passes
      <4> QED
        BY <2>2, <4>1, <4>2
    <3> QED
      BY <3>2, <3>3, <3>4
  <2> HIDE DEF X, Y, R, x, y
  <2>6. runs'[x] = runs'[y] + (IF Held(X, Y, R, pc') THEN 1 ELSE 0)
    BY <1>1, <2>1, <2>2, <2>3, <2>4, <2>5, StepOnLine
  <2> QED
    BY <2>3, <2>6 DEF x, y
<1>5. ASSUME NEW x \in Must[root]
      PROVE  runs'[x] = IF Due(x)' THEN 0 ELSE 1
  <2> DEFINE B == Body(root)
             Y == Named(B, x)
             R == MustLine(B, root, x)
  <2>1. x \in Stmts /\ Charted({}, Y, R) /\ runs[x] \in Nat
    BY <1>1, MustCharted
  <2>2. runs[x] = IF Held({}, Y, R, pc) THEN 0 ELSE 1
    BY DEF LineInv, MustInv, Due
  <2>3. Due(x)' <=> Held({}, Y, R, pc')
    BY <1>2 DEF Due, Held
  <2>4. CASE runs' = runs /\ (Held({}, Y, R, pc') <=> Held({}, Y, R, pc))
    BY <2>2, <2>3, <2>4
  <2>5. ASSUME NEW n \in B, Graph[n].kind = "stmt", runs' = [runs EXCEPT ![Graph[n].name] = @ + 1],
               Passes({}, Y, R, n, pc, pc')
        PROVE  runs'[x] = IF Held({}, Y, R, pc') THEN 0 ELSE 1
    <3>1. n \in Y <=> Graph[n].name = x
      BY <2>5 DEF Named
    <3> HIDE DEF Y, R, B
    <3>2. CASE n \in Y
      <4>1. runs'[x] = runs[x] + 1
        BY <1>1, <2>1, <2>5, <3>1, <3>2
      <4>2. Held({}, Y, R, pc) /\ ~Held({}, Y, R, pc')
        BY <2>5, <3>2 DEF Passes
      <4> QED
        BY <2>2, <4>1, <4>2
    <3>3. CASE n \notin Y
      <4>1. runs'[x] = runs[x]
        BY <1>1, <2>1, <2>5, <3>1, <3>3
      <4>2. Held({}, Y, R, pc') <=> Held({}, Y, R, pc)
        BY <2>5, <3>3 DEF Passes
      <4> QED
        BY <2>2, <4>1, <4>2
    <3> QED
      BY <3>2, <3>3
  <2> HIDE DEF Y, R
  <2>6. runs'[x] = IF Held({}, Y, R, pc') THEN 0 ELSE 1
    BY <1>1, <2>1, <2>2, <2>3, <2>4, <2>5, StepOnLine
  <2> QED
    BY <2>3, <2>6
<1>6. OrderInv' /\ MustInv'
  BY <1>2, <1>4, <1>5 DEF OrderInv, MustInv
<1> QED
  BY <1>1, <1>6 DEF LineInv

THEOREM LinesInvariant == Spec => []LineInv
BY LineInit, LineKept, PTL DEF Spec

(* When the text of a program puts x before y, every execution of y        *)
(* follows one of x, whatever forks and joins lie between: a join passes   *)
(* the line on only once the branch that brought it has arrived.           *)
THEOREM InOrder == Spec => []Ordered
<1>1. LineInv => Ordered
  <2> SUFFICES ASSUME LineInv, NEW d \in Order[root]
               PROVE  runs[d[1]] \in {runs[d[2]], runs[d[2]] + 1}
    BY DEF Ordered
  <2>1. root \in Roots /\ runs \in [Stmts -> Nat]
    BY DEF LineInv, ThreadInv, SlotInv, SlotTypes
  <2>2. runs[d[2]] \in Nat
    BY <2>1, OrderCharted
  <2>3. runs[d[1]] = runs[d[2]] + (IF Between(d[1], d[2]) THEN 1 ELSE 0)
    BY DEF LineInv, OrderInv
  <2> QED
    BY <2>2, <2>3
<1> QED
  BY <1>1, LinesInvariant, PTL

(* When the last thread has ended the program is over: nobody waits at a   *)
(* join, all slots have been given back, and what every execution has to   *)
(* complete has been completed, once.                                      *)
THEOREM NothingIsStranded == Spec => []NothingStranded
<1>1. LineInv => ((\A s \in Slot : pc[s] = NULL) => \A x \in Must[root] : runs[x] = 1)
  <2> SUFFICES ASSUME LineInv, \A s \in Slot : pc[s] = NULL, NEW x \in Must[root] PROVE runs[x] = 1
    OBVIOUS
  <2> DEFINE B == Body(root)
             Y == Named(B, x)
             R == MustLine(B, root, x)
  <2>1. root \in Roots /\ WellBuilt(root, B)
    BY RootShape DEF LineInv, ThreadInv, SlotInv, SlotTypes
  <2>2. InLine(B, {}, Y, R)
    BY <2>1, MustCharted DEF Charted
  <2> HIDE DEF B, Y, R
  <2>3. NULL \notin R /\ \A f \in ForksOf(B) : At(Slot, pc, f) = {}
    BY <2>1, <2>2, LineFacts, NobodyNowhere DEF At, Inside
  <2>4. ~OnLine(B, {}, Y, R, Slot, pc)
    BY <2>3 DEF OnLine, Waits
  <2> QED
    BY <2>4 DEF LineInv, MustInv, Due, Held, B, Y, R
<1>2. LineInv /\ ((\A s \in Slot : pc[s] = NULL) => pcused = 0 /\ \A c \in Counters : tot[c] = 0)
        => NothingStranded
  BY <1>1 DEF NothingStranded
<1> QED
  BY <1>2, LinesInvariant, NobodyWaits, PTL
=============================================================================
