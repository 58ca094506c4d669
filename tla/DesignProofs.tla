---------------------------- MODULE DesignProofs ----------------------------
(***************************************************************************)
(* The checks of ActTimingConstraint and ActExclMonitor are exact for      *)
(* every design that elaboration has registered correctly, and for every   *)
(* sequence of writes: they report what violates the specifications, when  *)
(* it does, and nothing else.  That elaboration is right is left to TLC.   *)
(***************************************************************************)
EXTENDS Design, WellFoundedInduction, SequenceTheorems, TLAPS

LEMMA LeastNatural ==
  ASSUME NEW D \in SUBSET Nat, D # {} PROVE \E n \in D : \A m \in D : ~(m < n)
<1>1. \E n \in D : \A m \in D : ~(<<m, n>> \in OpToRel(<, Nat))
  BY NatLessThanWellFounded, WFMin
<1>2. \A n, m \in D : m < n => <<m, n>> \in OpToRel(<, Nat)
  BY DEF OpToRel
<1> QED
  BY <1>1, <1>2

-----------------------------------------------------------------------------
(* Violations is defined by recursion over the writes.  What it says of a  *)
(* write depends on the earlier ones only.                                 *)
IsTrace(x, N) ==
  /\ N \in Nat
  /\ x.t \in [1 .. N -> Nat] /\ x.margin \in Nat
  /\ x.root \subseteq x.on /\ x.on \subseteq 1 .. N
  /\ x.a \subseteq 1 .. N /\ x.b \subseteq 1 .. N

Breaks(x, k, i) ==
  LET as == {m \in x.a : k < m /\ m < i}
      bs == {m \in x.b : k < m /\ m < i}
      afirst == \E l \in as : \A m \in bs : l < m
  IN \/ i \in x.a /\ bs # {} /\ (x.margin = 0 \/ ~afirst)
     \/ /\ i \in x.b /\ x.margin # 0 /\ afirst
        /\ \E l \in as : (\A m \in as : m <= l) /\ x.t[l] + x.margin > x.t[i]
ViolatedAt(x, v, i) ==
  \E k \in x.root :
    /\ k < i
    /\ \A m \in k + 1 .. i : m \notin x.on
    /\ \A m \in k + 1 .. i - 1 : ~v[m]
    /\ Breaks(x, k, i)

LEMMA EarlierOnly ==
  ASSUME NEW N, NEW x, IsTrace(x, N), NEW v, NEW w, NEW i \in Nat,
         \A m \in 1 .. i - 1 : v[m] = w[m]
  PROVE  ViolatedAt(x, v, i) = ViolatedAt(x, w, i)
<1>1. \A k \in x.root : k \in Nat /\ k >= 1
  BY DEF IsTrace
<1>2. \A k \in x.root : (\A m \in k + 1 .. i - 1 : ~v[m]) <=> (\A m \in k + 1 .. i - 1 : ~w[m])
  BY <1>1
<1> QED
  BY <1>2 DEF ViolatedAt

LEMMA ViolationsAre ==
  ASSUME NEW N, NEW x, IsTrace(x, N)
  PROVE  Violations(x) = [i \in 1 .. N |-> ViolatedAt(x, Violations(x), i)]
<1> DEFINE Fits(n, v) == v = [i \in 1 .. n |-> ViolatedAt(x, v, i)]
           D == {n \in Nat : ~\E v : Fits(n, v)}
<1>1. N \in Nat /\ DOMAIN x.t = 1 .. N
  BY DEF IsTrace
<1>2. D = {}
  <2> SUFFICES ASSUME D # {} PROVE FALSE
    OBVIOUS
  <2>1. PICK n \in D : \A m \in D : ~(m < n)
    <3>1. D \in SUBSET Nat
      OBVIOUS
    <3> HIDE DEF D
    <3> QED
      BY <3>1, LeastNatural
  <2>2. n # 0
    <3>1. Fits(0, <<>>)
      BY DEF ViolatedAt
    <3> QED
      BY <2>1, <3>1
  <2>3. n \in Nat /\ n - 1 \in Nat /\ n - 1 < n
    BY <2>1, <2>2
  <2>4. PICK v : Fits(n - 1, v)
    BY <2>1, <2>3
  <2> DEFINE w == [i \in 1 .. n |-> IF i < n THEN v[i] ELSE ViolatedAt(x, v, n)]
  <2>5. \A i \in 1 .. n - 1 : v[i] = ViolatedAt(x, v, i)
    BY <2>4
  <2>6. \A i \in 1 .. n : w[i] = ViolatedAt(x, v, i)
    <3> HIDE DEF Fits
    <3> QED
      BY <2>3, <2>5
  <2>7. \A i \in 1 .. n - 1 : w[i] = v[i]
    BY <2>3
  <2>8. w = [i \in 1 .. n |-> w[i]]
    OBVIOUS
  <2> HIDE DEF w, Fits
  <2>9. \A i \in 1 .. n : ViolatedAt(x, v, i) = ViolatedAt(x, w, i)
    <3> SUFFICES ASSUME NEW i \in 1 .. n PROVE ViolatedAt(x, v, i) = ViolatedAt(x, w, i)
      OBVIOUS
    <3>1. \A m \in 1 .. i - 1 : v[m] = w[m]
      BY <2>3, <2>7
    <3> QED
      BY <2>3, <3>1, EarlierOnly
  <2>10. w = [i \in 1 .. n |-> ViolatedAt(x, w, i)]
    BY <2>6, <2>8, <2>9
  <2> QED
    BY <2>1, <2>10 DEF Fits
<1>3. \E v : v = [i \in 1 .. N |-> ViolatedAt(x, v, i)]
  BY <1>1, <1>2
<1> HIDE DEF Fits, D
<1>4. Violations(x) = CHOOSE v : v = [i \in DOMAIN x.t |-> ViolatedAt(x, v, i)]
  BY DEF Violations, ViolatedAt, Breaks
<1>5. \E v : v = [i \in DOMAIN x.t |-> ViolatedAt(x, v, i)]
  BY <1>1, <1>3
<1>6. Violations(x) = [i \in DOMAIN x.t |-> ViolatedAt(x, Violations(x), i)]
  BY <1>4, <1>5
<1> QED
  BY <1>1, <1>6

(* A trace and what it becomes with one more write.                        *)
Extends(x, y, N) ==
  /\ IsTrace(x, N) /\ IsTrace(y, N + 1)
  /\ y.margin = x.margin
  /\ \A m \in 1 .. N : /\ m \in y.on <=> m \in x.on
                       /\ m \in y.root <=> m \in x.root
                       /\ m \in y.a <=> m \in x.a
                       /\ m \in y.b <=> m \in x.b
                       /\ y.t[m] = x.t[m]

LEMMA SameBreaks ==
  ASSUME NEW N, NEW x, NEW y, Extends(x, y, N), NEW k \in 1 .. N, NEW i \in 1 .. N
  PROVE  Breaks(y, k, i) = Breaks(x, k, i)
<1> DEFINE as(z) == {m \in z.a : k < m /\ m < i}
           bs(z) == {m \in z.b : k < m /\ m < i}
<1>1. as(y) = as(x) /\ bs(y) = bs(x) /\ as(x) \subseteq 1 .. N
  BY DEF Extends, IsTrace
<1>2. /\ i \in y.a <=> i \in x.a
      /\ i \in y.b <=> i \in x.b
      /\ y.margin = x.margin /\ y.t[i] = x.t[i]
      /\ \A l \in as(x) : y.t[l] = x.t[l]
  BY <1>1 DEF Extends
<1> QED
  BY <1>1, <1>2 DEF Breaks

LEMMA SameViolations ==
  ASSUME NEW N, NEW x, NEW y, Extends(x, y, N)
  PROVE  \A i \in 1 .. N : Violations(y)[i] = Violations(x)[i]
<1> DEFINE v == Violations(x)
           w == Violations(y)
           D == {i \in 1 .. N : w[i] # v[i]}
<1>1. N \in Nat /\ \A i \in 1 .. N : v[i] = ViolatedAt(x, v, i) /\ w[i] = ViolatedAt(y, w, i)
  <2>1. N \in Nat /\ IsTrace(x, N) /\ IsTrace(y, N + 1)
    BY DEF Extends, IsTrace
  <2>2. /\ v = [i \in 1 .. N |-> ViolatedAt(x, v, i)]
        /\ w = [i \in 1 .. N + 1 |-> ViolatedAt(y, w, i)]
    BY <2>1, ViolationsAre
  <2> HIDE DEF v, w
  <2>3. \A i \in 1 .. N : i \in 1 .. N + 1
    BY <2>1
  <2> QED
    BY <2>1, <2>2, <2>3
<1> HIDE DEF v, w
<1>2. \A i \in 1 .. N : ViolatedAt(y, w, i) = ViolatedAt(x, w, i)
  <2> SUFFICES ASSUME NEW i \in 1 .. N
               PROVE  ViolatedAt(y, w, i) = ViolatedAt(x, w, i)
    OBVIOUS
  <2>1. \A k \in Nat : k < i => (k \in y.root <=> k \in x.root)
    <3>1. /\ x.root \subseteq 1 .. N /\ y.root \subseteq 1 .. N + 1
          /\ \A m \in 1 .. N : m \in y.root <=> m \in x.root
      BY DEF Extends, IsTrace
    <3> QED
      BY <1>1, <3>1
  <2>2. \A k \in x.root \cup y.root : k \in Nat /\ k >= 1
    BY <1>1 DEF Extends, IsTrace
  <2>3. \A k \in Nat : (\A m \in k + 1 .. i : m \notin y.on) <=> (\A m \in k + 1 .. i : m \notin x.on)
    BY DEF Extends, IsTrace
  <2>4. \A k \in Nat : k >= 1 /\ k < i => Breaks(y, k, i) = Breaks(x, k, i)
    <3> SUFFICES ASSUME NEW k \in Nat, k >= 1, k < i PROVE Breaks(y, k, i) = Breaks(x, k, i)
      OBVIOUS
    <3>1. k \in 1 .. N
      BY <1>1
    <3> QED
      BY <3>1, SameBreaks
  <2> QED
    BY <2>1, <2>2, <2>3, <2>4 DEF ViolatedAt
<1>3. D = {}
  <2> SUFFICES ASSUME D # {} PROVE FALSE
    OBVIOUS
  <2>1. D \in SUBSET Nat
    BY <1>1
  <2> HIDE DEF D
  <2>2. PICK i \in D : \A m \in D : ~(m < i)
    BY <2>1, LeastNatural
  <2> USE DEF D
  <2>3. \A m \in 1 .. i - 1 : w[m] = v[m]
    BY <1>1, <2>2
  <2>4. i \in Nat /\ IsTrace(x, N)
    BY <1>1 DEF Extends
  <2> HIDE DEF D
  <2>5. ViolatedAt(x, w, i) = ViolatedAt(x, v, i)
    BY <2>3, <2>4, EarlierOnly
  <2> QED
    BY <1>1, <1>2, <2>5 DEF D
<1> QED
  BY <1>3 DEF v, w

-----------------------------------------------------------------------------
(* The state of a constraint summarises the trace: it is active when the   *)
(* root has fired at k, no write of the root has followed and nothing has  *)
(* been violated since, and says which of a and b have come after that.    *)
Opens(x, N, k) ==
  k \in x.root /\ \A m \in k + 1 .. N : m \notin x.on /\ ~Violations(x)[m]
After(S, k) == {m \in S : k < m}
FirstA(x, k) == \E l \in After(x.a, k) : \A m \in After(x.b, k) : l < m
LastA(x, k, l) == l \in After(x.a, k) /\ \A m \in After(x.a, k) : m <= l

Summary(x, k, st) ==
  /\ st.is = START => After(x.b, k) = {} /\ (x.margin # 0 => After(x.a, k) = {})
  /\ st.is = PENDING => After(x.b, k) # {} /\ (x.margin = 0 \/ ~FirstA(x, k))
  /\ st.is = PENDINGDELAY => /\ x.margin # 0 /\ FirstA(x, k)
                             /\ \E l \in x.a : LastA(x, k, l) /\ st.ts = x.t[l]
Tracks(x, N, st) ==
  /\ st \in [is : {INACTIVE, START, PENDING, PENDINGDELAY}, ts : Nat]
  /\ st.is = INACTIVE => \A k \in x.root : ~Opens(x, N, k)
  /\ st.is # INACTIVE => \E k \in x.root : Opens(x, N, k) /\ Summary(x, k, st)

LEMMA OpenedOnce ==
  ASSUME NEW N, NEW x, IsTrace(x, N), NEW k, NEW l, Opens(x, N, k), Opens(x, N, l)
  PROVE  k = l
BY DEF Opens, IsTrace

(* What the next write breaks.                                             *)
BreaksNow(x, y, k, i) ==
  \/ i \in y.a /\ After(x.b, k) # {} /\ (x.margin = 0 \/ ~FirstA(x, k))
  \/ /\ i \in y.b /\ x.margin # 0 /\ FirstA(x, k)
     /\ \E l \in x.a : LastA(x, k, l) /\ x.t[l] + x.margin > y.t[i]

LEMMA NextViolation ==
  ASSUME NEW N, NEW x, NEW y, Extends(x, y, N)
  PROVE  Violations(y)[N + 1] <=>
           N + 1 \notin y.on /\ \E k \in x.root : Opens(x, N, k) /\ BreaksNow(x, y, k, N + 1)
<1> DEFINE i == N + 1
           w == Violations(y)
<1>1. N \in Nat /\ i \in 1 .. N + 1 /\ w[i] = ViolatedAt(y, w, i)
  BY ViolationsAre DEF Extends, IsTrace
<1>2. \A k \in Nat : k < i => (k \in y.root <=> k \in x.root)
  BY DEF Extends, IsTrace
<1>3. \A k \in x.root \cup y.root : k \in Nat /\ k >= 1 /\ (k \in x.root => k < i)
  BY DEF Extends, IsTrace
<1>4. \A k \in x.root : (\A m \in k + 1 .. i : m \notin y.on) <=>
                         i \notin y.on /\ \A m \in k + 1 .. N : m \notin x.on
  BY <1>1, <1>3 DEF Extends
<1>5. \A k \in x.root : (\A m \in k + 1 .. i - 1 : ~w[m]) <=>
                         \A m \in k + 1 .. N : ~Violations(x)[m]
  BY <1>1, <1>3, SameViolations
<1>6. ASSUME NEW k \in x.root
      PROVE  Breaks(y, k, i) <=> BreaksNow(x, y, k, i)
  <2> DEFINE as == {m \in y.a : k < m /\ m < i}
             bs == {m \in y.b : k < m /\ m < i}
  <2>1. as = After(x.a, k) /\ bs = After(x.b, k) /\ as \subseteq 1 .. N /\ as \subseteq x.a
    BY <1>3 DEF Extends, IsTrace, After
  <2>2. \A l \in as : y.t[l] = x.t[l]
    BY <2>1 DEF Extends
  <2>3. y.margin = x.margin
    BY DEF Extends
  <2>4. Breaks(y, k, i) <=>
          \/ i \in y.a /\ bs # {} /\ (y.margin = 0 \/ ~\E l \in as : \A m \in bs : l < m)
          \/ /\ i \in y.b /\ y.margin # 0 /\ \E l \in as : \A m \in bs : l < m
             /\ \E l \in as : (\A m \in as : m <= l) /\ y.t[l] + y.margin > y.t[i]
    BY DEF Breaks
  <2> HIDE DEF as, bs
  <2> QED
    BY <2>1, <2>2, <2>3, <2>4 DEF BreaksNow, FirstA, LastA
<1> HIDE DEF w
<1> QED
  BY <1>1, <1>2, <1>3, <1>4, <1>5, <1>6 DEF ViolatedAt, Opens, w

LEMMA OpensNext ==
  ASSUME NEW N, NEW x, NEW y, Extends(x, y, N)
  PROVE  /\ \A k \in x.root : k \in y.root /\ k \in 1 .. N
         /\ \A k \in y.root : k \in x.root \/ k = N + 1
         /\ \A k \in x.root : Opens(y, N + 1, k) <=>
              Opens(x, N, k) /\ N + 1 \notin y.on /\ ~Violations(y)[N + 1]
         /\ N + 1 \in y.root => Opens(y, N + 1, N + 1)
<1>1. N \in Nat /\ x.root \subseteq 1 .. N /\ y.root \subseteq 1 .. N + 1
  BY DEF Extends, IsTrace
<1>2. \A k \in x.root : k \in y.root /\ k \in 1 .. N
  BY <1>1 DEF Extends
<1>3. \A k \in y.root : k \in x.root \/ k = N + 1
  BY <1>1 DEF Extends
<1>4. ASSUME NEW k \in x.root
      PROVE  Opens(y, N + 1, k) <=> Opens(x, N, k) /\ N + 1 \notin y.on /\ ~Violations(y)[N + 1]
  <2>1. \A m : m \in k + 1 .. N + 1 <=> m \in k + 1 .. N \/ m = N + 1
    BY <1>1
  <2>2. \A m \in k + 1 .. N : m \in 1 .. N
    BY <1>1
  <2>3. \A m \in k + 1 .. N : (m \in y.on <=> m \in x.on) /\ Violations(y)[m] = Violations(x)[m]
    BY <2>2, SameViolations DEF Extends
  <2> QED
    BY <1>2, <2>1, <2>3 DEF Opens
<1>5. N + 1 \in y.root => Opens(y, N + 1, N + 1)
  BY <1>1 DEF Opens
<1> QED
  BY <1>2, <1>3, <1>4, <1>5

LEMMA AfterNext ==
  ASSUME NEW N, NEW x, NEW y, Extends(x, y, N), NEW k \in 1 .. N
  PROVE  /\ After(x.a, k) \subseteq 1 .. N /\ After(x.b, k) \subseteq 1 .. N
         /\ N + 1 \notin y.a => After(y.a, k) = After(x.a, k)
         /\ N + 1 \notin y.b => After(y.b, k) = After(x.b, k)
         /\ N + 1 \in y.a => After(y.a, k) = After(x.a, k) \cup {N + 1}
         /\ N + 1 \in y.b => After(y.b, k) = After(x.b, k) \cup {N + 1}
         /\ \A l \in x.a : l \in y.a /\ y.t[l] = x.t[l]
         /\ y.margin = x.margin
<1>1. N \in Nat /\ k < N + 1 /\ y.margin = x.margin
  BY DEF Extends, IsTrace
<1>2. /\ x.a \subseteq 1 .. N /\ x.b \subseteq 1 .. N
      /\ y.a \subseteq 1 .. N + 1 /\ y.b \subseteq 1 .. N + 1
  BY DEF Extends, IsTrace
<1>3. \A m \in 1 .. N : (m \in y.a <=> m \in x.a) /\ (m \in y.b <=> m \in x.b) /\ y.t[m] = x.t[m]
  BY DEF Extends
<1>4. \A m \in 1 .. N + 1 : m \in 1 .. N \/ m = N + 1
  BY <1>1
<1>5. \A m : /\ m \in y.a <=> m \in x.a \/ (m = N + 1 /\ N + 1 \in y.a)
             /\ m \in y.b <=> m \in x.b \/ (m = N + 1 /\ N + 1 \in y.b)
  BY <1>2, <1>3, <1>4
<1> QED
  BY <1>1, <1>2, <1>3, <1>5 DEF After

(* A write that is none of the three nodes.                                *)
LEMMA QuietStep ==
  ASSUME NEW N, NEW x, NEW y, Extends(x, y, N), NEW st, Tracks(x, N, st),
         N + 1 \notin y.on, N + 1 \notin y.a, N + 1 \notin y.b
  PROVE  Tracks(y, N + 1, st) /\ ~Violations(y)[N + 1]
<1>1. ~Violations(y)[N + 1]
  BY NextViolation DEF BreaksNow
<1>2. \A k \in y.root : k \in x.root /\ k \in 1 .. N
  BY OpensNext DEF Extends, IsTrace
<1>3. \A k \in x.root : Opens(y, N + 1, k) <=> Opens(x, N, k)
  BY <1>1, OpensNext
<1>4. ASSUME NEW k \in x.root, Summary(x, k, st) PROVE Summary(y, k, st)
  <2>1. k \in 1 .. N
    BY OpensNext
  <2>2. After(y.a, k) = After(x.a, k) /\ After(y.b, k) = After(x.b, k)
    BY <2>1, AfterNext
  <2>3. FirstA(y, k) = FirstA(x, k) /\ \A l : LastA(y, k, l) = LastA(x, k, l)
    BY <2>2 DEF FirstA, LastA
  <2> QED
    BY <1>4, <2>1, <2>2, <2>3, AfterNext DEF Summary
<1> QED
  BY <1>1, <1>2, <1>3, <1>4, OpensNext DEF Tracks

(* A write of the root starts anew, or ends what was going on.             *)
LEMMA RootStep ==
  ASSUME NEW N, NEW x, NEW y, Extends(x, y, N), N + 1 \in y.on
  PROVE  /\ Tracks(y, N + 1, [is |-> IF N + 1 \in y.root THEN START ELSE INACTIVE, ts |-> 0])
         /\ ~Violations(y)[N + 1]
<1>1. ~Violations(y)[N + 1]
  BY NextViolation
<1>2. \A k \in x.root : ~Opens(y, N + 1, k)
  BY OpensNext
<1>3. After(y.a, N + 1) = {} /\ After(y.b, N + 1) = {}
  BY DEF Extends, IsTrace, After
<1> DEFINE st == [is |-> IF N + 1 \in y.root THEN START ELSE INACTIVE, ts |-> 0]
<1>4. st \in [is : {INACTIVE, START, PENDING, PENDINGDELAY}, ts : Nat]
  OBVIOUS
<1>5. CASE N + 1 \in y.root
  <2>1. st.is = START
    BY <1>5
  <2>2. Summary(y, N + 1, st)
    BY <1>3, <2>1 DEF Summary, START, PENDING, PENDINGDELAY
  <2>3. Opens(y, N + 1, N + 1)
    BY <1>5, OpensNext
  <2> QED
    BY <1>1, <1>4, <1>5, <2>1, <2>2, <2>3 DEF Tracks, START, INACTIVE
<1>6. CASE N + 1 \notin y.root
  <2>1. st.is = INACTIVE
    BY <1>6
  <2>2. \A k \in y.root : ~Opens(y, N + 1, k)
    BY <1>2, <1>6, OpensNext
  <2> QED
    BY <1>1, <1>4, <2>1, <2>2 DEF Tracks
<1> QED
  BY <1>5, <1>6

(* A violation ends what was going on.                                     *)
LEMMA ViolationStep ==
  ASSUME NEW N, NEW x, NEW y, Extends(x, y, N), Violations(y)[N + 1]
  PROVE  Tracks(y, N + 1, Idle)
<1>1. N + 1 \notin y.on
  BY NextViolation
<1>2. N + 1 \notin y.root
  BY <1>1 DEF Extends, IsTrace
<1>3. \A k \in y.root : ~Opens(y, N + 1, k)
  BY <1>2, OpensNext
<1> QED
  BY <1>3 DEF Tracks, Idle

(* A write that breaks nothing and leaves the constraint as it is, or in   *)
(* the state st with which the trace agrees.                               *)
LEMMA OpenStep ==
  ASSUME NEW N, NEW x, NEW y, Extends(x, y, N), NEW k \in x.root, Opens(x, N, k),
         N + 1 \notin y.on, ~BreaksNow(x, y, k, N + 1),
         NEW st \in [is : {START, PENDING, PENDINGDELAY}, ts : Nat], Summary(y, k, st)
  PROVE  Tracks(y, N + 1, st) /\ ~Violations(y)[N + 1]
<1>1. IsTrace(x, N)
  BY DEF Extends
<1>2. ~Violations(y)[N + 1]
  BY <1>1, NextViolation, OpenedOnce
<1>3. Opens(y, N + 1, k) /\ k \in y.root
  BY <1>2, OpensNext
<1>4. st.is # INACTIVE /\ st \in [is : {INACTIVE, START, PENDING, PENDINGDELAY}, ts : Nat]
  BY DEF INACTIVE, START, PENDING, PENDINGDELAY
<1> QED
  BY <1>2, <1>3, <1>4 DEF Tracks
LEMMA InactiveStep ==
  ASSUME NEW N, NEW x, NEW y, Extends(x, y, N), NEW st, Tracks(x, N, st),
         st.is = INACTIVE, N + 1 \notin y.on
  PROVE  Tracks(y, N + 1, st) /\ ~Violations(y)[N + 1]
<1>1. \A k \in x.root : ~Opens(x, N, k)
  BY DEF Tracks
<1>2. ~Violations(y)[N + 1] /\ N + 1 \notin y.root
  BY <1>1, NextViolation DEF Extends, IsTrace
<1>3. \A k \in y.root : ~Opens(y, N + 1, k)
  BY <1>1, <1>2, OpensNext
<1> QED
  BY <1>2, <1>3 DEF Tracks

(* The first of the two comes.                                             *)
LEMMA FirstStep ==
  ASSUME NEW N, NEW x, NEW y, Extends(x, y, N), NEW st, Tracks(x, N, st), st.is # INACTIVE,
         N + 1 \notin y.on, N + 1 \in y.a, N + 1 \notin y.b
  PROVE  /\ st.is = PENDING => Violations(y)[N + 1]
         /\ st.is = START /\ x.margin = 0 =>
              Tracks(y, N + 1, st) /\ ~Violations(y)[N + 1]
         /\ st.is # PENDING /\ ~(st.is = START /\ x.margin = 0) =>
              Tracks(y, N + 1, [is |-> PENDINGDELAY, ts |-> y.t[N + 1]]) /\ ~Violations(y)[N + 1]
<1>1. PICK k \in x.root : Opens(x, N, k) /\ Summary(x, k, st)
  BY DEF Tracks
<1>2. N \in Nat /\ k \in 1 .. N /\ y.t[N + 1] \in Nat /\ x.margin \in Nat
  BY OpensNext DEF Extends, IsTrace
<1>3. /\ After(x.a, k) \subseteq 1 .. N /\ y.margin = x.margin
      /\ After(y.b, k) = After(x.b, k)
      /\ After(y.a, k) = After(x.a, k) \cup {N + 1}
  BY <1>2, AfterNext
<1>4. st.is = PENDING => Violations(y)[N + 1]
  BY <1>1, NextViolation DEF Summary, BreaksNow
<1>5. ASSUME st.is # PENDING PROVE ~BreaksNow(x, y, k, N + 1)
  <2>1. st.is \in {START, PENDINGDELAY}
    BY <1>5 DEF Tracks
  <2> QED
    BY <1>1, <2>1 DEF Summary, BreaksNow
<1>6. ASSUME st.is = START, x.margin = 0
      PROVE  Tracks(y, N + 1, st) /\ ~Violations(y)[N + 1]
  <2>1. st \in [is : {START, PENDING, PENDINGDELAY}, ts : Nat]
    BY <1>6 DEF Tracks
  <2>2. Summary(y, k, st)
    BY <1>1, <1>3, <1>6 DEF Summary, START, PENDING, PENDINGDELAY
  <2>3. ~BreaksNow(x, y, k, N + 1)
    BY <1>5, <1>6 DEF START, PENDING
  <2> QED
    BY <1>1, <2>1, <2>2, <2>3, OpenStep
<1>7. ASSUME st.is # PENDING, ~(st.is = START /\ x.margin = 0)
      PROVE  Tracks(y, N + 1, [is |-> PENDINGDELAY, ts |-> y.t[N + 1]]) /\ ~Violations(y)[N + 1]
  <2> DEFINE now2 == [is |-> PENDINGDELAY, ts |-> y.t[N + 1]]
  <2>1. st.is \in {START, PENDINGDELAY}
    BY <1>7 DEF Tracks
  <2>2. x.margin # 0
    BY <1>1, <1>7, <2>1 DEF Summary
  <2>3. FirstA(y, k)
    <3>1. CASE st.is = START
      BY <1>1, <1>3, <3>1 DEF Summary, FirstA
    <3>2. CASE st.is = PENDINGDELAY
      BY <1>1, <1>3, <3>2 DEF Summary, FirstA
    <3> QED
      BY <2>1, <3>1, <3>2
  <2>4. LastA(y, k, N + 1)
    BY <1>2, <1>3 DEF LastA
  <2>5. Summary(y, k, now2)
    BY <1>3, <2>2, <2>3, <2>4 DEF Summary, START, PENDING, PENDINGDELAY
  <2>6. now2 \in [is : {START, PENDING, PENDINGDELAY}, ts : Nat]
    BY <1>2
  <2> QED
    BY <1>1, <1>5, <1>7, <2>5, <2>6, OpenStep
<1> QED
  BY <1>4, <1>6, <1>7

(* The second of the two comes.                                            *)
LEMMA SecondStep ==
  ASSUME NEW N, NEW x, NEW y, Extends(x, y, N), NEW st, Tracks(x, N, st), st.is # INACTIVE,
         N + 1 \notin y.on, N + 1 \notin y.a, N + 1 \in y.b
  PROVE  /\ st.is = PENDINGDELAY /\ st.ts + x.margin > y.t[N + 1] => Violations(y)[N + 1]
         /\ st.is = PENDINGDELAY /\ st.ts + x.margin <= y.t[N + 1] =>
              Tracks(y, N + 1, st) /\ ~Violations(y)[N + 1]
         /\ st.is # PENDINGDELAY =>
              Tracks(y, N + 1, [is |-> PENDING, ts |-> 0]) /\ ~Violations(y)[N + 1]
<1>1. PICK k \in x.root : Opens(x, N, k) /\ Summary(x, k, st)
  BY DEF Tracks
<1>2. /\ N \in Nat /\ k \in 1 .. N /\ y.t[N + 1] \in Nat /\ x.margin \in Nat
      /\ st \in [is : {INACTIVE, START, PENDING, PENDINGDELAY}, ts : Nat]
  BY OpensNext DEF Extends, IsTrace, Tracks
<1>3. /\ After(x.a, k) \subseteq 1 .. N /\ y.margin = x.margin
      /\ After(y.a, k) = After(x.a, k)
      /\ After(y.b, k) = After(x.b, k) \cup {N + 1}
      /\ \A l \in x.a : l \in y.a /\ y.t[l] = x.t[l]
  BY <1>2, AfterNext
<1>4. ASSUME st.is = PENDINGDELAY
      PROVE  \E l \in x.a : /\ LastA(x, k, l) /\ st.ts = x.t[l]
                            /\ \A m \in x.a : LastA(x, k, m) => m = l
  <2>1. PICK l \in x.a : LastA(x, k, l) /\ st.ts = x.t[l]
    BY <1>1, <1>4 DEF Summary
  <2>2. \A m \in x.a : LastA(x, k, m) => m = l
    BY <1>3, <2>1 DEF LastA
  <2> QED
    BY <2>1, <2>2
<1>5. st.is = PENDINGDELAY /\ st.ts + x.margin > y.t[N + 1] => Violations(y)[N + 1]
  BY <1>1, <1>4, NextViolation DEF Summary, BreaksNow
<1>6. ASSUME st.is = PENDINGDELAY, st.ts + x.margin <= y.t[N + 1]
      PROVE  Tracks(y, N + 1, st) /\ ~Violations(y)[N + 1]
  <2>1. PICK l \in x.a : /\ LastA(x, k, l) /\ st.ts = x.t[l]
                         /\ \A m \in x.a : LastA(x, k, m) => m = l
    BY <1>4, <1>6
  <2>2. ~(x.t[l] + x.margin > y.t[N + 1])
    BY <1>2, <1>6, <2>1
  <2>3. ~BreaksNow(x, y, k, N + 1)
    BY <2>1, <2>2 DEF BreaksNow
  <2>4. FirstA(y, k)
    BY <1>1, <1>2, <1>3, <1>6 DEF Summary, FirstA
  <2>5. LastA(y, k, l) /\ l \in y.a /\ st.ts = y.t[l]
    BY <1>3, <2>1 DEF LastA
  <2>6. Summary(y, k, st)
    BY <1>1, <1>3, <1>6, <2>4, <2>5 DEF Summary, START, PENDING, PENDINGDELAY
  <2>7. st \in [is : {START, PENDING, PENDINGDELAY}, ts : Nat]
    BY <1>2, <1>6
  <2> QED
    BY <1>1, <2>3, <2>6, <2>7, OpenStep
<1>7. ASSUME st.is # PENDINGDELAY
      PROVE  Tracks(y, N + 1, [is |-> PENDING, ts |-> 0]) /\ ~Violations(y)[N + 1]
  <2> DEFINE then == [is |-> PENDING, ts |-> 0]
  <2>1. st.is \in {START, PENDING}
    BY <1>2, <1>7
  <2>2. x.margin = 0 \/ ~FirstA(x, k)
    BY <1>1, <2>1 DEF Summary, FirstA
  <2>3. ~BreaksNow(x, y, k, N + 1)
    BY <2>2 DEF BreaksNow
  <2>4. FirstA(y, k) => FirstA(x, k)
    BY <1>3 DEF FirstA
  <2>5. Summary(y, k, then)
    BY <1>3, <2>2, <2>4 DEF Summary, START, PENDING, PENDINGDELAY
  <2>6. then \in [is : {START, PENDING, PENDINGDELAY}, ts : Nat]
    OBVIOUS
  <2> QED
    BY <1>1, <2>3, <2>5, <2>6, OpenStep
<1> QED
  BY <1>5, <1>6, <1>7

(* Write i of the trace y, as the constraint c sees it.                    *)
Sees(y, i, c, sig, v, t, reset) ==
  /\ y.t[i] = t
  /\ i \in y.on <=> c.n[1] = sig /\ ~reset
  /\ i \in y.root <=> c.n[1] = sig /\ ~reset /\ Trigger(c.f[1], v)
  /\ i \in y.a <=> c.n[2] = sig /\ ~reset /\ Trigger(c.f[2], v)
  /\ i \in y.b <=> c.n[3] = sig /\ ~reset /\ Trigger(c.f[3], v)

(* What update makes of a write is what the trace makes of it.             *)
LEMMA UpdateTracks ==
  ASSUME NEW N, NEW x, NEW y, Extends(x, y, N), NEW st, Tracks(x, N, st),
         NEW c, Proper(c), x.margin = c.margin,
         NEW sig, NEW v, NEW now1, NEW reset \in BOOLEAN,
         Sees(y, N + 1, c, sig, v, now1, reset),
         NEW r, r = update(c, st, sig, v, now1, reset)
  PROVE  Tracks(y, N + 1, r.st) /\ (r.warns <=> Violations(y)[N + 1])
<1> DEFINE r0 == [st |-> st, warns |-> FALSE]
<1> USE DEF Sees
<1>0. /\ c.n[1] # c.n[2] /\ c.n[1] # c.n[3] /\ c.n[2] # c.n[3]
      /\ st \in [is : {INACTIVE, START, PENDING, PENDINGDELAY}, ts : Nat]
      /\ c.margin \in Nat /\ now1 \in Nat
  BY DEF Proper, Tracks, Extends, IsTrace
<1>1. CASE N + 1 \notin y.on /\ N + 1 \notin y.a /\ N + 1 \notin y.b
  <2>1. r = r0
    BY <1>1 DEF update, OnRoot, OnFirst, OnSecond
  <2> QED
    BY <1>1, <2>1, QuietStep
<1>2. CASE N + 1 \in y.on
  <2>1. r = [st |-> [is |-> IF N + 1 \in y.root THEN START ELSE INACTIVE, ts |-> 0], warns |-> FALSE]
    BY <1>0, <1>2 DEF update, OnRoot, OnFirst, OnSecond, Idle
  <2> QED
    BY <1>2, <2>1, RootStep
<1>3. CASE N + 1 \in y.a
  <2>0. N + 1 \notin y.on /\ N + 1 \notin y.b
    BY <1>0, <1>3
  <2>1. r = OnFirst(c, r0, sig, v, now1)
    BY <1>0, <1>3 DEF update, OnRoot, OnSecond
  <2>2. CASE st.is = INACTIVE
    <3>1. r = r0
      BY <2>1, <2>2 DEF OnFirst
    <3> QED
      BY <2>0, <2>2, <3>1, InactiveStep
  <2>3. CASE st.is = PENDING
    <3>1. r = [st |-> Idle, warns |-> TRUE]
      BY <1>3, <2>1, <2>3 DEF OnFirst, START, PENDING, INACTIVE
    <3>2. Violations(y)[N + 1]
      BY <1>3, <2>0, <2>3, FirstStep DEF PENDING, INACTIVE
    <3> QED
      BY <3>1, <3>2, ViolationStep
  <2>4. CASE st.is = START /\ c.margin = 0
    <3>1. r = r0
      BY <1>3, <2>1, <2>4 DEF OnFirst, START, PENDING, INACTIVE
    <3>2. st.is # INACTIVE /\ x.margin = 0
      BY <2>4 DEF START, INACTIVE
    <3>3. Tracks(y, N + 1, st) /\ ~Violations(y)[N + 1]
      BY <1>3, <2>0, <2>4, <3>2, FirstStep
    <3> QED
      BY <3>1, <3>3
  <2>5. CASE st.is \notin {INACTIVE, PENDING} /\ ~(st.is = START /\ c.margin = 0)
    <3>1. r = [st |-> [is |-> PENDINGDELAY, ts |-> y.t[N + 1]], warns |-> FALSE]
      BY <1>3, <2>1, <2>5 DEF OnFirst
    <3>2. Tracks(y, N + 1, [is |-> PENDINGDELAY, ts |-> y.t[N + 1]]) /\ ~Violations(y)[N + 1]
      BY <1>3, <2>0, <2>5, FirstStep
    <3> QED
      BY <3>1, <3>2
  <2> QED
    BY <2>2, <2>3, <2>4, <2>5
<1>4. CASE N + 1 \in y.b
  <2>0. N + 1 \notin y.on /\ N + 1 \notin y.a
    BY <1>0, <1>4
  <2>1. r = OnSecond(c, r0, sig, v, now1)
    BY <1>0, <1>4 DEF update, OnRoot, OnFirst
  <2>2. CASE st.is = INACTIVE
    <3>1. r = r0
      BY <2>1, <2>2 DEF OnSecond
    <3> QED
      BY <2>0, <2>2, <3>1, InactiveStep
  <2>3. CASE st.is = PENDINGDELAY /\ st.ts + c.margin > now1
    <3>1. r = [st |-> Idle, warns |-> TRUE]
      BY <1>0, <1>4, <2>1, <2>3 DEF OnSecond, PENDINGDELAY, INACTIVE
    <3>2. Violations(y)[N + 1]
      BY <1>4, <2>0, <2>3, SecondStep DEF PENDINGDELAY, INACTIVE
    <3> QED
      BY <3>1, <3>2, ViolationStep
  <2>4. CASE st.is = PENDINGDELAY /\ st.ts + c.margin <= now1
    <3>1. r = r0
      BY <1>0, <1>4, <2>1, <2>4 DEF OnSecond, PENDINGDELAY, INACTIVE
    <3> QED
      BY <1>4, <2>0, <2>4, <3>1, SecondStep DEF PENDINGDELAY, INACTIVE
  <2>5. CASE st.is \notin {INACTIVE, PENDINGDELAY}
    <3>1. r = [st |-> [is |-> PENDING, ts |-> 0], warns |-> FALSE]
      BY <1>4, <2>1, <2>5 DEF OnSecond
    <3> QED
      BY <1>4, <2>0, <2>5, <3>1, SecondStep
  <2>6. st.is = PENDINGDELAY => st.ts + c.margin > now1 \/ st.ts + c.margin <= now1
    BY <1>0
  <2> QED
    BY <2>2, <2>3, <2>4, <2>5, <2>6
<1> QED
  BY <1>1, <1>2, <1>3, <1>4

-----------------------------------------------------------------------------
(* Each constraint follows its trace, and the last write was judged by it. *)
Followed(c, d) ==
  /\ Tracks(Trace(d), Len(hist), watch[c])
  /\ hist # <<>> => (Violated(d) <=> c \in Last(hist).timing)
Running ==
  /\ hist \in Seq(Range(hist)) /\ \A e \in Range(hist) : e.t \in Nat
  /\ val = [b \in DOMAIN fan |-> val[b]]
  /\ watch = [c \in DOMAIN reg.timing |-> watch[c]]
  /\ \A c \in DOMAIN reg.timing : \A d \in meant.timing :
       Meets(reg.timing[c], d) => Followed(c, d)
DesignInv ==
  /\ now \in Nat /\ resetMode \in BOOLEAN
  /\ phase # "run" => hist = <<>>
  /\ phase = "run" => Running /\ ExclExact

LEMMA AppendFacts ==
  ASSUME NEW s, s \in Seq(Range(s)), NEW e
  PROVE  /\ Append(s, e) \in Seq(Range(Append(s, e)))
         /\ Range(Append(s, e)) = Range(s) \cup {e}
         /\ Len(s) \in Nat /\ DOMAIN s = 1 .. Len(s)
         /\ Len(Append(s, e)) = Len(s) + 1 /\ DOMAIN Append(s, e) = 1 .. Len(s) + 1
         /\ \A i \in 1 .. Len(s) : Append(s, e)[i] = s[i]
         /\ Append(s, e)[Len(s) + 1] = e
         /\ Append(s, e) # <<>> /\ Last(Append(s, e)) = e
<1> DEFINE S == Range(s) \cup {e}
           u == Append(s, e)
<1>1. s \in Seq(S) /\ e \in S
  <2>1. Range(s) \subseteq S
    OBVIOUS
  <2> HIDE DEF S
  <2>2. s \in Seq(S)
    BY <2>1
  <2> QED
    BY <2>2 DEF S
<1> HIDE DEF S
<1>2. Len(s) \in Nat /\ DOMAIN s = 1 .. Len(s)
  BY <1>1
<1>3. /\ u \in Seq(S) /\ Len(u) = Len(s) + 1 /\ DOMAIN u = 1 .. Len(s) + 1
      /\ \A i \in 1 .. Len(s) : u[i] = s[i]
      /\ u[Len(s) + 1] = e
  BY <1>1
<1> HIDE DEF u
<1>4. Range(u) = Range(s) \cup {e}
  BY <1>2, <1>3 DEF Range
<1>5. u # <<>> /\ Last(u) = e
  <2>1. Len(u) # 0
    BY <1>2, <1>3
  <2> QED
    BY <1>3, <2>1 DEF Last
<1> QED
  BY <1>2, <1>3, <1>4, <1>5 DEF u, S

LEMMA BuildPhase == Build => phase # "run" /\ phase' # "run"
<1>1. AddRoot => phase # "run" /\ phase' # "run"
  BY DEF AddRoot, Fail
<1>2. SkipElement => phase # "run" /\ phase' # "run"
  BY DEF SkipElement
<1>3. AddInst => phase # "run" /\ phase' # "run"
  BY DEF AddInst, Fail
<1>4. Return => phase # "run" /\ phase' # "run"
  BY DEF Return
<1>5. Visit \/ Enter \/ Leave => phase # "run" /\ phase' # "run"
  BY DEF Visit, Enter, Leave
<1> QED
  BY <1>1, <1>2, <1>3, <1>4, <1>5 DEF Build

(* The trace of a constraint of the design, when x is written.             *)
LEMMA TraceGrows ==
  ASSUME Running, Registered, phase = "run", now \in Nat,
         NEW c \in DOMAIN reg.timing, NEW d, Meets(reg.timing[c], d),
         NEW e, e.t = now, e.x \in Watched, hist' = Append(hist, e), meant' = meant
  PROVE  /\ Extends(Trace(d), Trace(d)', Len(hist))
         /\ Len(hist)' = Len(hist) + 1
         /\ Trace(d).margin = reg.timing[c].margin
         /\ Sees(Trace(d)', Len(hist) + 1, reg.timing[c], e.x, e.v, now, e.reset)
<1> DEFINE N == Len(hist)
           k == reg.timing[c]
           h == Append(hist, e)
           y == [on   |-> {i \in DOMAIN h : On(d, 1, h[i])},
                 root |-> {i \in DOMAIN h : Fires(d, 1, h[i])},
                 a    |-> {i \in DOMAIN h : Fires(d, 2, h[i])},
                 b    |-> {i \in DOMAIN h : Fires(d, 3, h[i])},
                 t    |-> [i \in DOMAIN h |-> h[i].t],
                 margin |-> d.margin]
<1>1. Trace(d)' = y
  BY DEF Trace, On, Fires
<1>2. /\ N \in Nat /\ DOMAIN hist = 1 .. N /\ DOMAIN h = 1 .. N + 1 /\ Len(h) = N + 1
      /\ \A i \in 1 .. N : h[i] = hist[i]
      /\ h[N + 1] = e
  BY AppendFacts DEF Running
<1>3. d.margin = k.margin /\ d.f = k.f /\ d.margin \in Nat
  BY DEF Meets, Registered, Proper
<1>4. \A j \in 1 .. 3 : On(d, j, e) <=> k.n[j] = e.x /\ ~e.reset
  <2> SUFFICES ASSUME NEW j \in 1 .. 3
               PROVE  meant.netOf[e.x] = {d.n[j]} <=> k.n[j] = e.x
    BY DEF On
  <2>1. meant.netOf[k.n[j]] = {d.n[j]} /\ k.n[j] \in Watched
    BY DEF Meets, Registered
  <2>2. meant.netOf[e.x] = meant.netOf[k.n[j]] => e.x = k.n[j]
    BY <2>1 DEF Registered
  <2> QED
    BY <2>1, <2>2
<1>5. \A j \in 1 .. 3 : Fires(d, j, e) <=> k.n[j] = e.x /\ ~e.reset /\ Trigger(k.f[j], e.v)
  BY <1>3, <1>4 DEF Fires
<1>6. \A i \in 1 .. N : hist[i].t \in Nat
  BY <1>2 DEF Running, Range
<1>7. \A i \in 1 .. N + 1 : h[i].t \in Nat
  BY <1>2, <1>6
<1> HIDE DEF h
<1>8. IsTrace(Trace(d), N)
  BY <1>2, <1>3, <1>6 DEF IsTrace, Trace, Fires
<1>9. IsTrace(y, N + 1)
  BY <1>2, <1>3, <1>7 DEF IsTrace, Fires
<1>10. Extends(Trace(d), y, N)
  <2>1. \A m \in 1 .. N : /\ m \in y.on <=> m \in Trace(d).on
                          /\ m \in y.root <=> m \in Trace(d).root
                          /\ m \in y.a <=> m \in Trace(d).a
                          /\ m \in y.b <=> m \in Trace(d).b
                          /\ y.t[m] = Trace(d).t[m]
    BY <1>2 DEF Trace
  <2>2. y.margin = Trace(d).margin
    BY DEF Trace
  <2> QED
    BY <1>8, <1>9, <2>1, <2>2 DEF Extends
<1>11. N + 1 \in DOMAIN h
  BY <1>2
<1>12. y.t[N + 1] = now /\ Trace(d).margin = k.margin /\ Len(hist)' = N + 1
  BY <1>2, <1>3, <1>11 DEF Trace, h
<1>13. /\ N + 1 \in y.on <=> On(d, 1, e)
       /\ N + 1 \in y.root <=> Fires(d, 1, e)
       /\ N + 1 \in y.a <=> Fires(d, 2, e)
       /\ N + 1 \in y.b <=> Fires(d, 3, e)
  BY <1>2, <1>11
<1> HIDE DEF y
<1> QED
  BY <1>1, <1>4, <1>5, <1>10, <1>12, <1>13 DEF Sees

(* What the handler records of a write.                                    *)
Judged(x, v) ==
  [c \in DOMAIN watch |->
     IF x \in reg.special THEN update(reg.timing[c], watch[c], x, v, now, resetMode)
     ELSE [st |-> watch[c], warns |-> FALSE]]
Monitored(v) == IF v = 1 THEN reg.hi ELSE IF v = 0 THEN reg.lo ELSE <<>>
Entry(x, v) ==
  [x |-> x, v |-> v, t |-> now, reset |-> resetMode,
   timing |-> {c \in DOMAIN watch : Judged(x, v)[c].warns},
   excl |-> x \in reg.special /\ MonitorExcl /\ ~SafeChange(Monitored(v), val, x, v)]

LEMMA WriteRecords ==
  ASSUME NEW x, NEW v, SetBool(x, v)
  PROVE  /\ hist' = Append(hist, Entry(x, v))
         /\ watch' = [c \in DOMAIN watch |-> Judged(x, v)[c].st]
         /\ val' = [val EXCEPT ![x] = v]
         /\ UNCHANGED <<now, resetMode, meant, reg, fan, phase>>
BY DEF SetBool, Entry, Judged, Monitored, evars

(* A write: the timing constraints.                                        *)
LEMMA WriteFollowed ==
  ASSUME DesignInv, Registered, phase = "run",
         NEW x \in Watched, NEW v, SetBool(x, v)
  PROVE  Running'
<1> DEFINE special == x \in reg.special
           r == Judged(x, v)
           e == Entry(x, v)
<1>1. Running /\ now \in Nat /\ resetMode \in BOOLEAN
  BY DEF DesignInv
<1>2. /\ watch' = [c \in DOMAIN watch |-> r[c].st]
      /\ val' = [val EXCEPT ![x] = v]
      /\ UNCHANGED <<meant, reg, fan>>
  BY WriteRecords
<1>3. /\ hist' = Append(hist, e)
      /\ e.x = x /\ e.v = v /\ e.t = now /\ e.reset = resetMode
      /\ e.timing = {c \in DOMAIN watch : r[c].warns}
  BY WriteRecords DEF Entry
<1> HIDE DEF e
<1>4. /\ hist' \in Seq(Range(hist')) /\ Range(hist') = Range(hist) \cup {e}
      /\ hist' # <<>> /\ Last(hist') = e /\ Len(hist) \in Nat
  BY <1>1, <1>3, AppendFacts DEF Running
<1>5. \A f \in Range(hist') : f.t \in Nat
  BY <1>1, <1>3, <1>4 DEF Running
<1>6. DOMAIN watch = DOMAIN reg.timing
  BY <1>1 DEF Running
<1>7. val' = [b \in DOMAIN fan' |-> val'[b]] /\ watch' = [c \in DOMAIN reg'.timing |-> watch'[c]]
  <2>1. val' = [b \in DOMAIN fan |-> val'[b]]
    BY <1>1, <1>2 DEF Running
  <2>2. watch' = [c \in DOMAIN reg.timing |-> watch'[c]]
    BY <1>2, <1>6
  <2> QED
    BY <1>2, <2>1, <2>2
<1>8. ASSUME NEW c \in DOMAIN reg.timing, NEW d \in meant.timing, Meets(reg.timing[c], d)
      PROVE  Followed(c, d)'
  <2> DEFINE N == Len(hist)
             k == reg.timing[c]
             y == Trace(d)'
  <2>1. /\ Extends(Trace(d), y, N)
        /\ Len(hist)' = N + 1
        /\ Trace(d).margin = k.margin
        /\ Sees(y, N + 1, k, x, v, now, resetMode)
    BY <1>1, <1>2, <1>3, <1>8, TraceGrows
  <2>2. /\ Tracks(Trace(d), N, watch[c]) /\ Proper(k)
        /\ \A j \in 1 .. 3 : k.n[j] \in reg.special
    BY <1>1, <1>8 DEF Running, Followed, Registered
  <2> HIDE DEF y
  <2>3. Tracks(y, N + 1, r[c].st) /\ (r[c].warns <=> Violations(y)[N + 1])
    <3>1. CASE special
      <4>1. r[c] = update(k, watch[c], x, v, now, resetMode)
        BY <1>6, <3>1 DEF Judged
      <4> HIDE DEF r, k, N
      <4> QED
        BY <1>1, <2>1, <2>2, <4>1, UpdateTracks
    <3>2. CASE ~special
      <4>1. r[c] = [st |-> watch[c], warns |-> FALSE]
        BY <1>6, <3>2 DEF Judged
      <4>2. k.n[1] # x /\ k.n[2] # x /\ k.n[3] # x
        BY <2>2, <3>2
      <4> HIDE DEF r, k, N
      <4> QED
        BY <2>1, <2>2, <4>1, <4>2, QuietStep DEF Sees
    <3> QED
      BY <3>1, <3>2
  <2>4. watch'[c] = r[c].st
    BY <1>2, <1>6
  <2>5. c \in Last(hist)'.timing <=> r[c].warns
    BY <1>3, <1>4, <1>6
  <2>6. Violated(d)' <=> Violations(y)[N + 1]
    BY <2>1 DEF Violated, y
  <2> QED
    BY <2>1, <2>3, <2>4, <2>5, <2>6 DEF Followed, y
<1>9. \A c \in DOMAIN reg'.timing : \A d \in meant'.timing : Meets(reg.timing[c], d)' => Followed(c, d)'
  BY <1>2, <1>8 DEF Meets
<1> QED
  BY <1>4, <1>5, <1>7, <1>9 DEF Running

(* A write: the exclusion monitors.                                        *)
LEMMA WriteExclusive ==
  ASSUME Running, Registered, phase = "run",
         NEW x \in Watched, NEW v, SetBool(x, v)
  PROVE  ExclExact'
<1> DEFINE excl == Monitored(v)
           sets == IF v = 1 THEN meant.hi ELSE IF v = 0 THEN meant.lo ELSE {}
           among(l) == /\ meant.netOf[x] \subseteq l
                       /\ \E y \in DOMAIN val' \ {x} :
                            meant.netOf[y] \subseteq l /\ val'[y] # 1 - v
           reports == x \in reg.special /\ MonitorExcl /\ ~SafeChange(excl, val, x, v)
<1> DEFINE e == Entry(x, v)
<1>1. val' = [val EXCEPT ![x] = v] /\ meant' = meant /\ phase' = "run"
  BY WriteRecords
<1>2. hist' = Append(hist, e) /\ e.x = x /\ e.v = v /\ e.excl = reports
  BY WriteRecords DEF Entry
<1> HIDE DEF e
<1>3. hist' # <<>> /\ Last(hist') = e
  BY <1>2, AppendFacts DEF Running
<1>4. /\ DOMAIN val' = DOMAIN fan
      /\ \A y \in DOMAIN fan \ {x} : val'[y] = val[y]
  BY <1>1 DEF Running
<1>5. Together(excl, sets)
  <2>1. CASE v = 1
    BY <2>1 DEF Registered, Monitored
  <2>2. CASE v = 0
    BY <2>2 DEF Registered, Monitored
  <2>3. CASE v # 0 /\ v # 1
    <3>1. excl = <<>> /\ sets = {} /\ Range(<<>>) = {}
      BY <2>3 DEF Range, Monitored
    <3> QED
      BY <3>1 DEF Together
  <2> QED
    BY <2>1, <2>2, <2>3
<1>6. ExclExact' <=> (e.excl <=> \E l \in sets : among(l))
  <2>1. e.v = v /\ e.x = x
    BY <1>2
  <2>2. ExclExact' <=>
          (e.excl <=> \E l \in IF e.v = 1 THEN meant.hi ELSE IF e.v = 0 THEN meant.lo ELSE {} :
                        /\ meant.netOf[e.x] \subseteq l
                        /\ \E y \in DOMAIN val' \ {e.x} :
                             meant.netOf[y] \subseteq l /\ val'[y] # 1 - e.v)
    BY <1>1, <1>3 DEF ExclExact
  <2> QED
    BY <2>1, <2>2
<1> HIDE DEF excl, sets
<1>7. ASSUME reports PROVE \E l \in sets : among(l)
  <2>1. PICK l \in Range(excl) : x \in Range(l) /\ \E m \in Range(l) \ {x} : val[m] # 1 - v
    BY <1>7 DEF SafeChange
  <2>2. PICK m \in Range(l) \ {x} : val[m] # 1 - v
    BY <2>1
  <2>3. m \in DOMAIN fan \ {x}
    BY <1>5, <2>2 DEF Together
  <2>4. PICK s \in sets : meant.netOf[x] \subseteq s /\ meant.netOf[m] \subseteq s
    BY <1>5, <2>1, <2>2, <2>3 DEF Together
  <2> QED
    BY <1>4, <2>2, <2>3, <2>4
<1>8. ASSUME NEW s \in sets, among(s) PROVE reports
  <2>1. PICK y \in DOMAIN fan \ {x} : meant.netOf[y] \subseteq s /\ val[y] # 1 - v
    BY <1>4, <1>8
  <2>2. PICK l \in Range(excl) : x \in Range(l) /\ y \in Range(l)
    BY <1>5, <1>8, <2>1 DEF Together
  <2>3. ~SafeChange(excl, val, x, v)
    BY <2>1, <2>2 DEF SafeChange
  <2> QED
    BY <1>5, <2>2, <2>3 DEF Together
<1> QED
  BY <1>2, <1>6, <1>7, <1>8

(* All other steps of the run leave the writes alone.                      *)
LEMMA NoWriteKeeps ==
  ASSUME Running, ExclExact, UNCHANGED <<val, watch, hist, meant, fan, reg, phase>>
  PROVE  Running' /\ ExclExact'
<1>1. \A c, d : Meets(c, d)' <=> Meets(c, d)
  BY DEF Meets
<1>2. \A d : Trace(d)' = Trace(d)
  BY DEF Trace, On, Fires
<1>3. \A c, d : Followed(c, d)' <=> Followed(c, d)
  BY <1>2 DEF Followed, Violated
<1>4. Running'
  BY <1>1, <1>3 DEF Running
<1>5. ExclExact'
  BY DEF ExclExact
<1> QED
  BY <1>4, <1>5

LEMMA BeginRunning ==
  ASSUME hist = <<>>, Begin
  PROVE  Running' /\ ExclExact'
<1>1. /\ hist' = <<>> /\ fan' = fan /\ reg' = reg
      /\ val' = [b \in DOMAIN fan |-> X] /\ watch' = [c \in DOMAIN reg.timing |-> Idle]
  BY DEF Begin
<1>2. hist' \in Seq(Range(hist')) /\ Range(hist') = {} /\ Len(hist') = 0
  BY <1>1 DEF Range
<1>3. \A d : Trace(d)'.root = {}
  BY <1>1 DEF Trace
<1>4. \A d : Tracks(Trace(d)', 0, Idle)
  BY <1>3 DEF Tracks, Idle
<1>5. \A c \in DOMAIN reg.timing : \A d : Followed(c, d)'
  BY <1>1, <1>2, <1>4 DEF Followed
<1> QED
  BY <1>1, <1>2, <1>5 DEF Running, ExclExact

LEMMA DesignStep ==
  ASSUME DesignInv, Registered, [Next]_vars
  PROVE  DesignInv'
<1>1. CASE UNCHANGED vars
  <2>1. UNCHANGED <<val, watch, hist, meant, fan, reg, phase, now, resetMode>>
    BY <1>1 DEF vars, evars, rvars
  <2> QED
    BY <2>1, NoWriteKeeps DEF DesignInv
<1>2. CASE Build /\ UNCHANGED rvars
  BY <1>2, BuildPhase DEF rvars, DesignInv
<1>3. CASE Begin
  <2>1. phase # "run" /\ phase' = "run" /\ now' = now /\ resetMode' = resetMode
    BY <1>3 DEF Begin
  <2> QED
    BY <1>3, <2>1, BeginRunning DEF DesignInv
<1>4. ASSUME NEW x \in Watched, NEW v \in Written, SetBool(x, v)
      PROVE  DesignInv'
  <2>1. phase = "run" /\ phase' = phase /\ now' = now /\ resetMode' = resetMode
    BY <1>4 DEF SetBool, evars
  <2>2. Running' /\ ExclExact'
    BY <1>4, <2>1, WriteFollowed, WriteExclusive DEF DesignInv
  <2> QED
    BY <2>1, <2>2 DEF DesignInv
<1>5. CASE Tick \/ EndReset
  <2>1. phase = "run" /\ UNCHANGED <<val, watch, hist, meant, fan, reg, phase>>
    BY <1>5 DEF Tick, EndReset, evars
  <2>2. now' \in Nat
    BY <1>5 DEF Tick, EndReset, DesignInv
  <2>3. resetMode' \in BOOLEAN
    BY <1>5 DEF Tick, EndReset, DesignInv
  <2> QED
    BY <2>1, <2>2, <2>3, NoWriteKeeps DEF DesignInv
<1> QED
  BY <1>1, <1>2, <1>3, <1>4, <1>5 DEF Next

(* In every design that has been registered correctly each constraint is   *)
(* in the state that its trace calls for, whatever is written and when     *)
(* (ActTimingConstraint::update).                                          *)
THEOREM DesignInvariant == Spec /\ []Registered => []DesignInv
<1>1. DesignInit => DesignInv
  BY DEF DesignInit, Init, DesignInv
<1> QED
  BY <1>1, DesignStep, PTL DEF Spec

(* A timing constraint of the design is reported at the writes that        *)
(* violate it and at no other, in every design that has been registered    *)
(* correctly.                                                              *)
THEOREM TimingIsExact == Spec /\ []Registered => []TimingExact
<1>1. DesignInv /\ Registered => TimingExact
  <2> SUFFICES ASSUME DesignInv, Registered, phase = "run" PROVE TimingExact
    BY DEF TimingExact
  <2>1. \A c \in Range(reg.timing) : \E d \in meant.timing : Meets(c, d)
    BY DEF Registered, Range
  <2>2. ASSUME NEW d \in meant.timing
        PROVE  \E c \in DOMAIN reg.timing :
                 /\ Meets(reg.timing[c], d)
                 /\ hist # <<>> => (Violated(d) <=> c \in Last(hist).timing)
    BY DEF Registered, DesignInv, Running, Followed
  <2> QED
    BY <2>1, <2>2 DEF TimingExact
<1> QED
  BY <1>1, DesignInvariant, PTL

(* An exclusion monitor of the design reports the writes that bring two of *)
(* its nodes together, and no other, in every design that has been         *)
(* registered correctly (ActExclMonitor::safeChange).                      *)
THEOREM ExclIsExact == Spec /\ []Registered => []ExclExact
<1>1. DesignInv => ExclExact
  BY DEF DesignInv, ExclExact
<1> QED
  BY <1>1, DesignInvariant, PTL
=============================================================================
