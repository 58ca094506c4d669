--------------------------- MODULE SequenceLemmas ---------------------------
(***************************************************************************)
(* Facts about sequences that the proofs of several modules need: lists    *)
(* without duplicates, like _stalled_pc, from which one member is removed  *)
(* or to which one is appended, and removal at a position, as from the     *)
(* event queue.                                                            *)
(***************************************************************************)
EXTENDS Naturals, Sequences, SequencesExt, SequenceTheorems, TLAPS

AllDifferent(s) == \A i, j \in DOMAIN s : s[i] = s[j] => i = j

LEMMA RemoveAtProperties ==
  ASSUME NEW S, NEW s \in Seq(S), NEW i \in 1 .. Len(s)
  PROVE  /\ RemoveAt(s, i) \in Seq(S)
         /\ Len(RemoveAt(s, i)) = Len(s) - 1
         /\ \A j \in 1 .. Len(s) - 1 : RemoveAt(s, i)[j] = s[IF j < i THEN j ELSE j + 1]
<1> DEFINE before == SubSeq(s, 1, i - 1)
           after == SubSeq(s, i + 1, Len(s))
<1>1. Len(s) \in Nat /\ i \in Nat /\ 1 <= i /\ i <= Len(s)
  OBVIOUS
<1>2. before \in Seq(S) /\ Len(before) = i - 1 /\ \A j \in 1 .. i - 1 : before[j] = s[j]
  BY <1>1
<1>3. after \in Seq(S) /\ Len(after) = Len(s) - i /\ \A j \in 1 .. Len(s) - i : after[j] = s[i + j]
  BY <1>1
<1> HIDE DEF before, after
<1>4. /\ before \o after \in Seq(S)
      /\ Len(before \o after) = Len(s) - 1
      /\ \A j \in 1 .. Len(s) - 1 :
           (before \o after)[j] = IF j <= i - 1 THEN before[j] ELSE after[j - (i - 1)]
  <2>1. /\ before \o after \in Seq(S) /\ Len(before \o after) = Len(before) + Len(after)
        /\ \A j \in 1 .. Len(before) + Len(after) :
             (before \o after)[j] = IF j <= Len(before) THEN before[j]
                                    ELSE after[j - Len(before)]
    BY <1>2, <1>3, ConcatProperties
  <2>2. Len(before) + Len(after) = Len(s) - 1
    BY <1>1, <1>2, <1>3
  <2> QED
    BY <1>2, <2>1, <2>2
<1>5. ASSUME NEW j \in 1 .. Len(s) - 1
      PROVE  (before \o after)[j] = s[IF j < i THEN j ELSE j + 1]
  <2>1. CASE j < i
    BY <1>1, <1>2, <1>4, <2>1
  <2>2. CASE ~(j < i)
    <3>1. j - (i - 1) \in 1 .. Len(s) - i /\ i + (j - (i - 1)) = j + 1 /\ ~(j <= i - 1)
      BY <1>1, <2>2
    <3> QED
      BY <1>3, <1>4, <2>2, <3>1
  <2> QED
    BY <2>1, <2>2
<1> QED
  BY <1>4, <1>5 DEF RemoveAt, before, after

LEMMA RemoveFirstIsRemoveAt ==
  ASSUME NEW S, NEW s \in Seq(S), AllDifferent(s), NEW i \in 1 .. Len(s)
  PROVE  RemoveFirst(s, s[i]) = RemoveAt(s, i)
<1> DEFINE I == {j \in 1 .. Len(s) : s[j] = s[i]}
<1>1. I = {i}
  BY DEF AllDifferent
<1>2. Min(I) = i
  BY <1>1 DEF Min
<1>3. SelectInSeq(s, LAMBDA v : v = s[i]) = i
  BY <1>1, <1>2 DEF SelectInSeq
<1> QED
  BY <1>3 DEF RemoveFirst

(* Less(r, s, e): r is s without e, in the same order. *)
Less(r, s, e) ==
  /\ AllDifferent(r)
  /\ ToSet(r) = ToSet(s) \ {e}
  /\ Len(r) = IF e \in ToSet(s) THEN Len(s) - 1 ELSE Len(s)
  /\ \A j \in DOMAIN r : \E i \in DOMAIN s : j <= i /\ r[j] = s[i]

LEMMA RemoveAtLess ==
  ASSUME NEW S, NEW s \in Seq(S), AllDifferent(s), NEW i \in 1 .. Len(s), NEW r \in Seq(S),
         Len(r) = Len(s) - 1,
         \A j \in 1 .. Len(s) - 1 : r[j] = s[IF j < i THEN j ELSE j + 1]
  PROVE  Less(r, s, s[i])
<1>1. Len(s) \in Nat /\ Len(r) \in Nat /\ DOMAIN s = 1 .. Len(s) /\ DOMAIN r = 1 .. Len(r)
  OBVIOUS
<1> DEFINE old(j) == IF j < i THEN j ELSE j + 1
<1>2. \A j \in DOMAIN r : old(j) \in DOMAIN s /\ old(j) # i /\ j <= old(j) /\ r[j] = s[old(j)]
  BY <1>1
<1>3. \A j, k \in DOMAIN r : old(j) = old(k) => j = k
  BY <1>1
<1>4. \A k \in DOMAIN s : k # i => \E j \in DOMAIN r : old(j) = k
  <2> SUFFICES ASSUME NEW k \in DOMAIN s, k # i PROVE \E j \in DOMAIN r : old(j) = k
    OBVIOUS
  <2>1. CASE k < i
    BY <1>1, <2>1
  <2>2. CASE k > i
    <3>1. k - 1 \in DOMAIN r /\ old(k - 1) = k
      BY <1>1, <2>2
    <3> QED
      BY <3>1
  <2> QED
    BY <1>1, <2>1, <2>2
<1> HIDE DEF old
<1>5. AllDifferent(r)
  BY <1>2, <1>3 DEF AllDifferent
<1>6. ToSet(r) = ToSet(s) \ {s[i]}
  BY <1>1, <1>2, <1>4 DEF ToSet, AllDifferent
<1>7. s[i] \in ToSet(s)
  BY <1>1 DEF ToSet
<1> QED
  BY <1>2, <1>5, <1>6, <1>7 DEF Less

LEMMA RemoveFirstLess ==
  ASSUME NEW S, NEW s \in Seq(S), AllDifferent(s), NEW e
  PROVE  RemoveFirst(s, e) \in Seq(S) /\ Less(RemoveFirst(s, e), s, e)
<1>1. CASE e \in ToSet(s)
  <2>1. PICK i \in 1 .. Len(s) : s[i] = e
    BY <1>1 DEF ToSet
  <2>2. RemoveFirst(s, e) = RemoveAt(s, i)
    BY <2>1, RemoveFirstIsRemoveAt
  <2> QED
    BY <2>1, <2>2, RemoveAtProperties, RemoveAtLess
<1>2. CASE e \notin ToSet(s)
  <2>1. RemoveFirst(s, e) = s
    BY <1>2 DEF RemoveFirst, ToSet
  <2>2. Len(s) \in Nat /\ DOMAIN s = 1 .. Len(s)
    OBVIOUS
  <2>3. \A j \in DOMAIN s : \E i \in DOMAIN s : j <= i /\ s[j] = s[i]
    BY <2>2
  <2> QED
    BY <1>2, <2>1, <2>3 DEF Less
<1> QED
  BY <1>1, <1>2

LEMMA TailLess ==
  ASSUME NEW S, NEW s \in Seq(S), AllDifferent(s), s # <<>>
  PROVE  /\ Tail(s) \in Seq(S) /\ Less(Tail(s), s, Head(s))
         /\ \A j \in DOMAIN Tail(s) : j + 1 \in DOMAIN s /\ Tail(s)[j] = s[j + 1]
<1>1. /\ Tail(s) \in Seq(S) /\ Len(Tail(s)) = Len(s) - 1 /\ Head(s) = s[1]
      /\ 1 \in 1 .. Len(s) /\ \A j \in 1 .. Len(s) - 1 : Tail(s)[j] = s[j + 1]
  BY HeadTailProperties, EmptySeq
<1>2. \A j \in 1 .. Len(s) - 1 : Tail(s)[j] = s[IF j < 1 THEN j ELSE j + 1]
  BY <1>1
<1>3. Less(Tail(s), s, Head(s))
  BY <1>1, <1>2, RemoveAtLess
<1> QED
  BY <1>1, <1>3

LEMMA AppendDifferent ==
  ASSUME NEW S, NEW s \in Seq(S), AllDifferent(s), NEW e \in S, e \notin ToSet(s)
  PROVE  /\ Append(s, e) \in Seq(S) /\ AllDifferent(Append(s, e))
         /\ ToSet(Append(s, e)) = ToSet(s) \cup {e}
         /\ Len(Append(s, e)) = Len(s) + 1
         /\ \A j \in DOMAIN Append(s, e) :
              IF j \in DOMAIN s THEN Append(s, e)[j] = s[j] ELSE Append(s, e)[j] = e
<1>1. /\ Append(s, e) \in Seq(S) /\ Len(Append(s, e)) = Len(s) + 1 /\ Len(s) \in Nat
      /\ \A j \in 1 .. Len(s) : Append(s, e)[j] = s[j]
      /\ Append(s, e)[Len(s) + 1] = e
      /\ DOMAIN s = 1 .. Len(s) /\ DOMAIN Append(s, e) = 1 .. Len(s) + 1
  BY AppendProperties
<1> DEFINE r == Append(s, e)
<1> HIDE DEF r
<1>2. \A j \in DOMAIN r : j \in DOMAIN s \/ j = Len(s) + 1
  BY <1>1 DEF r
<1>3. \A j \in DOMAIN s : s[j] # e
  BY DEF ToSet
<1>4. AllDifferent(r)
  BY <1>1, <1>2, <1>3 DEF AllDifferent, r
<1>5. ToSet(r) = ToSet(s) \cup {e}
  <2>1. DOMAIN s \subseteq DOMAIN r /\ Len(s) + 1 \in DOMAIN r
    BY <1>1 DEF r
  <2> QED
    BY <1>1, <1>2, <2>1 DEF ToSet, r
<1> QED
  BY <1>1, <1>2, <1>4, <1>5 DEF r
=============================================================================
