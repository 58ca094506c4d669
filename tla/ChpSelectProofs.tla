-------------------------- MODULE ChpSelectProofs --------------------------
(***************************************************************************)
(* Whatever the guards, the number of threads, channels and variables, and *)
(* the order in which events are delivered: a thread that goes on leaves   *)
(* nothing behind, no channel is claimed twice, and the nameless events of *)
(* the shared variables are enough for the threads that wait for them.     *)
(***************************************************************************)
EXTENDS ChpSelect, SequenceLemmas

SelectTypes ==
  /\ at \in [Thread -> {"select", "blocked", "comm"}]
  /\ stalled \in Seq(Thread) /\ entries \in Nat /\ shared \in Nat
  /\ probe \in [Chan -> Thread \cup {None}] /\ prober \in [Chan -> Thread \cup {None}]
  /\ inProbe \subseteq Thread
  /\ step \in [Thread -> Nat] /\ wake \in [Thread -> Nat]

(* A thread that is not blocked has one event, its own, and no trace in    *)
(* the wait sets.                                                          *)
Going(t) ==
  /\ step[t] = 1 /\ wake[t] = 0
  /\ t \notin inProbe /\ t \notin ToSet(stalled)
  /\ \A c \in Chan : probe[c] # t /\ prober[c] # t

(* A thread that is blocked has claimed the channels of its guards, and    *)
(* waits in c->probe exactly until the event of c->probe is pending.       *)
Waiting(t) ==
  /\ step[t] = 0 /\ wake[t] \in {0, 1} /\ (Probes[t] = {} => wake[t] = 0)
  /\ Reads[t] # {} <=> t \in ToSet(stalled)
  /\ \A c \in Chan : /\ probe[c] = t <=> c \in Probes[t]
                     /\ prober[c] = t => c \in Probes[t]
  /\ t \in inProbe <=> Probes[t] # {} /\ wake[t] = 0

SelectInv ==
  /\ SelectTypes
  /\ NoFailure
  /\ \A t \in Thread : IF at[t] = "blocked" THEN Waiting(t) ELSE Going(t)
  /\ AllDifferent(stalled)
  /\ WriteReachesAll
  /\ EveryStallCounts

-----------------------------------------------------------------------------
LEMMA InitSelect == Init => SelectInv
<1> SUFFICES ASSUME Init PROVE SelectInv
  OBVIOUS
<1>1. stalled = <<>> /\ DOMAIN stalled = {} /\ ToSet(stalled) = {} /\ Len(stalled) = 0
  BY DEF Init, ToSet
<1>2. SelectTypes
  BY <1>1 DEF Init, SelectTypes
<1>3. \A t \in Thread : at[t] # "blocked" /\ Going(t)
  BY <1>1, NoneAssumption DEF Init, Going
<1> QED
  BY <1>1, <1>2, <1>3 DEF Init, SelectInv, NoFailure, AllDifferent, WriteReachesAll,
     EveryStallCounts

(* A channel that t probes is claimed by no other thread, and a channel it *)
(* does not probe is not claimed by t.                                     *)
LEMMA ClaimsApart ==
  ASSUME SelectInv, NEW t \in Thread, NEW c \in Chan
  PROVE  /\ c \in Probes[t] => probe[c] \in {t, None} /\ prober[c] \in {t, None}
         /\ c \notin Probes[t] => probe[c] # t /\ prober[c] # t
         /\ at[t] # "blocked" => probe[c] # t /\ prober[c] # t
<1>1. \A u \in Thread : (probe[c] = u \/ prober[c] = u) => at[u] = "blocked" /\ c \in Probes[u]
  BY DEF SelectInv, Waiting, Going
<1>2. probe[c] \in Thread \cup {None} /\ prober[c] \in Thread \cup {None}
  BY DEF SelectInv, SelectTypes
<1> QED
  BY <1>1, <1>2, ProbersAssumption

(* k, with sh events of the shared variables, is what is left of the wait  *)
(* sets once t has taken back all it registered.                           *)
Freed(t, k, sh) ==
  /\ k.stalled \in Seq(Thread) /\ AllDifferent(k.stalled)
  /\ ToSet(k.stalled) = ToSet(stalled) \ {t}
  /\ k.entries \in Nat /\ sh \in Nat /\ Len(k.stalled) <= k.entries + sh
  /\ \A i \in DOMAIN k.stalled : TrueReads(k.stalled[i]) # {} => i <= sh
  /\ k.probe \in [Chan -> Thread \cup {None}] /\ k.prober \in [Chan -> Thread \cup {None}]
  /\ \A c \in Chan : IF c \in Probes[t] THEN k.probe[c] = None /\ k.prober[c] = None
                     ELSE k.probe[c] = probe[c] /\ k.prober[c] = prober[c]
  /\ k.inProbe = inProbe \ {t}

(* Threads other than the one that is evaluated see no difference.         *)
LEMMA OthersKeep ==
  ASSUME SelectInv, NEW t \in Thread, NEW u \in Thread, u # t,
         at'[u] = at[u], step'[u] = step[u], wake'[u] = wake[u],
         u \in inProbe' <=> u \in inProbe,
         u \in ToSet(stalled') <=> u \in ToSet(stalled),
         \A c \in Chan : IF c \in Probes[t] THEN probe'[c] # u /\ prober'[c] # u
                         ELSE probe'[c] = probe[c] /\ prober'[c] = prober[c]
  PROVE  IF at'[u] = "blocked" THEN Waiting(u)' ELSE Going(u)'
<1>1. \A c \in Chan : (probe'[c] = u <=> probe[c] = u) /\ (prober'[c] = u <=> prober[c] = u)
  <2> SUFFICES ASSUME NEW c \in Chan
               PROVE  (probe'[c] = u <=> probe[c] = u) /\ (prober'[c] = u <=> prober[c] = u)
    OBVIOUS
  <2>1. CASE c \in Probes[t]
    BY <2>1, ClaimsApart, NoneAssumption
  <2>2. CASE c \notin Probes[t]
    BY <2>2
  <2> QED
    BY <2>1, <2>2
<1>2. CASE at[u] = "blocked"
  <2>1. Waiting(u)
    BY <1>2 DEF SelectInv
  <2> QED
    BY <1>1, <1>2, <2>1 DEF Waiting
<1>3. CASE at[u] # "blocked"
  <2>1. Going(u)
    BY <1>3 DEF SelectInv
  <2> QED
    BY <1>1, <1>3, <2>1 DEF Going
<1> QED
  BY <1>2, <1>3

(* Some guard of t is true.                                                *)
LEMMA PassKeeps ==
  ASSUME SelectInv, NEW t \in Thread, NEW k, NEW sh, Freed(t, k, sh), NEW s,
         s = [step EXCEPT ![t] = 0], Pass(t, k, s), wake' = [wake EXCEPT ![t] = 0],
         shared' = sh, x' = x
  PROVE  SelectInv'
<1>1. /\ at' \in [Thread -> {"select", "blocked", "comm"}] /\ at'[t] # "blocked"
      /\ \A u \in Thread : u # t => at'[u] = at[u]
  BY DEF Pass, SelectInv, SelectTypes
<1>2. /\ step' \in [Thread -> Nat] /\ step'[t] = 1 /\ \A u \in Thread : u # t => step'[u] = step[u]
      /\ wake' \in [Thread -> Nat] /\ wake'[t] = 0 /\ \A u \in Thread : u # t => wake'[u] = wake[u]
  BY DEF Pass, SelectInv, SelectTypes
<1>3. /\ stalled' = k.stalled /\ entries' = k.entries /\ probe' = k.probe /\ prober' = k.prober
      /\ inProbe' = k.inProbe /\ failed' = failed
  BY DEF Pass
<1>4. SelectTypes'
  BY <1>1, <1>2, <1>3 DEF SelectTypes, SelectInv, Freed
<1>5. Going(t)'
  <2>1. \A c \in Chan : probe'[c] # t /\ prober'[c] # t
    BY <1>3, ClaimsApart, NoneAssumption DEF Freed
  <2> QED
    BY <1>2, <1>3, <2>1 DEF Going, Freed
<1>6. ASSUME NEW u \in Thread, u # t
      PROVE  IF at'[u] = "blocked" THEN Waiting(u)' ELSE Going(u)'
  <2>1. \A c \in Chan : IF c \in Probes[t] THEN probe'[c] # u /\ prober'[c] # u
                        ELSE probe'[c] = probe[c] /\ prober'[c] = prober[c]
    BY <1>3, NoneAssumption DEF Freed
  <2>2. (u \in inProbe' <=> u \in inProbe) /\ (u \in ToSet(stalled') <=> u \in ToSet(stalled))
    BY <1>3, <1>6 DEF Freed
  <2> QED
    BY <1>1, <1>2, <1>6, <2>1, <2>2, OthersKeep
<1>7. AllDifferent(stalled') /\ WriteReachesAll' /\ EveryStallCounts'
  BY <1>3 DEF Freed, WriteReachesAll, EveryStallCounts, TrueReads
<1>8. \A u \in Thread : IF at'[u] = "blocked" THEN Waiting(u)' ELSE Going(u)'
  BY <1>1, <1>5, <1>6
<1> QED
  BY <1>3, <1>4, <1>7, <1>8 DEF SelectInv, NoFailure

(* None is: t claims its channels, which are free, and goes to the end of  *)
(* _stalled_pc, with an entry of its own.                                  *)
LEMMA StallKeeps ==
  ASSUME SelectInv, NEW t \in Thread, NEW k, NEW sh, Freed(t, k, sh), NEW s,
         s = [step EXCEPT ![t] = 0], Stall(t, k, s), wake' = [wake EXCEPT ![t] = 0],
         shared' = sh, x' = x
  PROVE  SelectInv'
<1>1. /\ at' \in [Thread -> {"select", "blocked", "comm"}] /\ at'[t] = "blocked"
      /\ \A u \in Thread : u # t => at'[u] = at[u]
  BY DEF Stall, SelectInv, SelectTypes
<1>2. /\ step' \in [Thread -> Nat] /\ step'[t] = 0 /\ \A u \in Thread : u # t => step'[u] = step[u]
      /\ wake' \in [Thread -> Nat] /\ wake'[t] = 0 /\ \A u \in Thread : u # t => wake'[u] = wake[u]
  BY DEF Stall, SelectInv, SelectTypes
<1>3. failed' = FALSE
  BY GuardsAssumption DEF Stall, Freed
<1>4. /\ probe' \in [Chan -> Thread \cup {None}] /\ prober' \in [Chan -> Thread \cup {None}]
      /\ \A c \in Chan : IF c \in Probes[t] THEN probe'[c] = t /\ prober'[c] = t
                         ELSE probe'[c] = probe[c] /\ prober'[c] = prober[c]
  BY DEF Stall, Freed
<1>5. inProbe' = IF Probes[t] # {} THEN inProbe \cup {t} ELSE inProbe \ {t}
  BY DEF Stall, Freed
<1>6. /\ stalled' \in Seq(Thread) /\ AllDifferent(stalled') /\ entries' \in Nat
      /\ ToSet(stalled') = IF Reads[t] # {} THEN ToSet(stalled) \cup {t} ELSE ToSet(stalled) \ {t}
      /\ Len(stalled') <= entries' + sh
      /\ \A i \in DOMAIN stalled' : TrueReads(stalled'[i]) # {} => i <= sh
  <2>1. CASE Reads[t] # {}
    <3>1. stalled' = Append(k.stalled, t) /\ entries' = k.entries + 1
      BY <2>1 DEF Stall
    <3>2. t \notin ToSet(k.stalled) /\ k.stalled \in Seq(Thread) /\ AllDifferent(k.stalled)
      BY DEF Freed
    <3>3. /\ stalled' \in Seq(Thread) /\ AllDifferent(stalled')
          /\ ToSet(stalled') = ToSet(k.stalled) \cup {t}
          /\ Len(stalled') = Len(k.stalled) + 1
          /\ \A j \in DOMAIN stalled' :
               IF j \in DOMAIN k.stalled THEN stalled'[j] = k.stalled[j] ELSE stalled'[j] = t
      BY <3>1, <3>2, AppendDifferent
    <3>4. TrueReads(t) = {}
      BY DEF Stall, GuardTrue
    <3>5. \A i \in DOMAIN stalled' : TrueReads(stalled'[i]) # {} => i <= sh
      BY <3>3, <3>4 DEF Freed
    <3>6. entries' \in Nat /\ Len(stalled') <= entries' + sh
      <4>1. /\ Len(k.stalled) \in Nat /\ k.entries \in Nat /\ sh \in Nat
            /\ Len(k.stalled) <= k.entries + sh
        BY DEF Freed
      <4> QED
        BY <3>1, <3>3, <4>1
    <3>7. ToSet(stalled') = ToSet(stalled) \cup {t}
      BY <3>3 DEF Freed
    <3> QED
      BY <2>1, <3>3, <3>5, <3>6, <3>7
  <2>2. CASE Reads[t] = {}
    BY <2>2 DEF Stall, Freed
  <2> QED
    BY <2>1, <2>2
<1>7. SelectTypes'
  BY <1>1, <1>2, <1>4, <1>5, <1>6 DEF SelectTypes, SelectInv, Freed
<1>8. Waiting(t)'
  <2>1. \A c \in Chan : /\ probe'[c] = t <=> c \in Probes[t]
                        /\ prober'[c] = t => c \in Probes[t]
    BY <1>4, ClaimsApart
  <2> QED
    BY <1>2, <1>5, <1>6, <2>1 DEF Waiting
<1>9. ASSUME NEW u \in Thread, u # t
      PROVE  IF at'[u] = "blocked" THEN Waiting(u)' ELSE Going(u)'
  <2>1. (u \in inProbe' <=> u \in inProbe) /\ (u \in ToSet(stalled') <=> u \in ToSet(stalled))
    BY <1>5, <1>6, <1>9
  <2>2. \A c \in Chan : IF c \in Probes[t] THEN probe'[c] # u /\ prober'[c] # u
                        ELSE probe'[c] = probe[c] /\ prober'[c] = prober[c]
    BY <1>4, <1>9
  <2> QED
    BY <1>1, <1>2, <1>9, <2>1, <2>2, OthersKeep
<1>10. WriteReachesAll' /\ EveryStallCounts'
  BY <1>6 DEF WriteReachesAll, EveryStallCounts, TrueReads
<1>11. \A u \in Thread : IF at'[u] = "blocked" THEN Waiting(u)' ELSE Going(u)'
  BY <1>1, <1>8, <1>9
<1> QED
  BY <1>3, <1>6, <1>7, <1>10, <1>11 DEF SelectInv, NoFailure

LEMMA EvaluateKeeps ==
  ASSUME SelectInv, NEW t \in Thread, NEW k, NEW sh, Freed(t, k, sh), NEW s,
         s = [step EXCEPT ![t] = 0], Evaluate(t, k, s), wake' = [wake EXCEPT ![t] = 0],
         shared' = sh, x' = x
  PROVE  SelectInv'
BY PassKeeps, StallKeeps DEF Evaluate

-----------------------------------------------------------------------------
(* The three ways in which the evaluation of a selection begins.           *)
LEMMA PlainEventKeeps ==
  ASSUME SelectInv, NEW t \in Thread, PlainEvent(t) PROVE SelectInv'
<1>1. at[t] = "select" /\ Going(t)
  BY DEF PlainEvent, SelectInv
<1>2. Freed(t, AsTheyAre, shared)
  <2>1. \A c \in Chan : c \in Probes[t] => probe[c] = None /\ prober[c] = None
    BY <1>1, ClaimsApart
  <2> QED
    BY <1>1, <2>1 DEF Freed, AsTheyAre, Going, SelectInv, SelectTypes, EveryStallCounts,
       WriteReachesAll
<1>3. [step EXCEPT ![t] = step[t] - 1] = [step EXCEPT ![t] = 0]
  BY <1>1 DEF Going
<1>4. wake' = [wake EXCEPT ![t] = 0]
  BY <1>1 DEF PlainEvent, Going, SelectInv, SelectTypes
<1>5. Evaluate(t, AsTheyAre, [step EXCEPT ![t] = 0]) /\ shared' = shared /\ x' = x
  BY <1>3 DEF PlainEvent, env
<1> QED
  BY <1>2, <1>4, <1>5, EvaluateKeeps

(* What _add_waitcond (undo) and _remove_me do frees t, when lst is        *)
(* _stalled_pc as it was or without its head.                              *)
LEMMA TakenBackFrees ==
  ASSUME SelectInv, NEW t \in Thread, at[t] = "blocked", NEW lst \in Seq(Thread), NEW sh \in Nat,
         \/ lst = stalled /\ sh = shared
         \/ /\ stalled # <<>> /\ lst = Tail(stalled) /\ t = Head(stalled)
            /\ shared = sh + 1
  PROVE  Freed(t, TakenBack(t, lst), sh)
<1> DEFINE k == TakenBack(t, lst)
<1>1. /\ k.stalled = RemoveFirst(lst, t)
      /\ k.entries = IF t \in ToSet(lst) THEN Minus1(entries) ELSE entries
      /\ k.probe = [c \in Chan |-> IF c \in Probes[t] THEN None ELSE probe[c]]
      /\ k.inProbe = IF \E c \in Probes[t] : probe[c] # None THEN inProbe \ {t} ELSE inProbe
      /\ k.prober = [c \in Chan |-> IF c \in Probes[t] THEN None ELSE prober[c]]
  BY DEF TakenBack
<1> HIDE DEF k
<1>2. /\ k.probe \in [Chan -> Thread \cup {None}] /\ k.prober \in [Chan -> Thread \cup {None}]
      /\ \A c \in Chan : IF c \in Probes[t] THEN k.probe[c] = None /\ k.prober[c] = None
                         ELSE k.probe[c] = probe[c] /\ k.prober[c] = prober[c]
  BY <1>1 DEF SelectInv, SelectTypes
<1>3. k.inProbe = inProbe \ {t}
  <2>1. Waiting(t) /\ Probes[t] \subseteq Chan
    BY GuardsAssumption DEF SelectInv
  <2>2. CASE Probes[t] = {}
    BY <1>1, <2>1, <2>2 DEF Waiting
  <2>3. CASE Probes[t] # {}
    BY <1>1, <2>1, <2>3, NoneAssumption DEF Waiting
  <2> QED
    BY <2>2, <2>3
<1>4. /\ AllDifferent(lst) /\ ToSet(lst) \ {t} = ToSet(stalled) \ {t}
      /\ Len(lst) <= entries + sh
      /\ \A i \in DOMAIN lst : TrueReads(lst[i]) # {} => i <= sh
  <2>1. /\ stalled \in Seq(Thread) /\ AllDifferent(stalled) /\ Len(stalled) \in Nat
        /\ entries \in Nat /\ shared \in Nat /\ Len(stalled) <= entries + shared
        /\ \A i \in DOMAIN stalled : TrueReads(stalled[i]) # {} => i <= shared
    BY DEF SelectInv, SelectTypes, EveryStallCounts, WriteReachesAll
  <2>2. CASE lst = stalled /\ sh = shared
    BY <2>1, <2>2
  <2>3. CASE stalled # <<>> /\ lst = Tail(stalled) /\ t = Head(stalled) /\ shared = sh + 1
    <3>1. /\ Less(lst, stalled, t)
          /\ \A j \in DOMAIN lst : j + 1 \in DOMAIN stalled /\ lst[j] = stalled[j + 1]
      BY <2>1, <2>3, TailLess
    <3>2. Head(stalled) = stalled[1] /\ 1 \in DOMAIN stalled
      BY <2>1, <2>3, HeadTailProperties, EmptySeq
    <3>3. t \in ToSet(stalled)
      BY <2>3, <3>2 DEF ToSet
    <3>4. Len(lst) <= entries + sh
      <4>1. Len(lst) = Len(stalled) - 1
        BY <3>1, <3>3 DEF Less
      <4>2. Len(stalled) <= entries + (sh + 1)
        BY <2>1, <2>3
      <4> QED
        BY <2>1, <4>1, <4>2
    <3>5. \A i \in DOMAIN lst : i \in Nat /\ (TrueReads(lst[i]) # {} => i <= sh)
      BY <2>1, <2>3, <3>1
    <3> QED
      BY <3>1, <3>4, <3>5 DEF Less
  <2> QED
    BY <2>2, <2>3
<1>5. k.stalled \in Seq(Thread) /\ Less(k.stalled, lst, t)
  BY <1>1, <1>4, RemoveFirstLess
<1>6. ToSet(k.stalled) = ToSet(stalled) \ {t}
  BY <1>4, <1>5 DEF Less
<1>7. k.entries \in Nat /\ Len(k.stalled) <= k.entries + sh
  <2>1. entries \in Nat /\ Len(lst) \in Nat
    BY DEF SelectInv, SelectTypes
  <2>2. Len(k.stalled) = IF t \in ToSet(lst) THEN Len(lst) - 1 ELSE Len(lst)
    BY <1>5 DEF Less
  <2> QED
    BY <1>1, <1>4, <2>1, <2>2 DEF Minus1
<1>8. \A i \in DOMAIN k.stalled : TrueReads(k.stalled[i]) # {} => i <= sh
  <2> SUFFICES ASSUME NEW i \in DOMAIN k.stalled, TrueReads(k.stalled[i]) # {}
               PROVE  i <= sh
    OBVIOUS
  <2>1. PICK j \in DOMAIN lst : i <= j /\ k.stalled[i] = lst[j]
    BY <1>5 DEF Less
  <2>2. j <= sh
    BY <1>4, <2>1
  <2>3. i \in Nat /\ j \in Nat
    BY <1>5
  <2> QED
    BY <2>1, <2>2, <2>3
<1>9. AllDifferent(k.stalled)
  BY <1>5 DEF Less
<1> QED
  BY <1>2, <1>3, <1>5, <1>6, <1>7, <1>8, <1>9 DEF Freed, k

LEMMA ProbeEventKeeps ==
  ASSUME SelectInv, NEW t \in Thread, ProbeEvent(t) PROVE SelectInv'
<1>1. at[t] = "blocked" /\ Waiting(t) /\ wake[t] = 1
  BY DEF ProbeEvent, SelectInv, Waiting
<1>2. Freed(t, TakenBack(t, stalled), shared)
  BY <1>1, TakenBackFrees DEF SelectInv, SelectTypes
<1>3. step = [step EXCEPT ![t] = 0]
  BY <1>1 DEF Waiting, SelectInv, SelectTypes
<1>4. wake' = [wake EXCEPT ![t] = 0]
  BY <1>1 DEF ProbeEvent
<1>5. Evaluate(t, TakenBack(t, stalled), step) /\ shared' = shared /\ x' = x
  BY DEF ProbeEvent, env
<1> QED
  BY <1>2, <1>3, <1>4, <1>5, EvaluateKeeps

LEMMA SharedEventKeeps ==
  ASSUME SelectInv, SharedEvent PROVE SelectInv'
<1>1. shared \in Nat /\ shared > 0 /\ shared' = shared - 1 /\ shared' \in Nat /\ shared = shared' + 1
  BY DEF SharedEvent, SelectInv, SelectTypes
<1>2. CASE stalled = <<>>
  <2>1. /\ UNCHANGED <<at, stalled, entries, probe, inProbe, prober, step, wake, failed>>
        /\ DOMAIN stalled = {} /\ Len(stalled) = 0
    BY <1>2 DEF SharedEvent, waits
  <2>2. SelectTypes'
    BY <1>1, <2>1 DEF SelectInv, SelectTypes
  <2>3. \A t \in Thread : IF at'[t] = "blocked" THEN Waiting(t)' ELSE Going(t)'
    BY <2>1 DEF SelectInv, Waiting, Going
  <2>4. WriteReachesAll' /\ EveryStallCounts'
    BY <1>1, <2>1, <2>2 DEF WriteReachesAll, EveryStallCounts, SelectTypes
  <2> QED
    BY <2>1, <2>2, <2>3, <2>4 DEF SelectInv, NoFailure
<1>3. CASE stalled # <<>>
  <2> DEFINE t == Head(stalled)
  <2>1. t \in Thread /\ t \in ToSet(stalled) /\ Tail(stalled) \in Seq(Thread)
    <3>1. Tail(stalled) \in Seq(Thread) /\ Head(stalled) = stalled[1] /\ 1 \in DOMAIN stalled
      BY <1>3, HeadTailProperties, EmptySeq DEF SelectInv, SelectTypes
    <3> QED
      BY <3>1 DEF ToSet, SelectInv, SelectTypes
  <2> HIDE DEF t
  <2>2. at[t] = "blocked" /\ Waiting(t)
    BY <2>1 DEF SelectInv, Going
  <2>3. Freed(t, TakenBack(t, Tail(stalled)), shared')
    BY <1>1, <1>3, <2>1, <2>2, TakenBackFrees DEF t
  <2>4. wake' = Pruned(t) /\ Evaluate(t, TakenBack(t, Tail(stalled)), step) /\ x' = x
    BY <1>3 DEF SharedEvent, env, t
  <2>5. wake' = [wake EXCEPT ![t] = 0]
    <3>1. wake[t] \in {0, 1} /\ wake \in [Thread -> Nat] /\ Probes[t] \subseteq Chan
      BY <2>1, <2>2, GuardsAssumption DEF Waiting, SelectInv, SelectTypes
    <3>2. CASE \E c \in Probes[t] : probe[c] # None
      <4>1. Minus1(wake[t]) = 0
        BY <3>1 DEF Minus1
      <4> QED
        BY <2>4, <3>2, <4>1 DEF Pruned
    <3>3. CASE ~ \E c \in Probes[t] : probe[c] # None
      <4>1. Probes[t] = {}
        BY <2>1, <2>2, <3>1, <3>3, NoneAssumption DEF Waiting
      <4>2. wake[t] = 0
        BY <2>2, <4>1 DEF Waiting
      <4> QED
        BY <2>4, <3>1, <3>3, <4>2 DEF Pruned
    <3> QED
      BY <3>2, <3>3
  <2>6. step = [step EXCEPT ![t] = 0]
    BY <2>1, <2>2 DEF Waiting, SelectInv, SelectTypes
  <2> QED
    BY <2>1, <2>3, <2>4, <2>5, <2>6, EvaluateKeeps
<1> QED
  BY <1>2, <1>3

LEMMA ReceiveKeeps ==
  ASSUME SelectInv, NEW t \in Thread, Receive(t) PROVE SelectInv'
<1>1. /\ at' = [at EXCEPT ![t] = "select"] /\ at[t] = "comm"
      /\ UNCHANGED <<stalled, entries, probe, inProbe, prober, step, wake, shared, x, failed>>
  BY DEF Receive, waits
<1>2. SelectTypes'
  BY <1>1 DEF SelectInv, SelectTypes
<1>3. \A u \in Thread : IF at'[u] = "blocked" THEN Waiting(u)' ELSE Going(u)'
  <2> SUFFICES ASSUME NEW u \in Thread
               PROVE  IF at'[u] = "blocked" THEN Waiting(u)' ELSE Going(u)'
    OBVIOUS
  <2>1. at'[u] = "blocked" <=> at[u] = "blocked"
    BY <1>1 DEF SelectInv, SelectTypes
  <2> QED
    BY <1>1, <2>1 DEF SelectInv, Waiting, Going
<1> QED
  BY <1>1, <1>2, <1>3 DEF SelectInv, NoFailure, WriteReachesAll, EveryStallCounts, TrueReads

(* A write posts an event for each entry, so there is one for every member *)
(* of _stalled_pc, whichever the guards that have become true.             *)
LEMMA WriteKeeps ==
  ASSUME SelectInv, NEW v \in Var, Write(v) PROVE SelectInv'
<1>1. /\ shared' = shared + entries /\ entries' = 0
      /\ UNCHANGED <<at, stalled, probe, inProbe, prober, step, wake, failed>>
  BY DEF Write
<1>2. shared \in Nat /\ entries \in Nat /\ Len(stalled) \in Nat /\ DOMAIN stalled = 1 .. Len(stalled)
      /\ Len(stalled) <= entries + shared
  BY DEF SelectInv, SelectTypes, EveryStallCounts
<1>3. SelectTypes'
  BY <1>1, <1>2 DEF SelectInv, SelectTypes
<1>4. \A u \in Thread : IF at'[u] = "blocked" THEN Waiting(u)' ELSE Going(u)'
  BY <1>1 DEF SelectInv, Waiting, Going
<1>5. WriteReachesAll' /\ EveryStallCounts'
  BY <1>1, <1>2 DEF WriteReachesAll, EveryStallCounts
<1> QED
  BY <1>1, <1>3, <1>4, <1>5 DEF SelectInv, NoFailure

(* The thread that has claimed the channel is woken up once, by the first  *)
(* of the senders it waits for.                                            *)
LEMMA ArriveKeeps ==
  ASSUME SelectInv, NEW c \in Chan, Arrive(c) PROVE SelectInv'
<1>1. UNCHANGED <<at, stalled, entries, probe, step, shared, x, failed>>
  BY DEF Arrive
<1>2. WriteReachesAll' /\ EveryStallCounts' /\ AllDifferent(stalled') /\ NoFailure'
  BY <1>1 DEF SelectInv, WriteReachesAll, EveryStallCounts, TrueReads, NoFailure
<1>3. CASE prober[c] = None
  <2>1. UNCHANGED <<wake, inProbe, prober>>
    BY <1>3 DEF Arrive
  <2>2. \A u \in Thread : IF at'[u] = "blocked" THEN Waiting(u)' ELSE Going(u)'
    BY <1>1, <2>1 DEF SelectInv, Waiting, Going
  <2>3. SelectTypes'
    BY <1>1, <2>1 DEF SelectInv, SelectTypes
  <2> QED
    BY <1>2, <2>2, <2>3 DEF SelectInv
<1>4. CASE prober[c] # None
  <2>1. PICK t \in Thread : t = prober[c]
    BY <1>4 DEF SelectInv, SelectTypes
  <2>2. at[t] = "blocked" /\ Waiting(t) /\ c \in Probes[t] /\ probe[c] = t
    BY <2>1 DEF SelectInv, Going, Waiting
  <2>3. /\ wake' = IF t \in inProbe THEN [wake EXCEPT ![t] = @ + 1] ELSE wake
        /\ inProbe' = inProbe \ {t} /\ prober' = [prober EXCEPT ![c] = None]
    BY <1>4, <2>1, <2>2 DEF Arrive
  <2>4. SelectTypes'
    <3>1. wake' \in [Thread -> Nat]
      BY <2>1, <2>3 DEF SelectInv, SelectTypes
    <3> QED
      BY <1>1, <2>3, <3>1 DEF SelectInv, SelectTypes
  <2>5. Waiting(t)'
    <3>1. wake'[t] \in {0, 1} /\ (Probes[t] = {} => wake'[t] = 0)
          /\ (t \in inProbe' <=> Probes[t] # {} /\ wake'[t] = 0)
      BY <2>1, <2>2, <2>3 DEF Waiting, SelectInv, SelectTypes
    <3>2. \A d \in Chan : prober'[d] = t => d \in Probes[t]
      BY <2>1, <2>2, <2>3, NoneAssumption DEF Waiting, SelectInv, SelectTypes
    <3> QED
      BY <1>1, <2>2, <3>1, <3>2 DEF Waiting
  <2>6. ASSUME NEW u \in Thread, u # t
        PROVE  IF at'[u] = "blocked" THEN Waiting(u)' ELSE Going(u)'
    <3>1. wake'[u] = wake[u] /\ (u \in inProbe' <=> u \in inProbe)
      BY <2>3, <2>6 DEF SelectInv, SelectTypes
    <3>2. \A d \in Chan : prober'[d] = u => prober[d] = u
      BY <2>3, <2>6, NoneAssumption DEF SelectInv, SelectTypes
    <3> QED
      BY <1>1, <3>1, <3>2 DEF SelectInv, Waiting, Going
  <2>7. \A u \in Thread : IF at'[u] = "blocked" THEN Waiting(u)' ELSE Going(u)'
    BY <1>1, <2>2, <2>5, <2>6
  <2> QED
    BY <1>2, <2>4, <2>7 DEF SelectInv
<1> QED
  BY <1>3, <1>4

-----------------------------------------------------------------------------
THEOREM SelectInvariant == Spec => []SelectInv
<1>1. SelectInv /\ [Next]_vars => SelectInv'
  <2> SUFFICES ASSUME SelectInv, [Next]_vars PROVE SelectInv'
    OBVIOUS
  <2>1. ASSUME NEW t \in Thread, PlainEvent(t) PROVE SelectInv'
    BY <2>1, PlainEventKeeps
  <2>2. ASSUME NEW t \in Thread, ProbeEvent(t) PROVE SelectInv'
    BY <2>2, ProbeEventKeeps
  <2>3. ASSUME NEW t \in Thread, Receive(t) PROVE SelectInv'
    BY <2>3, ReceiveKeeps
  <2>4. CASE SharedEvent
    BY <2>4, SharedEventKeeps
  <2>5. ASSUME NEW v \in Var, Write(v) PROVE SelectInv'
    BY <2>5, WriteKeeps
  <2>6. ASSUME NEW c \in Chan, Arrive(c) PROVE SelectInv'
    BY <2>6, ArriveKeeps
  <2>7. CASE UNCHANGED vars
    BY <2>7 DEF vars, waits, env, SelectInv, SelectTypes, NoFailure, Waiting, Going,
       WriteReachesAll, EveryStallCounts, TrueReads
  <2> QED
    BY <2>1, <2>2, <2>3, <2>4, <2>5, <2>6, <2>7 DEF Next
<1> QED
  BY <1>1, InitSelect, PTL DEF Spec

(* The fatal error of a channel that is probed by two is never reached.    *)
THEOREM NeverFails == Spec => []NoFailure
<1>1. SelectInv => NoFailure
  BY DEF SelectInv
<1> QED
  BY <1>1, SelectInvariant, PTL

(* A thread that goes on has taken back all that its selection registered, *)
(* and the event that woke it up is the only one there was for it.         *)
THEOREM NothingIsLeftBehind == Spec => []NothingLeftBehind
<1>1. SelectInv => NothingLeftBehind
  <2> SUFFICES ASSUME SelectInv PROVE NothingLeftBehind
    OBVIOUS
  <2>1. \A t \in Thread : step[t] + wake[t] <= 1
    BY DEF SelectInv, Waiting, Going
  <2> QED
    BY <2>1 DEF SelectInv, NothingLeftBehind, Waiting, Going, AllDifferent
<1> QED
  BY <1>1, SelectInvariant, PTL

(* A write is followed by an event for every thread whose guard it makes   *)
(* true, however many events are spent on threads that stalled after it.   *)
THEOREM WritesReachAll == Spec => []WriteReachesAll
<1>1. SelectInv => WriteReachesAll
  BY DEF SelectInv
<1> QED
  BY <1>1, SelectInvariant, PTL

(* Every thread on _stalled_pc is accounted for by an entry in _shared or  *)
(* by an event on its way.                                                 *)
THEOREM StallsCount == Spec => []EveryStallCounts
<1>1. SelectInv => EveryStallCounts
  BY DEF SelectInv
<1> QED
  BY <1>1, SelectInvariant, PTL
=============================================================================
