-------------------------- MODULE ChpFragmentProofs --------------------------
(***************************************************************************)
(* First, whatever the methods of the channel type do, and however long    *)
(* the circuit takes: the stalled threads, their entries in _shared and    *)
(* the events on their way match one for one, and the flavour checks of    *)
(* varSend and varRecv are never failed.  What the methods themselves      *)
(* compute is not used there: d below stands for any result of theirs.     *)
(* Then, for channel types with four-phase methods (FourPhaseType): the    *)
(* wires keep to the protocol, probes tell the truth, and the two threads  *)
(* have the rendezvous of a channel of slack zero.                         *)
(***************************************************************************)
EXTENDS ChpFragment, SequenceLemmas, FiniteSetTheorems

FragmentTypes ==
  /\ config \in Config
  /\ useFlavors \in [Chan -> BOOLEAN] /\ flavor \in [Chan -> {0, 1}]
  /\ at \in [Thread -> {"probe", "whole", "plus", "minus", "end"}]
  /\ stalled \in Seq(Thread) /\ entries \in Nat /\ shared \in Nat
  /\ plain \subseteq Thread

(* Only the threads that use the two halves of a communication leave a     *)
(* flavour behind.                                                         *)
FlavorsUsed ==
  /\ \A t \in Thread : /\ at[t] = "whole" => ~config.halves[t]
                       /\ at[t] \in {"plus", "minus"} => config.halves[t]
                       /\ useFlavors[On[t]] => config.halves[t]
  /\ \A c \in Chan : flavor[c] = 1 => useFlavors[c]

(* The flavour is that of the last half that was begun: a thread that is   *)
(* about to begin one finds the other, a thread that is waiting in one     *)
(* finds its own.                                                          *)
Alternates ==
  \A t \in Thread :
    /\ t \in plain => flavor[On[t]] = (IF at[t] = "minus" THEN 1 ELSE 0)
    /\ t \in ToSet(stalled) => flavor[On[t]] = (IF at[t] = "plus" THEN 1 ELSE 0)

FragmentInv ==
  /\ FragmentTypes
  /\ AllDifferent(stalled)
  /\ OneWakeEach
  /\ FlavorsUsed
  /\ Alternates

-----------------------------------------------------------------------------
LEMMA OnTypes ==
  \A t \in Thread : On[t] \in Chan /\ \A u \in Thread : On[t] = On[u] => t = u
BY DEF On, Thread, Chan

LEMMA InitFragment == Init => FragmentInv
<1> SUFFICES ASSUME Init PROVE FragmentInv
  OBVIOUS
<1>1. stalled = <<>> /\ DOMAIN stalled = {} /\ ToSet(stalled) = {} /\ Len(stalled) = 0
  BY DEF Init, ToSet
<1>2. \A t \in Thread : /\ at[t] \in {"probe", "whole", "plus"}
                        /\ at[t] = "whole" => ~config.halves[t]
                        /\ at[t] = "plus" => config.halves[t]
  BY DEF Init, First, Config
<1>3. FragmentTypes
  BY <1>1, <1>2 DEF Init, FragmentTypes
<1>4. FlavorsUsed
  BY <1>2, OnTypes DEF Init, FlavorsUsed
<1>5. Alternates
  BY <1>1, <1>2, OnTypes DEF Init, Alternates
<1> QED
  BY <1>1, <1>3, <1>4, <1>5 DEF Init, FragmentInv, OneWakeEach, AllDifferent

(* boolProp moves entries to the queue and loses none.                     *)
LEMMA BoolPropKeeps ==
  ASSUME NEW ch, NEW sh \in Nat, NEW e \in Nat
  PROVE  LET w == boolProp(ch, [shared |-> sh, entries |-> e]) IN
         w.shared \in Nat /\ w.entries \in Nat /\ w.entries + w.shared = e + sh
BY DEF boolProp

(* What a thread that is run finds: lst and sh are _stalled_pc and the     *)
(* events left when it has been taken out of the one or the other.         *)
Woken(t, wakeup, lst, sh) ==
  /\ lst \in Seq(Thread) /\ AllDifferent(lst)
  /\ ToSet(lst) = ToSet(stalled) \ {t}
  /\ sh \in Nat /\ Len(lst) = entries + sh
  /\ wakeup \in BOOLEAN
  /\ IF wakeup THEN t \in ToSet(stalled) ELSE t \in plain

(* It goes on _stalled_pc, with an entry of its own, or not.               *)
LEMMA BlockedKeeps ==
  ASSUME NEW t \in Thread, NEW wakeup, NEW lst, NEW sh, Woken(t, wakeup, lst, sh),
         NEW w, w.shared \in Nat, w.entries \in Nat, w.entries + w.shared = entries + sh,
         Blocked(t, w, lst)
  PROVE  /\ stalled' \in Seq(Thread) /\ AllDifferent(stalled')
         /\ ToSet(stalled') = ToSet(stalled) \cup {t}
         /\ entries' \in Nat /\ shared' \in Nat /\ Len(stalled') = entries' + shared'
<1>1. /\ stalled' = Append(lst, t) /\ entries' = w.entries + 1 /\ shared' = w.shared
      /\ t \notin ToSet(lst) /\ Len(lst) \in Nat /\ lst \in Seq(Thread) /\ AllDifferent(lst)
      /\ ToSet(lst) = ToSet(stalled) \ {t} /\ Len(lst) = w.entries + w.shared
  BY DEF Blocked, Woken
<1>2. /\ stalled' \in Seq(Thread) /\ AllDifferent(stalled') /\ ToSet(stalled') = ToSet(lst) \cup {t}
      /\ Len(stalled') = Len(lst) + 1
  BY <1>1, AppendDifferent
<1>3. ToSet(stalled') = ToSet(stalled) \cup {t}
  BY <1>1, <1>2
<1> QED
  BY <1>1, <1>2, <1>3

LEMMA NotBlockedKeeps ==
  ASSUME NEW t \in Thread, NEW wakeup, NEW lst, NEW sh, Woken(t, wakeup, lst, sh),
         NEW w, w.shared \in Nat, w.entries \in Nat, w.entries + w.shared = entries + sh,
         NotBlocked(t, w, lst)
  PROVE  /\ stalled' \in Seq(Thread) /\ AllDifferent(stalled')
         /\ ToSet(stalled') = ToSet(stalled) \ {t}
         /\ entries' \in Nat /\ shared' \in Nat /\ Len(stalled') = entries' + shared'
BY DEF NotBlocked, Woken

(* The flavours of the channel that t is on.                               *)
LEMMA FlavorFacts ==
  ASSUME FragmentInv, NEW t \in Thread, NEW wakeup, NEW lst, NEW sh, Woken(t, wakeup, lst, sh),
         at[t] \in {"whole", "plus", "minus"}
  PROVE  /\ ~FlavorError(t, wakeup)
         /\ FlavorAfter(t, wakeup) = IF at[t] = "plus" THEN 1 ELSE 0
<1> DEFINE c == On[t]
<1>1. c \in Chan /\ flavor[c] \in {0, 1} /\ useFlavors[c] \in BOOLEAN /\ wakeup \in BOOLEAN
      /\ FlavorNow(c) = flavor[c]
  BY OnTypes DEF FragmentInv, FragmentTypes, FlavorsUsed, FlavorNow, Woken
<1>2. useFlavors[c] => at[t] # "whole"
  BY DEF FragmentInv, FlavorsUsed
<1>3. /\ wakeup => flavor[c] = (IF at[t] = "plus" THEN 1 ELSE 0)
      /\ ~wakeup => flavor[c] = (IF at[t] = "minus" THEN 1 ELSE 0)
  BY DEF FragmentInv, Alternates, Woken
<1>4. CASE at[t] = "whole"
  BY <1>1, <1>2, <1>3, <1>4 DEF FlavorError, FlavorAfter, Sign
<1>5. CASE at[t] = "plus"
  BY <1>1, <1>3, <1>5 DEF FlavorError, FlavorAfter, Sign
<1>6. CASE at[t] = "minus"
  BY <1>1, <1>3, <1>6 DEF FlavorError, FlavorAfter, Sign
<1> QED
  BY <1>4, <1>5, <1>6

(* Where t goes next, and what it will find there.                         *)
LEMMA AfterFacts ==
  ASSUME FragmentInv, NEW t \in Thread, at[t] \in {"probe", "whole", "plus", "minus"}
  PROVE  LET next == After(t, at[t]) IN
         /\ next \in {"probe", "whole", "plus", "minus", "end"}
         /\ next = "whole" => ~config.halves[t]
         /\ next \in {"plus", "minus"} => config.halves[t]
         /\ next = "minus" <=> at[t] = "plus"
<1>1. config.halves[t] \in BOOLEAN /\ config.probing \in BOOLEAN
  BY DEF FragmentInv, FragmentTypes, Config
<1>2. at[t] = "plus" => config.halves[t]
  BY DEF FragmentInv, FlavorsUsed
<1> QED
  BY <1>1, <1>2 DEF After, First

(* The rest of the invariant, once t has been run and its channel has the  *)
(* flavour f.                                                              *)
LEMMA RunKeeps ==
  ASSUME FragmentInv, NEW t \in Thread, config' = config, ~failed',
         stalled' \in Seq(Thread), AllDifferent(stalled'), entries' \in Nat, shared' \in Nat,
         Len(stalled') = entries' + shared',
         ToSet(stalled') \in {ToSet(stalled) \ {t}, ToSet(stalled) \cup {t}},
         plain' \in {plain \ {t}, plain \cup {t}},
         t \notin ToSet(stalled') \cap plain',
         at' = [at EXCEPT ![t] = at'[t]], at'[t] \in {"probe", "whole", "plus", "minus", "end"},
         at'[t] = "whole" => ~config.halves[t],
         at'[t] \in {"plus", "minus"} => config.halves[t],
         NEW used \in BOOLEAN, useFlavors' = [useFlavors EXCEPT ![On[t]] = used],
         NEW f \in {0, 1}, flavor' = [flavor EXCEPT ![On[t]] = f],
         used => config.halves[t], f = 1 => used,
         t \in plain' => f = IF at'[t] = "minus" THEN 1 ELSE 0,
         t \in ToSet(stalled') => f = IF at'[t] = "plus" THEN 1 ELSE 0
  PROVE  FragmentInv'
<1>1. FragmentTypes'
  BY OnTypes DEF FragmentInv, FragmentTypes
<1>2. OneWakeEach'
  BY DEF FragmentInv, OneWakeEach
<1>3. On[t] \in Chan /\ useFlavors'[On[t]] = used /\ flavor'[On[t]] = f
  BY OnTypes DEF FragmentInv, FragmentTypes
<1>4. ASSUME NEW u \in Thread, u # t
      PROVE  /\ at'[u] = at[u] /\ useFlavors'[On[u]] = useFlavors[On[u]]
             /\ flavor'[On[u]] = flavor[On[u]] /\ (u \in plain' <=> u \in plain)
             /\ (u \in ToSet(stalled') <=> u \in ToSet(stalled))
  <2>1. On[u] \in Chan /\ On[u] # On[t]
    BY <1>4, OnTypes
  <2> QED
    BY <1>4, <2>1 DEF FragmentInv, FragmentTypes
<1>5. FlavorsUsed'
  <2>1. \A u \in Thread : /\ at'[u] = "whole" => ~config.halves[u]
                          /\ at'[u] \in {"plus", "minus"} => config.halves[u]
                          /\ useFlavors'[On[u]] => config.halves[u]
    BY <1>3, <1>4 DEF FragmentInv, FlavorsUsed
  <2>2. \A c \in Chan : flavor'[c] = 1 => useFlavors'[c]
    BY <1>3 DEF FragmentInv, FlavorsUsed, FragmentTypes
  <2> QED
    BY <2>1, <2>2 DEF FlavorsUsed
<1>6. Alternates'
  <2> SUFFICES ASSUME NEW u \in Thread
               PROVE  /\ u \in plain' => flavor'[On[u]] = IF at'[u] = "minus" THEN 1 ELSE 0
                      /\ u \in ToSet(stalled') => flavor'[On[u]] = IF at'[u] = "plus" THEN 1 ELSE 0
    BY DEF Alternates
  <2>1. CASE u = t
    BY <1>3, <2>1
  <2>2. CASE u # t
    BY <1>4, <2>2 DEF FragmentInv, Alternates
  <2> QED
    BY <2>1, <2>2
<1> QED
  BY <1>1, <1>2, <1>5, <1>6 DEF FragmentInv

(* varSend and varRecv: whatever the methods have done (d), the thread is  *)
(* on _stalled_pc, or has an event, or has ended.                          *)
LEMMA CommWithKeeps ==
  ASSUME FragmentInv, NEW t \in Thread, NEW wakeup, NEW lst, NEW sh, Woken(t, wakeup, lst, sh),
         at[t] \in {"whole", "plus", "minus"}, ~failed', config' = config,
         NEW v, NEW d, CommWith(t, v, wakeup, lst, sh, d)
  PROVE  FragmentInv'
<1> DEFINE w == boolProp(d.run.changed, [shared |-> sh, entries |-> entries])
           f == FlavorAfter(t, wakeup)
           used == useFlavors[On[t]] \/ Sign(t) # 0
<1>1. w.shared \in Nat /\ w.entries \in Nat /\ w.entries + w.shared = entries + sh
  BY BoolPropKeeps DEF Woken, FragmentInv, FragmentTypes
<1>2. f = IF at[t] = "plus" THEN 1 ELSE 0
  BY FlavorFacts
<1>3. used \in BOOLEAN /\ (used => config.halves[t]) /\ (f = 1 => used)
  BY <1>2 DEF FragmentInv, FlavorsUsed, Sign
<1>4. useFlavors' = [useFlavors EXCEPT ![On[t]] = used] /\ flavor' = [flavor EXCEPT ![On[t]] = f]
  BY OnTypes DEF CommWith, FragmentInv, FragmentTypes
<1>5. plain' = IF d.end = "done" /\ at'[t] # "end" THEN plain \cup {t} ELSE plain \ {t}
  BY DEF CommWith
<1>6. CASE d.end = "blocked"
  <2>1. Blocked(t, w, lst) /\ at' = at
    BY <1>6 DEF CommWith
  <2>2. /\ stalled' \in Seq(Thread) /\ AllDifferent(stalled')
        /\ ToSet(stalled') = ToSet(stalled) \cup {t}
        /\ entries' \in Nat /\ shared' \in Nat /\ Len(stalled') = entries' + shared'
    BY <1>1, <2>1, BlockedKeeps
  <2>3. plain' = plain \ {t}
    BY <1>5, <1>6
  <2>4. at' = [at EXCEPT ![t] = at'[t]] /\ at'[t] = at[t]
    BY <2>1 DEF FragmentInv, FragmentTypes
  <2>5. /\ at'[t] = "whole" => ~config.halves[t]
        /\ at'[t] \in {"plus", "minus"} => config.halves[t]
    BY <2>4 DEF FragmentInv, FlavorsUsed
  <2>6. f \in {0, 1} /\ t \notin plain' /\ f = IF at'[t] = "plus" THEN 1 ELSE 0
    BY <1>2, <2>3, <2>4
  <2> HIDE DEF f, used, w
  <2> QED
    BY <1>3, <1>4, <2>2, <2>3, <2>4, <2>5, <2>6, RunKeeps
<1>7. CASE d.end # "blocked"
  <2>1. NotBlocked(t, w, lst) /\ at' = [at EXCEPT ![t] = After(t, at[t])]
    BY <1>7 DEF CommWith
  <2>2. /\ stalled' \in Seq(Thread) /\ AllDifferent(stalled')
        /\ ToSet(stalled') = ToSet(stalled) \ {t}
        /\ entries' \in Nat /\ shared' \in Nat /\ Len(stalled') = entries' + shared'
    BY <1>1, <2>1, NotBlockedKeeps
  <2>3. at' = [at EXCEPT ![t] = at'[t]] /\ at'[t] = After(t, at[t])
    BY <2>1 DEF FragmentInv, FragmentTypes
  <2>4. /\ at'[t] \in {"probe", "whole", "plus", "minus", "end"}
        /\ at'[t] = "whole" => ~config.halves[t]
        /\ at'[t] \in {"plus", "minus"} => config.halves[t]
        /\ at'[t] = "minus" <=> at[t] = "plus"
    BY <2>3, AfterFacts
  <2>5. f \in {0, 1} /\ f = (IF at'[t] = "minus" THEN 1 ELSE 0) /\ t \notin ToSet(stalled')
    BY <1>2, <2>2, <2>4
  <2> HIDE DEF f, used, w
  <2> QED
    BY <1>3, <1>4, <1>5, <2>2, <2>3, <2>4, <2>5, RunKeeps
<1> QED
  BY <1>6, <1>7

LEMMA CommKeeps ==
  ASSUME FragmentInv, NEW t \in Thread, NEW wakeup, NEW lst, NEW sh, Woken(t, wakeup, lst, sh),
         config' = config, Comm(t, wakeup, lst, sh)
  PROVE  FragmentInv'
<1>1. at[t] \in {"whole", "plus", "minus"} /\ failed' = FlavorError(t, wakeup)
  BY DEF Comm
<1>2. PICK v : CommWith(t, v, wakeup, lst, sh, Result(t, v, wakeup))
  BY DEF Comm
<1>3. ~failed'
  BY <1>1, FlavorFacts
<1> QED
  BY <1>1, <1>2, <1>3, CommWithKeeps

LEMMA ProbeKeeps ==
  ASSUME FragmentInv, NEW t \in Thread, NEW wakeup, NEW lst, NEW sh, Woken(t, wakeup, lst, sh),
         config' = config, Probe(t, lst, sh)
  PROVE  FragmentInv'
<1> DEFINE w == [shared |-> sh, entries |-> entries]
           f == flavor[On[t]]
           used == useFlavors[On[t]]
<1>1. w.shared \in Nat /\ w.entries \in Nat /\ w.entries + w.shared = entries + sh
  BY DEF Woken, FragmentInv, FragmentTypes
<1>2. at[t] = "probe" /\ f = 0 /\ ~failed'
  BY DEF Probe, FragmentInv, Alternates, Woken, OneWakeEach
<1>3. /\ used \in BOOLEAN /\ (used => config.halves[t])
      /\ useFlavors' = [useFlavors EXCEPT ![On[t]] = used] /\ flavor' = [flavor EXCEPT ![On[t]] = f]
  BY OnTypes DEF Probe, channel, FragmentInv, FragmentTypes, FlavorsUsed
<1>4. CASE runProbe(RecvProbe, StateOf("R", 0))
  <2>1. NotBlocked(t, w, lst) /\ at' = [at EXCEPT ![t] = After(t, at[t])] /\ plain' = plain \cup {t}
    BY <1>4 DEF Probe
  <2>2. /\ stalled' \in Seq(Thread) /\ AllDifferent(stalled')
        /\ ToSet(stalled') = ToSet(stalled) \ {t}
        /\ entries' \in Nat /\ shared' \in Nat /\ Len(stalled') = entries' + shared'
    BY <1>1, <2>1, NotBlockedKeeps
  <2>3. at' = [at EXCEPT ![t] = at'[t]] /\ at'[t] = After(t, at[t])
    BY <2>1 DEF FragmentInv, FragmentTypes
  <2>4. /\ at'[t] \in {"probe", "whole", "plus", "minus", "end"}
        /\ at'[t] = "whole" => ~config.halves[t]
        /\ at'[t] \in {"plus", "minus"} => config.halves[t]
        /\ at'[t] # "minus"
    BY <1>2, <2>3, AfterFacts
  <2>5. /\ f \in {0, 1} /\ f = (IF at'[t] = "minus" THEN 1 ELSE 0) /\ (f = 1 => used)
        /\ t \notin ToSet(stalled')
    BY <1>2, <2>2, <2>4
  <2> HIDE DEF f, used, w
  <2> QED
    BY <1>2, <1>3, <2>1, <2>2, <2>3, <2>4, <2>5, RunKeeps
<1>5. CASE ~runProbe(RecvProbe, StateOf("R", 0))
  <2>1. Blocked(t, w, lst) /\ at' = at /\ plain' = plain \ {t}
    BY <1>5 DEF Probe
  <2>2. /\ stalled' \in Seq(Thread) /\ AllDifferent(stalled')
        /\ ToSet(stalled') = ToSet(stalled) \cup {t}
        /\ entries' \in Nat /\ shared' \in Nat /\ Len(stalled') = entries' + shared'
    BY <1>1, <2>1, BlockedKeeps
  <2>3. at' = [at EXCEPT ![t] = at'[t]] /\ at'[t] = "probe"
    BY <1>2, <2>1 DEF FragmentInv, FragmentTypes
  <2>4. /\ f \in {0, 1} /\ f = (IF at'[t] = "plus" THEN 1 ELSE 0) /\ (f = 1 => used)
        /\ t \notin plain'
    BY <1>2, <2>1, <2>3
  <2> HIDE DEF f, used, w
  <2> QED
    BY <1>2, <1>3, <2>1, <2>2, <2>3, <2>4, RunKeeps
<1> QED
  BY <1>4, <1>5

-----------------------------------------------------------------------------
LEMMA PlainWoken ==
  ASSUME FragmentInv, NEW t \in Thread, PlainEvent(t)
  PROVE  Woken(t, FALSE, stalled, shared)
BY DEF PlainEvent, Woken, FragmentInv, FragmentTypes, OneWakeEach

LEMMA SharedWoken ==
  ASSUME FragmentInv, SharedEvent
  PROVE  \E t \in Thread :
           /\ Woken(t, TRUE, Tail(stalled), shared - 1)
           /\ Comm(t, TRUE, Tail(stalled), shared - 1) \/ Probe(t, Tail(stalled), shared - 1)
<1>1. /\ stalled \in Seq(Thread) /\ AllDifferent(stalled) /\ stalled # <<>> /\ Len(stalled) \in Nat
      /\ entries \in Nat /\ shared \in Nat /\ shared > 0 /\ Len(stalled) = entries + shared
  BY DEF SharedEvent, FragmentInv, FragmentTypes, OneWakeEach
<1>2. PICK t : /\ t = Head(stalled)
               /\ Comm(t, TRUE, Tail(stalled), shared - 1) \/ Probe(t, Tail(stalled), shared - 1)
  BY DEF SharedEvent
<1>3. /\ Tail(stalled) \in Seq(Thread) /\ Less(Tail(stalled), stalled, t)
      /\ t \in Thread /\ t \in ToSet(stalled)
  <2>1. Tail(stalled) \in Seq(Thread) /\ Less(Tail(stalled), stalled, t)
    BY <1>1, <1>2, TailLess
  <2>2. t = stalled[1] /\ 1 \in DOMAIN stalled
    BY <1>1, <1>2, HeadTailProperties, EmptySeq
  <2> QED
    BY <1>1, <2>1, <2>2 DEF ToSet
<1>4. Woken(t, TRUE, Tail(stalled), shared - 1)
  <2>1. Len(Tail(stalled)) = Len(stalled) - 1
    BY <1>3 DEF Less
  <2>2. shared - 1 \in Nat /\ Len(Tail(stalled)) = entries + (shared - 1)
    BY <1>1, <2>1
  <2> QED
    BY <1>3, <2>2 DEF Woken, Less
<1> QED
  BY <1>2, <1>3, <1>4

LEMMA PlainEventKeeps ==
  ASSUME FragmentInv, NEW t \in Thread, PlainEvent(t) PROVE FragmentInv'
BY PlainWoken, CommKeeps, ProbeKeeps DEF PlainEvent

LEMMA SharedEventKeeps ==
  ASSUME FragmentInv, SharedEvent PROVE FragmentInv'
<1>1. config' = config
  BY DEF SharedEvent
<1> QED
  BY <1>1, SharedWoken, CommKeeps, ProbeKeeps

(* A wire changes, or reset ends: entries become events.                   *)
LEMMA NotifyKeeps ==
  ASSUME FragmentInv, entries' \in Nat, shared' \in Nat, entries' + shared' = entries + shared,
         UNCHANGED <<useFlavors, flavor, at, stalled, plain, config, failed>>
  PROVE  FragmentInv'
<1>1. FragmentTypes'
  BY DEF FragmentInv, FragmentTypes
<1>2. OneWakeEach'
  BY DEF FragmentInv, FragmentTypes, OneWakeEach
<1> QED
  BY <1>1, <1>2 DEF FragmentInv, FlavorsUsed, Alternates

THEOREM FragmentInvariant == Spec => []FragmentInv
<1>1. FragmentInv /\ [Next]_vars => FragmentInv'
  <2> SUFFICES ASSUME FragmentInv, [Next]_vars PROVE FragmentInv'
    OBVIOUS
  <2>1. ASSUME NEW t \in Thread, PlainEvent(t) PROVE FragmentInv'
    BY <2>1, PlainEventKeeps
  <2>2. CASE SharedEvent
    BY <2>2, SharedEventKeeps
  <2>3. ASSUME NEW r \in Wire, Gate(r) PROVE FragmentInv'
    <3>1. /\ LET u == boolProp({r}, [shared |-> shared, entries |-> entries])
             IN  shared' = u.shared /\ entries' = u.entries
          /\ UNCHANGED <<useFlavors, flavor, at, stalled, plain, config, failed>>
      BY <2>3 DEF Gate
    <3>2. entries' \in Nat /\ shared' \in Nat /\ entries' + shared' = entries + shared
      BY <3>1, BoolPropKeeps DEF FragmentInv, FragmentTypes
    <3> QED
      BY <3>1, <3>2, NotifyKeeps
  <2>4. CASE EndReset
    <3>1. /\ shared' = shared + entries /\ entries' = 0
          /\ UNCHANGED <<useFlavors, flavor, at, stalled, plain, config, failed>>
      BY <2>4 DEF EndReset, channel
    <3>2. entries' \in Nat /\ shared' \in Nat /\ entries' + shared' = entries + shared
      BY <3>1 DEF FragmentInv, FragmentTypes
    <3> QED
      BY <3>1, <3>2, NotifyKeeps
  <2>5. CASE UNCHANGED vars
    <3>1. UNCHANGED <<useFlavors, flavor, at, stalled, plain, config, failed, entries, shared>>
      BY <2>5 DEF vars, channel
    <3> QED
      BY <3>1, NotifyKeeps DEF FragmentInv, FragmentTypes
  <2> QED
    BY <2>1, <2>2, <2>3, <2>4, <2>5 DEF Next
<1> QED
  BY <1>1, InitFragment, PTL DEF Spec

(* For any channel type and any circuit: each stalled thread has its entry *)
(* or its event, and the flavour checks never stop the simulator.          *)
THEOREM WakesMatch == Spec => []OneWakeEach
<1>1. FragmentInv => OneWakeEach
  BY DEF FragmentInv
<1> QED
  BY <1>1, FragmentInvariant, PTL
-----------------------------------------------------------------------------
(* The second part is about channel types whose methods are four-phase.    *)
Code == CHOOSE code \in [{0, 1} -> Forward] : FourPhaseMethods(code)

(* The data and the acknowledge, each at both ends, go round a ring of     *)
(* eight phases; x is the rail and a the acknowledge that is used.         *)
Ring(p, x, a) ==
  /\ Data(wire["L"]) = IF p \in 1 .. 4 THEN {x} ELSE {}
  /\ Data(wire["R"]) = IF p \in 2 .. 5 THEN {x} ELSE {}
  /\ Acked(wire["R"]) = IF p \in 3 .. 6 THEN {a} ELSE {}
  /\ Acked(wire["L"]) = IF p \in 4 .. 7 THEN {a} ELSE {}

Held(t) == t \in ToSet(stalled)
SenderAt(p) ==
  \/ /\ st["L"] = 0 /\ p = 0 /\ at["Snd"] \in {"whole", "plus", "end"} /\ ~Held("Snd")
     /\ at["Snd"] # "end" => Len(sent) < MaxComms
  \/ /\ st["L"] = 1 /\ p = 0 /\ at["Snd"] \in {"whole", "plus"} /\ Held("Snd")
     /\ micro["L"] = 0 /\ data["L"] = sent[Len(sent)]
  \/ /\ st["L"] = 2 /\ p \in 1 .. 4 /\ at["Snd"] \in {"whole", "plus"} /\ Held("Snd")
     /\ micro["L"] \in Parks("send_up")
  \/ /\ st["L"] = 3 /\ p = 4 /\ at["Snd"] = "minus" /\ ~Held("Snd") /\ micro["L"] = 0
  \/ /\ st["L"] = 3 /\ p \in {5, 6, 7, 0} /\ at["Snd"] \in {"whole", "minus"} /\ Held("Snd")
     /\ micro["L"] \in Parks("send_rest")
ReceiverAt(p) ==
  \/ /\ st["R"] = 0 /\ p \in {7, 0, 1, 2} /\ at["Rcv"] \in {"probe", "whole", "plus", "end"}
     /\ Held("Rcv") => at["Rcv"] = "probe"
     /\ at["Rcv"] # "end" => requests < MaxComms
  \/ /\ st["R"] = 1 /\ p \in {7, 0, 1, 2} /\ at["Rcv"] \in {"whole", "plus"} /\ Held("Rcv")
     /\ micro["R"] \in {0} \cup Parks("get")
  \/ /\ st["R"] = 3 /\ p \in 3 .. 6 /\ at["Rcv"] = "minus" /\ ~Held("Rcv") /\ micro["R"] = 0
  \/ /\ st["R"] = 3 /\ p \in 3 .. 6 /\ at["Rcv"] \in {"whole", "minus"} /\ Held("Rcv")
     /\ micro["R"] \in Parks("recv_rest")

(* How many values have been sent, put on the wires, read and received.    *)
Sets == IF st["L"] = 1 THEN Len(sent) - 1 ELSE Len(sent)
Gets == IF st["R"] = 3 /\ at["Rcv"] = "whole" THEN Len(got) + 1 ELSE Len(got)
Tally(p, x) ==
  /\ Sets = IF p \in {1, 2} THEN Gets + 1 ELSE Gets
  /\ sdone = IF st["L"] = 0 \/ at["Snd"] = "minus" THEN Len(sent) ELSE Len(sent) - 1
  /\ requests = IF st["R"] = 0 \/ at["Rcv"] = "minus" THEN Len(got) ELSE Len(got) + 1
  /\ p \in {1, 2} => x = Code[sent[Len(sent)]]
  /\ \A i \in 1 .. Len(got) : got[i] = sent[i]
  /\ Gets # Len(got) => data["R"] = sent[Gets]
  /\ probed => at["Rcv"] # "minus" /\ (st["R"] # 3 => p = 2)

(* During reset the wires are those of phase 0, but for some that nothing  *)
(* has driven yet.                                                         *)
Quiet ==
  /\ \A c \in Chan : wire[c] \in [Wire -> {0, X}]
  /\ wire["L"] = Lowered(wire["L"], Forward) /\ wire["R"] = Lowered(wire["R"], Wire \ Forward)

WireTypes ==
  /\ wire \in [Chan -> [Wire -> {0, 1, X}]] /\ data \in [Chan -> {0, 1}]
  /\ st \in [Chan -> 0 .. 3] /\ micro \in [Chan -> Nat]
  /\ sent \in Seq({0, 1}) /\ got \in Seq({0, 1}) /\ sdone \in Nat /\ requests \in Nat
  /\ probed \in BOOLEAN /\ resetMode \in BOOLEAN
Handshake(p, x, a) ==
  /\ p \in 0 .. 7 /\ x \in Forward /\ a \in Wire \ Forward
  /\ Ring(p, x, a) /\ SenderAt(p) /\ ReceiverAt(p) /\ Tally(p, x)
  /\ resetMode => p = 0
PhaseInv ==
  /\ WireTypes
  /\ IF resetMode THEN Quiet ELSE wire \in [Chan -> [Wire -> {0, 1}]]
  /\ \E p, x, a : Handshake(p, x, a)
-----------------------------------------------------------------------------
(* What the loop of varSend and varRecv makes of methods that keep to the  *)
(* contract.                                                               *)
Round(t, half, d) ==
  IF d.end # "runs" THEN d
  ELSE IF d.st = 0 THEN [d EXCEPT !.end = "done"]
  ELSE Advance(half, d, Run(Protocol[t][d.st], d.run))

LEMMA DrivenBy ==
  ASSUME NEW t, NEW half, NEW d0 \in DriveState, NEW d1 \in DriveState, NEW d2 \in DriveState,
         NEW d3 \in DriveState,
         Round(t, half, d0) = d1, Round(t, half, d1) = d2, Round(t, half, d2) = d3, d3.end # "runs"
  PROVE  Driven(t, half, d0) = d3
<1> DEFINE round == [d \in DriveState |-> Round(t, half, d)]
<1>1. Driven(t, half, d0) = round[round[round[round[d0]]]]
  BY DEF Driven, Round, Run
<1>2. round[d0] = d1 /\ round[d1] = d2 /\ round[d2] = d3
  OBVIOUS
<1>3. round[d3] = d3
  BY DEF Round
<1> HIDE DEF round
<1> QED
  BY <1>1, <1>2, <1>3

Left(i, r, e) == [st |-> i, run |-> r, end |-> e]
From(i, s) == Left(i, s, "runs")

Ending == {"runs", "done", "blocked"}
LEMMA Endings == "runs" \in Ending /\ "done" \in Ending /\ "blocked" \in Ending /\ 0 \in 0 .. 3
BY DEF Ending
LEMMA LeftTypes ==
  ASSUME NEW i \in 0 .. 3, NEW r \in RunState, NEW e \in Ending
  PROVE  Left(i, r, e) \in DriveState
BY DEF Left, DriveState, Ending

LEMMA LeftFacts ==
  ASSUME NEW i, NEW r, NEW e
  PROVE  Left(i, r, e).st = i /\ Left(i, r, e).run = r /\ Left(i, r, e).end = e
BY DEF Left

LEMMA Successors ==
  ASSUME NEW i \in 1 .. 3
  PROVE  Successor(i) \in 0 .. 3 /\ (Successor(i) = 3 <=> i = 2)
<1>1. i = 1 \/ i = 2 \/ i = 3
  OBVIOUS
<1> QED
  BY <1>1 DEF Successor

(* One round, with a method that waits and with one that finishes.         *)
Rested(r) == [r EXCEPT !.pos = 0]
LEMMA RoundStops ==
  ASSUME NEW t, NEW half, NEW i, i # 0, NEW s, NEW r, r = Run(Protocol[t][i], s), r.pos # Done
  PROVE  Round(t, half, From(i, s)) = Left(i, r, "blocked")
<1>1. From(i, s).end = "runs" /\ From(i, s).st = i /\ From(i, s).run = s
  BY DEF From, Left
<1>2. Round(t, half, From(i, s)) = Advance(half, From(i, s), r)
  BY <1>1 DEF Round
<1> QED
  BY <1>2 DEF Advance, From, Left

LEMMA RoundGoesOn ==
  ASSUME NEW t, NEW half, NEW i, i # 0, NEW s, NEW r, r = Run(Protocol[t][i], s), r.pos = Done
  PROVE  Round(t, half, From(i, s)) =
           Left(Successor(i), Rested(r), IF half /\ Successor(i) = 3 THEN "done" ELSE "runs")
<1>1. From(i, s).end = "runs" /\ From(i, s).st = i /\ From(i, s).run = s
  BY DEF From, Left
<1>2. Round(t, half, From(i, s)) = Advance(half, From(i, s), r)
  BY <1>1 DEF Round
<1> QED
  BY <1>1, <1>2 DEF Advance, Left, Rested

Yes(half) == half = TRUE
LEMMA RoundHalves ==
  ASSUME NEW t, NEW half, Yes(half), NEW s, NEW r, r = Run(Protocol[t][2], s), r.pos = Done
  PROVE  Round(t, half, From(2, s)) = Left(3, Rested(r), "done")
<1>1. Successor(2) = 3 /\ 2 # 0
  BY DEF Successor
<1>2. From(2, s).end = "runs" /\ From(2, s).st = 2 /\ From(2, s).run = s
  BY DEF From, Left
<1>3. Round(t, half, From(2, s)) = Advance(half, From(2, s), r)
  BY <1>2 DEF Round
<1>4. Advance(half, From(2, s), r) =
        [st |-> 3, run |-> Rested(r), end |-> IF half THEN "done" ELSE "runs"]
  BY <1>1, <1>2 DEF Advance, Rested
<1> QED
  BY <1>3, <1>4 DEF Left, Yes

LEMMA RoundRests ==
  ASSUME NEW t, NEW half, NEW d \in DriveState, d.end # "runs"
  PROVE  Round(t, half, d) = d
BY DEF Round

(* The positions at which a method can be resumed, and what it returns.    *)
LEMMA ReadyFacts ==
  ASSUME FourPhaseMethods(Code), NEW m \in DOMAIN Method
  PROVE  /\ Parks(m) \subseteq Nat \ {Done}
         /\ \A s \in Ready(m) : /\ s \in RunState /\ s.wire \in [Wire -> {0, 1}]
                                /\ Run(m, s) \in RunState
         /\ \A s \in RunState : s.wire \in [Wire -> {0, 1}] /\ s.pos \in {0} \cup Parks(m) =>
              s \in Ready(m)
<1>1. \A s \in Entered({0}, {0, 1, X}) \cup Ready(m) : Run(m, s) \in RunState
  BY DEF FourPhaseMethods
<1>2. Parks(m) \subseteq Nat \ {Done}
  BY <1>1 DEF Parks, RunState
<1>3. \A s \in Ready(m) : s \in RunState /\ s.wire \in [Wire -> {0, 1}]
  BY <1>2 DEF Ready, Entered, RunState, X
<1>4. \A s \in RunState : s.wire \in [Wire -> {0, 1}] /\ s.pos \in {0} \cup Parks(m) => s \in Ready(m)
  BY DEF Ready, Entered, RunState
<1> QED
  BY <1>1, <1>2, <1>3, <1>4

Methods == {"set", "send_up", "send_rest", "get", "recv_up", "recv_rest"}
LEMMA MethodsAre ==
  /\ Methods \subseteq DOMAIN Method
  /\ Protocol["Snd"][1] = "set" /\ Protocol["Snd"][2] = "send_up"
  /\ Protocol["Snd"][3] = "send_rest"
  /\ Protocol["Rcv"][1] = "get" /\ Protocol["Rcv"][2] = "recv_up"
  /\ Protocol["Rcv"][3] = "recv_rest"
BY MethodAssumption DEF Methods, Protocol, Thread

Stops(d, i, m, w) ==
  d.st = i /\ d.end = "blocked" /\ d.run.pos \in Parks(m) /\ d.run.wire = w /\ d.run.self \in {0, 1}
Ends(d, i, w) ==
  d.st = i /\ d.end = "done" /\ d.run.pos = 0 /\ d.run.wire = w /\ d.run.self \in {0, 1}
LEMMA RestedFacts ==
  ASSUME NEW s \in RunState
  PROVE  /\ Rested(s) \in RunState
         /\ Rested(s).pos = 0 /\ Rested(s).wire = s.wire /\ Rested(s).self = s.self
BY DEF RunState, Rested

(* A method that waits is the last one, a method that finishes is followed *)
(* by the next one, unless the first half of the protocol is all.          *)
Begins(t, i, m, s) ==
  i \in 1 .. 3 /\ m \in DOMAIN Method /\ m = Protocol[t][i] /\ s \in Ready(m)

LEMMA BeginsFacts ==
  ASSUME FourPhaseMethods(Code), NEW t, NEW i, NEW m, NEW s, Begins(t, i, m, s)
  PROVE  /\ Run(m, s) \in RunState /\ Run(Protocol[t][i], s) = Run(m, s)
         /\ s \in RunState /\ From(i, s) \in DriveState
         /\ i # 0 /\ i \in 0 .. 3 /\ Parks(m) \subseteq Nat \ {Done}
<1>1. s \in RunState /\ Run(m, s) \in RunState /\ Parks(m) \subseteq Nat \ {Done}
  BY ReadyFacts DEF Begins
<1>2. i # 0 /\ i \in 0 .. 3 /\ Run(Protocol[t][i], s) = Run(m, s)
  BY DEF Begins
<1> QED
  BY <1>1, <1>2, LeftTypes, Endings DEF From

LEMMA RunWaits ==
  ASSUME FourPhaseMethods(Code), NEW t, NEW half, NEW i, NEW m, NEW s, Begins(t, i, m, s),
         NEW w, WaitsIn(m, s, w)
  PROVE  /\ Round(t, half, From(i, s)) = Left(i, Run(m, s), "blocked")
         /\ Left(i, Run(m, s), "blocked") \in DriveState
         /\ Stops(Left(i, Run(m, s), "blocked"), i, m, w)
<1> DEFINE r == Run(m, s)
<1>1. r \in RunState /\ Run(Protocol[t][i], s) = r /\ i # 0 /\ i \in 0 .. 3
  BY BeginsFacts
<1>2. r.pos # Done /\ r.pos \in Parks(m) /\ r.wire = w
  BY BeginsFacts DEF WaitsIn
<1> HIDE DEF r
<1>3. r.self \in {0, 1}
  BY <1>1 DEF RunState
<1>5. Round(t, half, From(i, s)) = Left(i, r, "blocked")
  BY <1>1, <1>2, RoundStops
<1>6. Left(i, r, "blocked") \in DriveState
  BY <1>1, LeftTypes, Endings
<1>7. Stops(Left(i, r, "blocked"), i, m, w)
  BY <1>2, <1>3, LeftFacts DEF Stops
<1> QED
  BY <1>5, <1>6, <1>7 DEF r

LEMMA RunRests ==
  ASSUME FourPhaseMethods(Code), NEW t, NEW i, NEW m, NEW s, Begins(t, i, m, s),
         NEW w, Finishes(m, s, w)
  PROVE  /\ Rested(Run(m, s)) \in RunState /\ Rested(Run(m, s)).wire = w
         /\ Rested(Run(m, s)).pos = 0 /\ Rested(Run(m, s)).self = Run(m, s).self
BY BeginsFacts, RestedFacts DEF Finishes

LEMMA RunGoesOn ==
  ASSUME FourPhaseMethods(Code), NEW t, NEW half, NEW i, NEW m, NEW s, Begins(t, i, m, s),
         NEW w, Finishes(m, s, w), ~half \/ i # 2
  PROVE  /\ Round(t, half, From(i, s)) = From(Successor(i), Rested(Run(m, s)))
         /\ From(Successor(i), Rested(Run(m, s))) \in DriveState
<1> DEFINE r == Run(m, s)
<1>1. r \in RunState /\ Run(Protocol[t][i], s) = r /\ i # 0 /\ r.pos = Done
  BY BeginsFacts DEF Finishes
<1>2. Successor(i) \in 0 .. 3 /\ (Successor(i) = 3 <=> i = 2)
  BY Successors DEF Begins
<1> HIDE DEF r
<1>3. Round(t, half, From(i, s)) =
        Left(Successor(i), Rested(r), IF half /\ Successor(i) = 3 THEN "done" ELSE "runs")
  BY <1>1, RoundGoesOn
<1>4. Round(t, half, From(i, s)) = Left(Successor(i), Rested(r), "runs")
  BY <1>2, <1>3
<1>5. Rested(r) \in RunState
  BY <1>1, RestedFacts
<1> QED
  BY <1>2, <1>4, <1>5, LeftTypes, Endings DEF From, r

LEMMA RunHalves ==
  ASSUME FourPhaseMethods(Code), NEW t, NEW m, NEW s, Begins(t, 2, m, s),
         NEW w, Finishes(m, s, w), NEW half, Yes(half)
  PROVE  /\ Round(t, half, From(2, s)) = Left(3, Rested(Run(m, s)), "done")
         /\ Left(3, Rested(Run(m, s)), "done") \in DriveState
         /\ Ends(Left(3, Rested(Run(m, s)), "done"), 3, w)
<1> DEFINE r == Run(m, s)
<1>1. r \in RunState /\ Run(Protocol[t][2], s) = r /\ r.pos = Done
  BY BeginsFacts DEF Finishes
<1>3. Rested(r) \in RunState /\ Rested(r).wire = w /\ Rested(r).pos = 0
  BY RunRests
<1> HIDE DEF r
<1>4. Round(t, half, From(2, s)) = Left(3, Rested(r), "done")
  BY <1>1, RoundHalves
<1>5. Rested(r).self \in {0, 1} /\ 3 \in 0 .. 3
  BY <1>3 DEF RunState
<1>6. Left(3, Rested(r), "done") \in DriveState
  BY <1>3, <1>5, LeftTypes, Endings
<1>7. Ends(Left(3, Rested(r), "done"), 3, w)
  BY <1>3, <1>5, LeftFacts DEF Ends
<1> QED
  BY <1>4, <1>6, <1>7 DEF r

LEMMA RunEnds ==
  ASSUME NEW t, NEW half, NEW s \in RunState, s.pos = 0
  PROVE  /\ Round(t, half, From(0, s)) = Left(0, s, "done")
         /\ Left(0, s, "done") \in DriveState /\ Ends(Left(0, s, "done"), 0, s.wire)
<1>1. From(0, s).end = "runs" /\ From(0, s).st = 0
  BY DEF From, Left
<1>2. Round(t, half, From(0, s)) = Left(0, s, "done")
  BY <1>1 DEF Round, From, Left
<1>3. s.self \in {0, 1}
  BY DEF RunState
<1>4. Left(0, s, "done") \in DriveState
  BY LeftTypes, Endings
<1>5. Ends(Left(0, s, "done"), 0, s.wire)
  BY <1>3, LeftFacts DEF Ends
<1> QED
  BY <1>2, <1>4, <1>5

(* What raising and lowering does to the wires.                            *)
LEMMA RaisesData ==
  ASSUME NEW w \in [Wire -> {0, 1}], NEW r \in Forward, Data(w) = {}
  PROVE  LET u == [w EXCEPT ![r] = 1] IN
         u \in [Wire -> {0, 1}] /\ Data(u) = {r} /\ Acked(u) = Acked(w)
BY WireAssumption DEF Data, Acked

LEMMA RaisesAck ==
  ASSUME NEW w \in [Wire -> {0, 1}], NEW r \in Wire \ Forward, Acked(w) = {}
  PROVE  LET u == [w EXCEPT ![r] = 1] IN
         u \in [Wire -> {0, 1}] /\ Acked(u) = {r} /\ Data(u) = Data(w)
BY WireAssumption DEF Data, Acked

LEMMA LowersData ==
  ASSUME NEW w \in [Wire -> {0, 1}]
  PROVE  LET u == Lowered(w, Forward) IN
         u \in [Wire -> {0, 1}] /\ Data(u) = {} /\ Acked(u) = Acked(w)
BY WireAssumption DEF Data, Acked, Lowered

LEMMA LowersAck ==
  ASSUME NEW w \in [Wire -> {0, 1}]
  PROVE  LET u == Lowered(w, Wire \ Forward) IN
         u \in [Wire -> {0, 1}] /\ Acked(u) = {} /\ Data(u) = Data(w)
BY WireAssumption DEF Data, Acked, Lowered

LEMMA LowersNothing ==
  ASSUME NEW w \in [Wire -> {0, 1}]
  PROVE  /\ Data(w) = {} => Lowered(w, Forward) = w
         /\ Acked(w) = {} => Lowered(w, Wire \ Forward) = w
<1>1. \A S \in SUBSET Wire : (\A r \in S : w[r] = 0) => Lowered(w, S) = w
  BY DEF Lowered
<1> QED
  BY <1>1, WireAssumption DEF Data, Acked

(* A state a method can be begun or resumed in.                            *)
Resumable(m, s) ==
  s \in RunState /\ s.wire \in [Wire -> {0, 1}] /\ s.pos \in {0} \cup Parks(m)

LEMMA CodeIs ==
  ASSUME FourPhaseType
  PROVE  FourPhaseMethods(Code) /\ Code \in [{0, 1} -> Forward]
BY DEF FourPhaseType, Code

LEMMA BeginsAt ==
  ASSUME FourPhaseMethods(Code), NEW t, NEW i \in 1 .. 3, NEW m \in DOMAIN Method,
         m = Protocol[t][i], NEW s, Resumable(m, s)
  PROVE  Begins(t, i, m, s)
BY ReadyFacts DEF Begins, Resumable

(* The method that is run waits.                                           *)
LEMMA DrivenWaits ==
  ASSUME FourPhaseMethods(Code), NEW t, NEW half, NEW i, NEW m, NEW s, Begins(t, i, m, s),
         NEW w, WaitsIn(m, s, w)
  PROVE  /\ Driven(t, half, From(i, s)) \in DriveState
         /\ Stops(Driven(t, half, From(i, s)), i, m, w)
         /\ Driven(t, half, From(i, s)).run.self = Run(m, s).self
<1> DEFINE d == Left(i, Run(m, s), "blocked")
<1>1. From(i, s) \in DriveState
  BY BeginsFacts
<1>2. Round(t, half, From(i, s)) = d /\ d \in DriveState /\ Stops(d, i, m, w)
  BY RunWaits
<1>3. d.end # "runs" /\ d.run = Run(m, s)
  BY LeftFacts
<1> HIDE DEF d
<1>4. Round(t, half, d) = d
  BY <1>2, <1>3, RoundRests
<1>5. Driven(t, half, From(i, s)) = d
  BY <1>1, <1>2, <1>3, <1>4, DrivenBy
<1> QED
  BY <1>2, <1>3, <1>5

(* The method finishes and is the last that is run.                        *)
LEMMA DrivenHalves ==
  ASSUME FourPhaseMethods(Code), NEW t, NEW half, Yes(half), NEW m, NEW s, Begins(t, 2, m, s),
         NEW w, Finishes(m, s, w)
  PROVE  /\ Driven(t, half, From(2, s)) \in DriveState
         /\ Ends(Driven(t, half, From(2, s)), 3, w)
         /\ Driven(t, half, From(2, s)).run.self = Run(m, s).self
<1> DEFINE r == Rested(Run(m, s))
           d == Left(3, r, "done")
<1>1. From(2, s) \in DriveState
  BY BeginsFacts
<1>2. Round(t, half, From(2, s)) = d /\ d \in DriveState /\ Ends(d, 3, w)
  BY RunHalves
<1>3. d.end # "runs" /\ d.run = r /\ r.self = Run(m, s).self
  BY LeftFacts, RunRests
<1> HIDE DEF d
<1>4. Round(t, half, d) = d
  BY <1>2, <1>3, RoundRests
<1>5. Driven(t, half, From(2, s)) = d
  BY <1>1, <1>2, <1>3, <1>4, DrivenBy
<1> QED
  BY <1>2, <1>3, <1>5

LEMMA DrivenEnds ==
  ASSUME FourPhaseMethods(Code), NEW t, NEW half, NEW m, NEW s, Begins(t, 3, m, s),
         NEW w, Finishes(m, s, w)
  PROVE  /\ Driven(t, half, From(3, s)) \in DriveState
         /\ Ends(Driven(t, half, From(3, s)), 0, w)
         /\ Driven(t, half, From(3, s)).run.self = Run(m, s).self
<1> DEFINE r == Rested(Run(m, s))
           d1 == From(0, r)
           d == Left(0, r, "done")
<1>1. From(3, s) \in DriveState
  BY BeginsFacts
<1>2. r \in RunState /\ r.pos = 0 /\ r.wire = w /\ r.self = Run(m, s).self
  BY RunRests
<1>3. Successor(3) = 0
  BY DEF Successor
<1>4. Round(t, half, From(3, s)) = d1 /\ d1 \in DriveState
  BY <1>3, RunGoesOn
<1>5. d.end # "runs" /\ d.run = r
  BY LeftFacts
<1> HIDE DEF r
<1>6. Round(t, half, d1) = d /\ d \in DriveState /\ Ends(d, 0, w)
  BY <1>2, RunEnds
<1> HIDE DEF d, d1
<1>7. Round(t, half, d) = d
  BY <1>5, <1>6, RoundRests
<1>8. Driven(t, half, From(3, s)) = d
  BY <1>1, <1>4, <1>5, <1>6, <1>7, DrivenBy
<1> QED
  BY <1>2, <1>5, <1>6, <1>8

(* The method finishes and the next one, begun on the wires it leaves,     *)
(* waits or finishes.                                                      *)
LEMMA DrivenGoesOn ==
  ASSUME FourPhaseMethods(Code), NEW t, NEW half, NEW i, NEW m, NEW s, Begins(t, i, m, s),
         i \in {1, 2}, ~half \/ i # 2,
         NEW w, Finishes(m, s, w),
         NEW m2, NEW r, r = Rested(Run(m, s)), Begins(t, i + 1, m2, r),
         NEW w2, WaitsIn(m2, r, w2)
  PROVE  /\ Driven(t, half, From(i, s)) \in DriveState
         /\ Stops(Driven(t, half, From(i, s)), i + 1, m2, w2)
         /\ Driven(t, half, From(i, s)).run.self = Run(m2, r).self
<1> DEFINE d1 == From(i + 1, r)
           d == Left(i + 1, Run(m2, r), "blocked")
<1>1. Successor(i) = i + 1
  BY DEF Successor
<1>2. From(i, s) \in DriveState
  BY BeginsFacts
<1>3. Round(t, half, From(i, s)) = d1 /\ d1 \in DriveState
  BY <1>1, RunGoesOn
<1>4. Round(t, half, d1) = d /\ d \in DriveState /\ Stops(d, i + 1, m2, w2)
  BY RunWaits
<1>5. d.end # "runs" /\ d.run = Run(m2, r)
  BY LeftFacts
<1> HIDE DEF d, d1
<1>6. Round(t, half, d) = d
  BY <1>4, <1>5, RoundRests
<1>7. Driven(t, half, From(i, s)) = d
  BY <1>2, <1>3, <1>4, <1>5, <1>6, DrivenBy
<1> QED
  BY <1>4, <1>5, <1>7

(* What the threads make of their methods, case by case.  The state s is   *)
(* that in which a method of the channel is begun or resumed.              *)
LEMMA Sends ==
  ASSUME FourPhaseType, NEW s, Resumable("set", s), s.pos = 0, NEW half,
         Data(s.wire) = {}, Acked(s.wire) = {}
  PROVE  LET d == Driven("Snd", half, From(1, s)) IN
         d \in DriveState /\ Stops(d, 2, "send_up", [s.wire EXCEPT ![Code[s.self]] = 1])
<1> DEFINE w == [s.wire EXCEPT ![Code[s.self]] = 1]
           r == Rested(Run("set", s))
<1>1. FourPhaseMethods(Code) /\ Code \in [{0, 1} -> Forward]
  BY CodeIs
<1>2. s \in Ready("set") /\ Begins("Snd", 1, "set", s) /\ s.wire \in [Wire -> {0, 1}]
      /\ s \in RunState
  BY <1>1, MethodsAre, ReadyFacts, BeginsAt DEF Methods, Resumable
<1>3. Code[s.self] \in Forward
  BY <1>1, <1>2 DEF RunState
<1>4. Finishes("set", s, w)
  BY <1>1, <1>2 DEF FourPhaseMethods, SetRaises
<1>5. w \in [Wire -> {0, 1}] /\ Data(w) # {} /\ Acked(w) = {}
  BY <1>2, <1>3, RaisesData
<1> HIDE DEF w
<1>6. r \in RunState /\ r.wire = w /\ r.pos = 0
  BY <1>1, <1>2, <1>4, RunRests
<1>7. Begins("Snd", 2, "send_up", r) /\ r \in Ready("send_up")
  BY <1>1, <1>5, <1>6, MethodsAre, ReadyFacts, BeginsAt DEF Methods, Resumable
<1>8. WaitsIn("send_up", r, w)
  BY <1>1, <1>5, <1>6, <1>7 DEF FourPhaseMethods, SendUpWaits
<1> HIDE DEF r
<1>9. 1 \in {1, 2} /\ 1 # 2 /\ 1 + 1 = 2
  OBVIOUS
<1>10. r = Rested(Run("set", s))
  BY DEF r
<1> QED
  BY <1>1, <1>2, <1>4, <1>7, <1>8, <1>9, <1>10, DrivenGoesOn DEF w

LEMMA AwaitsAck ==
  ASSUME FourPhaseType, NEW s, Resumable("send_up", s), NEW half,
         Data(s.wire) # {}, Acked(s.wire) = {}
  PROVE  LET d == Driven("Snd", half, From(2, s)) IN
         d \in DriveState /\ Stops(d, 2, "send_up", s.wire)
<1>1. FourPhaseMethods(Code)
  BY CodeIs
<1>2. s \in Ready("send_up") /\ Begins("Snd", 2, "send_up", s)
  BY <1>1, MethodsAre, ReadyFacts, BeginsAt DEF Methods, Resumable
<1>3. WaitsIn("send_up", s, s.wire)
  BY <1>1, <1>2 DEF FourPhaseMethods, SendUpWaits
<1> QED
  BY <1>1, <1>2, <1>3, DrivenWaits

LEMMA SeesAckHalf ==
  ASSUME FourPhaseType, NEW s, Resumable("send_up", s), NEW half, Yes(half),
         Data(s.wire) # {}, Acked(s.wire) # {}
  PROVE  LET d == Driven("Snd", half, From(2, s)) IN
         d \in DriveState /\ Ends(d, 3, s.wire)
<1>1. FourPhaseMethods(Code)
  BY CodeIs
<1>2. s \in Ready("send_up") /\ Begins("Snd", 2, "send_up", s)
  BY <1>1, MethodsAre, ReadyFacts, BeginsAt DEF Methods, Resumable
<1>3. Finishes("send_up", s, s.wire)
  BY <1>1, <1>2 DEF FourPhaseMethods, SendUpWaits
<1> QED
  BY <1>1, <1>2, <1>3, DrivenHalves

LEMMA SeesAck ==
  ASSUME FourPhaseType, NEW s, Resumable("send_up", s), NEW half, ~half,
         Data(s.wire) # {}, Acked(s.wire) # {}
  PROVE  LET d == Driven("Snd", half, From(2, s)) IN
         d \in DriveState /\ Stops(d, 3, "send_rest", Lowered(s.wire, Forward))
<1> DEFINE w == Lowered(s.wire, Forward)
           r == Rested(Run("send_up", s))
<1>1. FourPhaseMethods(Code)
  BY CodeIs
<1>2. s \in Ready("send_up") /\ Begins("Snd", 2, "send_up", s) /\ s.wire \in [Wire -> {0, 1}]
  BY <1>1, MethodsAre, ReadyFacts, BeginsAt DEF Methods, Resumable
<1>3. Finishes("send_up", s, s.wire)
  BY <1>1, <1>2 DEF FourPhaseMethods, SendUpWaits
<1>4. r \in RunState /\ r.wire = s.wire /\ r.pos = 0
  BY <1>1, <1>2, <1>3, RunRests
<1>5. Begins("Snd", 3, "send_rest", r) /\ r \in Ready("send_rest")
  BY <1>1, <1>2, <1>4, MethodsAre, ReadyFacts, BeginsAt DEF Methods, Resumable
<1>6. WaitsIn("send_rest", r, w)
  BY <1>1, <1>4, <1>5 DEF FourPhaseMethods, SendRestLowers
<1> HIDE DEF r, w
<1>7. 2 \in {1, 2} /\ 2 + 1 = 3
  OBVIOUS
<1>8. r = Rested(Run("send_up", s))
  BY DEF r
<1> QED
  BY <1>1, <1>2, <1>3, <1>5, <1>6, <1>7, <1>8, DrivenGoesOn DEF w

LEMMA Withdraws ==
  ASSUME FourPhaseType, NEW s, Resumable("send_rest", s), NEW half,
         Acked(s.wire) # {}, s.pos = 0 \/ Data(s.wire) = {}
  PROVE  LET d == Driven("Snd", half, From(3, s)) IN
         d \in DriveState /\ Stops(d, 3, "send_rest", Lowered(s.wire, Forward))
<1>1. FourPhaseMethods(Code)
  BY CodeIs
<1>2. s \in Ready("send_rest") /\ Begins("Snd", 3, "send_rest", s)
  BY <1>1, MethodsAre, ReadyFacts, BeginsAt DEF Methods, Resumable
<1>3. WaitsIn("send_rest", s, Lowered(s.wire, Forward))
  BY <1>1, <1>2 DEF FourPhaseMethods, SendRestLowers
<1> QED
  BY <1>1, <1>2, <1>3, DrivenWaits

LEMMA SentAll ==
  ASSUME FourPhaseType, NEW s, Resumable("send_rest", s), NEW half,
         Acked(s.wire) = {}, Data(s.wire) = {}
  PROVE  LET d == Driven("Snd", half, From(3, s)) IN
         d \in DriveState /\ Ends(d, 0, s.wire)
<1>1. FourPhaseMethods(Code)
  BY CodeIs
<1>2. s \in Ready("send_rest") /\ Begins("Snd", 3, "send_rest", s) /\ s.wire \in [Wire -> {0, 1}]
  BY <1>1, MethodsAre, ReadyFacts, BeginsAt DEF Methods, Resumable
<1>3. Finishes("send_rest", s, s.wire)
  BY <1>1, <1>2, LowersNothing DEF FourPhaseMethods, SendRestLowers
<1> QED
  BY <1>1, <1>2, <1>3, DrivenEnds

LEMMA AwaitsData ==
  ASSUME FourPhaseType, NEW s, Resumable("get", s), NEW half, Data(s.wire) = {}
  PROVE  LET d == Driven("Rcv", half, From(1, s)) IN
         d \in DriveState /\ Stops(d, 1, "get", s.wire)
<1>1. FourPhaseMethods(Code)
  BY CodeIs
<1>2. s \in Ready("get") /\ Begins("Rcv", 1, "get", s)
  BY <1>1, MethodsAre, ReadyFacts, BeginsAt DEF Methods, Resumable
<1>3. WaitsIn("get", s, s.wire)
  BY <1>1, <1>2 DEF FourPhaseMethods, GetReads
<1> QED
  BY <1>1, <1>2, <1>3, DrivenWaits

LEMMA AwaitsRest ==
  ASSUME FourPhaseType, NEW s, Resumable("recv_rest", s), NEW half,
         Acked(s.wire) # {}, Data(s.wire) # {}
  PROVE  LET d == Driven("Rcv", half, From(3, s)) IN
         d \in DriveState /\ Stops(d, 3, "recv_rest", s.wire) /\ d.run.self = s.self
<1>1. FourPhaseMethods(Code)
  BY CodeIs
<1>2. s \in Ready("recv_rest") /\ Begins("Rcv", 3, "recv_rest", s)
  BY <1>1, MethodsAre, ReadyFacts, BeginsAt DEF Methods, Resumable
<1>3. WaitsIn("recv_rest", s, s.wire) /\ Run("recv_rest", s).self = s.self
  BY <1>1, <1>2 DEF FourPhaseMethods, RecvRestLowers
<1> QED
  BY <1>1, <1>2, <1>3, DrivenWaits

LEMMA ReceivedAll ==
  ASSUME FourPhaseType, NEW s, Resumable("recv_rest", s), NEW half,
         Acked(s.wire) # {}, Data(s.wire) = {}
  PROVE  LET d == Driven("Rcv", half, From(3, s)) IN
         /\ d \in DriveState /\ Ends(d, 0, Lowered(s.wire, Wire \ Forward))
         /\ d.run.self = s.self
<1>1. FourPhaseMethods(Code)
  BY CodeIs
<1>2. s \in Ready("recv_rest") /\ Begins("Rcv", 3, "recv_rest", s)
  BY <1>1, MethodsAre, ReadyFacts, BeginsAt DEF Methods, Resumable
<1>3. /\ Finishes("recv_rest", s, Lowered(s.wire, Wire \ Forward))
      /\ Run("recv_rest", s).self = s.self
  BY <1>1, <1>2 DEF FourPhaseMethods, RecvRestLowers
<1> QED
  BY <1>1, <1>2, <1>3, DrivenEnds

(* The receiver reads v, raises the acknowledge and, unless it was to do   *)
(* the first half only, waits for the data to be withdrawn.                *)
LEMMA Reads ==
  ASSUME FourPhaseType, NEW s, Resumable("get", s), NEW v \in {0, 1},
         Data(s.wire) = {Code[v]}, Acked(s.wire) = {}
  PROVE  LET r1 == Rested(Run("get", s))
             r2 == Rested(Run("recv_up", r1)) IN
         /\ Begins("Rcv", 1, "get", s) /\ Finishes("get", s, s.wire)
         /\ Begins("Rcv", 2, "recv_up", r1)
         /\ \E a \in Wire \ Forward :
              LET w == [s.wire EXCEPT ![a] = 1] IN
              /\ Finishes("recv_up", r1, w) /\ w \in [Wire -> {0, 1}]
              /\ Acked(w) = {a} /\ Data(w) = Data(s.wire) /\ r2.wire = w
         /\ r2 \in RunState /\ r2.pos = 0 /\ r2.self = v
<1> DEFINE r1 == Rested(Run("get", s))
           r2 == Rested(Run("recv_up", r1))
<1>1. FourPhaseMethods(Code)
  BY CodeIs
<1>2. s \in Ready("get") /\ Begins("Rcv", 1, "get", s) /\ s.wire \in [Wire -> {0, 1}]
  BY <1>1, MethodsAre, ReadyFacts, BeginsAt DEF Methods, Resumable
<1>3. Finishes("get", s, s.wire) /\ Run("get", s).self = v
  BY <1>1, <1>2 DEF FourPhaseMethods, GetReads
<1>4. r1 \in RunState /\ r1.wire = s.wire /\ r1.pos = 0 /\ r1.self = v
  BY <1>1, <1>2, <1>3, RunRests
<1>5. Begins("Rcv", 2, "recv_up", r1) /\ r1 \in Ready("recv_up")
  BY <1>1, <1>2, <1>4, MethodsAre, ReadyFacts, BeginsAt DEF Methods, Resumable
<1>6. Data(r1.wire) # {} /\ Acked(r1.wire) = {}
  BY <1>4
<1> HIDE DEF r1
<1>7. /\ \E a \in Wire \ Forward : Finishes("recv_up", r1, [r1.wire EXCEPT ![a] = 1])
      /\ Run("recv_up", r1).self = r1.self
  BY <1>1, <1>4, <1>5, <1>6 DEF FourPhaseMethods, RecvUpRaises
<1>8. PICK a \in Wire \ Forward : Finishes("recv_up", r1, [s.wire EXCEPT ![a] = 1])
  BY <1>4, <1>7
<1> DEFINE w == [s.wire EXCEPT ![a] = 1]
<1>9. w \in [Wire -> {0, 1}] /\ Acked(w) = {a} /\ Data(w) = Data(s.wire)
  BY <1>2, RaisesAck
<1> HIDE DEF w
<1>10. Finishes("recv_up", r1, w)
  BY <1>8 DEF w
<1>11. r2 \in RunState /\ r2.wire = w /\ r2.pos = 0 /\ r2.self = Run("recv_up", r1).self
  BY <1>1, <1>5, <1>10, RunRests
<1>12. r2.self = v
  BY <1>4, <1>7, <1>11
<1> QED
  BY <1>2, <1>3, <1>5, <1>9, <1>10, <1>11, <1>12 DEF r1, w

LEMMA Receives ==
  ASSUME FourPhaseType, NEW s, Resumable("get", s), NEW v \in {0, 1}, NEW half, ~half,
         Data(s.wire) = {Code[v]}, Acked(s.wire) = {}
  PROVE  LET d == Driven("Rcv", half, From(1, s)) IN
         /\ d \in DriveState /\ d.run.self = v
         /\ \E a \in Wire \ Forward : Stops(d, 3, "recv_rest", [s.wire EXCEPT ![a] = 1])
<1> DEFINE r1 == Rested(Run("get", s))
           r2 == Rested(Run("recv_up", r1))
           d3 == Left(3, Run("recv_rest", r2), "blocked")
<1>1. FourPhaseMethods(Code)
  BY CodeIs
<1>2. /\ Begins("Rcv", 1, "get", s) /\ Finishes("get", s, s.wire)
      /\ Begins("Rcv", 2, "recv_up", r1)
      /\ r2 \in RunState /\ r2.pos = 0 /\ r2.self = v
  BY Reads
<1>3. PICK a \in Wire \ Forward :
        LET w == [s.wire EXCEPT ![a] = 1] IN
        /\ Finishes("recv_up", r1, w) /\ w \in [Wire -> {0, 1}]
        /\ Acked(w) = {a} /\ Data(w) = Data(s.wire) /\ r2.wire = w
  BY Reads
<1> DEFINE w == [s.wire EXCEPT ![a] = 1]
<1>4. /\ Finishes("recv_up", r1, w) /\ w \in [Wire -> {0, 1}]
      /\ Acked(w) # {} /\ Data(w) # {} /\ r2.wire = w
  BY <1>3
<1> HIDE DEF r1, w
<1>5. From(1, s) \in DriveState /\ Round("Rcv", half, From(1, s)) = From(2, r1)
      /\ From(2, r1) \in DriveState
  BY <1>1, <1>2, BeginsFacts, RunGoesOn DEF r1, Successor
<1>6. Round("Rcv", half, From(2, r1)) = From(3, r2) /\ From(3, r2) \in DriveState
  BY <1>1, <1>2, <1>4, RunGoesOn DEF Successor
<1> HIDE DEF r2
<1>7. Begins("Rcv", 3, "recv_rest", r2) /\ r2 \in Ready("recv_rest")
  BY <1>1, <1>2, <1>4, MethodsAre, ReadyFacts, BeginsAt DEF Methods, Resumable
<1>8. WaitsIn("recv_rest", r2, w) /\ Run("recv_rest", r2).self = r2.self
  BY <1>1, <1>4, <1>7 DEF FourPhaseMethods, RecvRestLowers
<1>9. Round("Rcv", half, From(3, r2)) = d3 /\ d3 \in DriveState /\ Stops(d3, 3, "recv_rest", w)
  BY <1>1, <1>7, <1>8, RunWaits
<1>10. d3.end # "runs" /\ d3.run = Run("recv_rest", r2)
  BY LeftFacts
<1> HIDE DEF d3
<1>11. Driven("Rcv", half, From(1, s)) = d3
  BY <1>5, <1>6, <1>9, <1>10, DrivenBy
<1> QED
  BY <1>2, <1>8, <1>9, <1>10, <1>11 DEF w

LEMMA ReceivesHalf ==
  ASSUME FourPhaseType, NEW s, Resumable("get", s), NEW v \in {0, 1}, NEW half, Yes(half),
         Data(s.wire) = {Code[v]}, Acked(s.wire) = {}
  PROVE  LET d == Driven("Rcv", half, From(1, s)) IN
         /\ d \in DriveState /\ d.run.self = v
         /\ \E a \in Wire \ Forward : Ends(d, 3, [s.wire EXCEPT ![a] = 1])
<1> DEFINE r1 == Rested(Run("get", s))
           r2 == Rested(Run("recv_up", r1))
           d == Left(3, r2, "done")
<1>1. FourPhaseMethods(Code)
  BY CodeIs
<1>2. /\ Begins("Rcv", 1, "get", s) /\ Finishes("get", s, s.wire)
      /\ Begins("Rcv", 2, "recv_up", r1) /\ r2.self = v
  BY Reads
<1>3. PICK a \in Wire \ Forward : Finishes("recv_up", r1, [s.wire EXCEPT ![a] = 1])
  BY Reads
<1> DEFINE w == [s.wire EXCEPT ![a] = 1]
<1>4. Finishes("recv_up", r1, w)
  BY <1>3
<1> HIDE DEF r1, w
<1>5. From(1, s) \in DriveState /\ Round("Rcv", half, From(1, s)) = From(2, r1)
      /\ From(2, r1) \in DriveState
  BY <1>1, <1>2, BeginsFacts, RunGoesOn DEF r1, Successor
<1>6. Round("Rcv", half, From(2, r1)) = d /\ d \in DriveState /\ Ends(d, 3, w)
  BY <1>1, <1>2, <1>4, RunHalves
<1>7. d.end # "runs" /\ d.run = r2
  BY LeftFacts
<1> HIDE DEF d, r2
<1>8. Round("Rcv", half, d) = d
  BY <1>6, <1>7, RoundRests
<1>9. Driven("Rcv", half, From(1, s)) = d
  BY <1>5, <1>6, <1>7, <1>8, DrivenBy
<1> QED
  BY <1>2, <1>6, <1>7, <1>9 DEF w
-----------------------------------------------------------------------------
(* What varSend and varRecv change, and what they leave alone.             *)
SenderRests ==
  /\ st'["L"] = st["L"] /\ micro'["L"] = micro["L"] /\ data'["L"] = data["L"]
  /\ at'["Snd"] = at["Snd"] /\ (Held("Snd")' <=> Held("Snd"))
  /\ UNCHANGED <<sent, sdone>>
ReceiverRests ==
  /\ st'["R"] = st["R"] /\ micro'["R"] = micro["R"] /\ data'["R"] = data["R"]
  /\ at'["Rcv"] = at["Rcv"] /\ (Held("Rcv")' <=> Held("Rcv"))
  /\ UNCHANGED <<requests, got, probed>>
Leaves(t, c, d) ==
  /\ wire' = [wire EXCEPT ![c] = d.run.wire]
  /\ data'[c] = d.run.self /\ st'[c] = d.st /\ micro'[c] = d.run.pos
  /\ IF d.end = "blocked" THEN Held(t)' /\ at'[t] = at[t]
                          ELSE ~Held(t)' /\ at'[t] = After(t, at[t])

LEMMA TwoEnds ==
  /\ Thread = {"Snd", "Rcv"} /\ Chan = {"L", "R"}
  /\ On["Snd"] = "L" /\ On["Rcv"] = "R"
BY DEF Thread, Chan, On

LEMMA HeldIs ==
  ASSUME FragmentInv, NEW t \in Thread, NEW wakeup, NEW lst, NEW sh, Woken(t, wakeup, lst, sh)
  PROVE  wakeup <=> Held(t)
BY DEF Woken, FragmentInv, OneWakeEach, Held

LEMMA HeldAfter ==
  ASSUME FragmentInv, NEW t \in Thread, NEW wakeup, NEW lst, NEW sh, Woken(t, wakeup, lst, sh),
         NEW w, w.shared \in Nat, w.entries \in Nat, w.entries + w.shared = entries + sh
  PROVE  /\ Blocked(t, w, lst) => \A u : Held(u)' <=> Held(u) \/ u = t
         /\ NotBlocked(t, w, lst) => \A u : Held(u)' <=> Held(u) /\ u # t
<1>1. Blocked(t, w, lst) => ToSet(stalled') = ToSet(stalled) \cup {t}
  BY BlockedKeeps
<1>2. NotBlocked(t, w, lst) => ToSet(stalled') = ToSet(stalled) \ {t}
  BY NotBlockedKeeps
<1> QED
  BY <1>1, <1>2 DEF Held

LEMMA CommLeaves ==
  ASSUME FragmentInv, WireTypes, NEW t \in Thread, NEW wakeup, NEW lst, NEW sh,
         Woken(t, wakeup, lst, sh), NEW v, NEW d, d.end \in {"done", "blocked"},
         CommWith(t, v, wakeup, lst, sh, d)
  PROVE  /\ Leaves(t, On[t], d)
         /\ t = "Snd" => ReceiverRests
         /\ t = "Rcv" => SenderRests
<1> DEFINE w == boolProp(d.run.changed, [shared |-> sh, entries |-> entries])
<1>1. w.shared \in Nat /\ w.entries \in Nat /\ w.entries + w.shared = entries + sh
  BY BoolPropKeeps DEF Woken, FragmentInv, FragmentTypes
<1>2. IF d.end = "blocked" THEN Blocked(t, w, lst) /\ at' = at
                           ELSE NotBlocked(t, w, lst) /\ at' = [at EXCEPT ![t] = After(t, at[t])]
  BY DEF CommWith
<1> HIDE DEF w
<1>3. IF d.end = "blocked" THEN \A u : Held(u)' <=> Held(u) \/ u = t
                           ELSE \A u : Held(u)' <=> Held(u) /\ u # t
  BY <1>1, <1>2, HeldAfter
<1>4. at \in [Thread -> {"probe", "whole", "plus", "minus", "end"}]
  BY DEF FragmentInv, FragmentTypes
<1>5. /\ IF d.end = "blocked" THEN at'[t] = at[t] ELSE at'[t] = After(t, at[t])
      /\ \A u \in Thread : u # t => at'[u] = at[u]
  BY <1>2, <1>4
<1>6. /\ wire' = [wire EXCEPT ![On[t]] = d.run.wire]
      /\ data' = [data EXCEPT ![On[t]] = d.run.self]
      /\ st' = [st EXCEPT ![On[t]] = d.st] /\ micro' = [micro EXCEPT ![On[t]] = d.run.pos]
      /\ Issue(t, v, wakeup) /\ Complete(t, d)
  BY DEF CommWith
<1>7. Leaves(t, On[t], d)
  BY <1>3, <1>5, <1>6, OnTypes DEF Leaves, WireTypes
<1>8. CASE t = "Snd"
  BY <1>3, <1>5, <1>6, <1>7, <1>8, TwoEnds DEF ReceiverRests, WireTypes, Issue, Complete
<1>9. CASE t = "Rcv"
  BY <1>3, <1>5, <1>6, <1>7, <1>9, TwoEnds DEF SenderRests, WireTypes, Issue, Complete
<1> QED
  BY <1>7, <1>8, <1>9, TwoEnds

(* The phases of one end do not change what the other is doing.            *)
LEMMA SenderStays ==
  ASSUME NEW p \in 0 .. 7, NEW p2 \in 0 .. 7, SenderAt(p), SenderRests,
         p2 = p \/ (p \in 1 .. 3 /\ p2 \in 1 .. 4) \/ (p \in 5 .. 7 /\ p2 \in {5, 6, 7, 0})
  PROVE  SenderAt(p2)'
<1>1. CASE p2 = p
  BY <1>1 DEF SenderAt, SenderRests
<1>2. CASE p \in 1 .. 3 /\ p2 \in 1 .. 4
  <2>1. /\ st["L"] = 2 /\ at["Snd"] \in {"whole", "plus"} /\ Held("Snd")
        /\ micro["L"] \in Parks("send_up")
    BY <1>2 DEF SenderAt
  <2> QED
    BY <1>2, <2>1 DEF SenderAt, SenderRests
<1>3. CASE p \in 5 .. 7 /\ p2 \in {5, 6, 7, 0}
  <2>1. /\ st["L"] = 3 /\ at["Snd"] \in {"whole", "minus"} /\ Held("Snd")
        /\ micro["L"] \in Parks("send_rest")
    BY <1>3 DEF SenderAt
  <2> QED
    BY <1>3, <2>1 DEF SenderAt, SenderRests
<1> QED
  BY <1>1, <1>2, <1>3

LEMMA ReceiverStays ==
  ASSUME NEW p \in 0 .. 7, NEW p2 \in 0 .. 7, ReceiverAt(p), ReceiverRests,
         {p, p2} \subseteq {7, 0, 1, 2} \/ {p, p2} \subseteq 3 .. 6
  PROVE  ReceiverAt(p2)'
<1>1. CASE {p, p2} \subseteq {7, 0, 1, 2}
  BY <1>1 DEF ReceiverAt, ReceiverRests
<1>2. CASE {p, p2} \subseteq 3 .. 6
  BY <1>2 DEF ReceiverAt, ReceiverRests
<1> QED
  BY <1>1, <1>2

(* What a method is begun or resumed with.                                 *)
Begun(t, v) ==
  [pos |-> IF st[On[t]] = 0 THEN 0 ELSE micro[On[t]], wire |-> wire[On[t]],
   self |-> NewData(t, v), selfack |-> 0, changed |-> {}]
LEMMA BegunFacts ==
  ASSUME WireTypes, NEW t \in Thread, NEW v \in {0, 1}
  PROVE  /\ Begun(t, v) \in RunState
         /\ Begun(t, v).wire = wire[On[t]] /\ Begun(t, v).self = NewData(t, v)
         /\ Begun(t, v).pos = IF st[On[t]] = 0 THEN 0 ELSE micro[On[t]]
         /\ Start(t, v) = From(IF st[On[t]] = 0 THEN 1 ELSE st[On[t]], Begun(t, v))
<1> DEFINE c == On[t]
           b == Begun(t, v)
<1>1. c \in Chan /\ wire[c] \in [Wire -> {0, 1, X}] /\ micro[c] \in Nat /\ data[c] \in {0, 1}
      /\ NewData(t, v) \in {0, 1}
  BY OnTypes DEF WireTypes, NewData
<1>2. b \in RunState
  BY <1>1 DEF RunState, Begun
<1>3. b = [StateOf(c, IF st[c] = 0 THEN 0 ELSE micro[c]) EXCEPT !.self = NewData(t, v)]
  BY DEF Begun, StateOf
<1>4. b.wire = wire[c] /\ b.self = NewData(t, v) /\ b.pos = IF st[c] = 0 THEN 0 ELSE micro[c]
  BY DEF Begun
<1> QED
  BY <1>2, <1>3, <1>4 DEF Start, From, Left

LEMMA ResultIs ==
  ASSUME FragmentInv, WireTypes, NEW t \in Thread, NEW wakeup, NEW lst, NEW sh,
         Woken(t, wakeup, lst, sh), at[t] \in {"whole", "plus", "minus"}, NEW v \in {0, 1}
  PROVE  /\ resetMode => /\ Result(t, v, wakeup).end = "blocked"
                         /\ Result(t, v, wakeup).st = IF st[On[t]] = 0 THEN 1 ELSE st[On[t]]
                         /\ Result(t, v, wakeup).run = Begun(t, v)
         /\ ~resetMode => \E half \in BOOLEAN :
              /\ IF at[t] = "plus" THEN Yes(half) ELSE ~half
              /\ Result(t, v, wakeup) =
                   Driven(t, half, From(IF st[On[t]] = 0 THEN 1 ELSE st[On[t]], Begun(t, v)))
<1> DEFINE i == IF st[On[t]] = 0 THEN 1 ELSE st[On[t]]
           half == FlavorAfter(t, wakeup) = 1 /\ Sign(t) # 0
<1>1. Start(t, v) = From(i, Begun(t, v))
  BY BegunFacts
<1>2. half \in BOOLEAN
  OBVIOUS
<1>3. half <=> at[t] = "plus"
  BY FlavorFacts DEF Sign
<1>4. IF at[t] = "plus" THEN Yes(half) ELSE ~half
  BY <1>3 DEF Yes
<1>5. ~resetMode => Result(t, v, wakeup) = Driven(t, half, From(i, Begun(t, v)))
  BY <1>1 DEF Result
<1>6. resetMode => /\ Result(t, v, wakeup).end = "blocked"
                   /\ Result(t, v, wakeup).st = i
                   /\ Result(t, v, wakeup).run = Begun(t, v)
  BY <1>1 DEF Result, From, Left
<1> HIDE DEF half
<1> QED
  BY <1>2, <1>4, <1>5, <1>6

(* All there is to know of a step of varSend or varRecv.                   *)
LEMMA CommIs ==
  ASSUME FragmentInv, WireTypes, NEW t \in Thread, NEW wakeup, NEW lst, NEW sh,
         Woken(t, wakeup, lst, sh), Comm(t, wakeup, lst, sh)
  PROVE  /\ at[t] \in {"whole", "plus", "minus"}
         /\ \E v \in {0, 1} :
              /\ (t = "Snd" /\ ~Held(t) /\ Issues(t)) \/ v = data[On[t]]
              /\ CommWith(t, v, wakeup, lst, sh, Result(t, v, wakeup))
<1>1. wakeup <=> Held(t)
  BY HeldIs
<1>2. data[On[t]] \in {0, 1}
  BY OnTypes DEF WireTypes
<1> QED
  BY <1>1, <1>2 DEF Comm

LEMMA CommTypes ==
  ASSUME FragmentInv, WireTypes, resetMode' = resetMode, NEW t \in Thread, NEW wakeup, NEW lst,
         NEW sh, NEW v \in {0, 1}, NEW d, d.st \in 0 .. 3, d.run \in RunState,
         CommWith(t, v, wakeup, lst, sh, d)
  PROVE  WireTypes'
<1>1. d.run.wire \in [Wire -> {0, 1, X}] /\ d.run.self \in {0, 1} /\ d.run.pos \in Nat
  BY DEF RunState
<1>2. /\ wire' = [wire EXCEPT ![On[t]] = d.run.wire]
      /\ data' = [data EXCEPT ![On[t]] = d.run.self]
      /\ st' = [st EXCEPT ![On[t]] = d.st] /\ micro' = [micro EXCEPT ![On[t]] = d.run.pos]
      /\ Issue(t, v, wakeup) /\ Complete(t, d)
  BY DEF CommWith
<1>3. /\ wire' \in [Chan -> [Wire -> {0, 1, X}]] /\ data' \in [Chan -> {0, 1}]
      /\ st' \in [Chan -> 0 .. 3] /\ micro' \in [Chan -> Nat]
  BY <1>1, <1>2, OnTypes DEF WireTypes
<1>4. sent' \in Seq({0, 1}) /\ requests' \in Nat
  BY <1>2 DEF WireTypes, Issue
<1>5. got' \in Seq({0, 1}) /\ sdone' \in Nat /\ probed' \in BOOLEAN
  BY <1>1, <1>2 DEF WireTypes, Complete
<1> QED
  BY <1>3, <1>4, <1>5 DEF WireTypes

(* The two ends one by one, with what is remembered of their values.       *)
SenderDoes(v, d) ==
  LET issues == at["Snd"] \in {"whole", "plus"} IN
  /\ Leaves("Snd", "L", d) /\ ReceiverRests /\ resetMode' = resetMode
  /\ sent' = IF ~Held("Snd") /\ issues THEN Append(sent, v) ELSE sent
  /\ sdone' = IF d.end = "done" /\ issues THEN sdone + 1 ELSE sdone
ReceiverDoes(d) ==
  LET issues == at["Rcv"] \in {"whole", "plus"} IN
  /\ Leaves("Rcv", "R", d) /\ SenderRests /\ resetMode' = resetMode
  /\ requests' = IF ~Held("Rcv") /\ issues THEN requests + 1 ELSE requests
  /\ got' = IF d.end = "done" /\ issues THEN Append(got, d.run.self) ELSE got
  /\ probed' = (probed /\ ~(d.end = "done" /\ issues))

LEMMA CommDoes ==
  ASSUME FragmentInv, WireTypes, resetMode' = resetMode, NEW t \in Thread, NEW wakeup, NEW lst,
         NEW sh, Woken(t, wakeup, lst, sh), NEW v \in {0, 1}, NEW d, d.end \in {"done", "blocked"},
         CommWith(t, v, wakeup, lst, sh, d)
  PROVE  /\ t = "Snd" => SenderDoes(v, d)
         /\ t = "Rcv" => ReceiverDoes(d)
<1>1. wakeup <=> Held(t)
  BY HeldIs
<1>2. Issue(t, v, wakeup) /\ Complete(t, d)
  BY DEF CommWith
<1>3. /\ Leaves(t, On[t], d)
      /\ t = "Snd" => ReceiverRests
      /\ t = "Rcv" => SenderRests
  BY CommLeaves
<1> QED
  BY <1>1, <1>2, <1>3, TwoEnds DEF SenderDoes, ReceiverDoes, Issue, Complete, Issues

(* What a step has to show.                                                *)
KeepsTo(c) == wire'[c] # wire[c] => HandshakeStep(wire[c], wire'[c])
Abstractly == [Abstract!Next]_(Abstract!vars)
Promised ==
  /\ ~resetMode => \A c \in Chan : KeepsTo(c)
  /\ Abstractly

LEMMA Idle ==
  ASSUME UNCHANGED <<sent, sdone, requests, got>> PROVE Abstractly
BY DEF Abstractly, Abstract!vars

LEMMA OneRail ==
  ASSUME NEW r PROVE Cardinality({r}) = 1 /\ {r} # {}
BY FS_Singleton

-----------------------------------------------------------------------------
(* The sender: raises a rail for the value it was given, ...               *)
LEMMA BeginsSend ==
  ASSUME WireTypes, wire["L"] \in [Wire -> {0, 1}], WireTypes', ~resetMode,
         NEW x, NEW a, Handshake(0, x, a), st["L"] \in {0, 1}, at["Snd"] \in {"whole", "plus"},
         NEW v \in {0, 1}, NEW d, SenderDoes(v, d), ~Held("Snd") \/ v = data["L"],
         NEW r \in Forward, r = Code[v], Stops(d, 2, "send_up", [wire["L"] EXCEPT ![r] = 1])
  PROVE  Handshake(1, r, a)' /\ Promised
<1> DEFINE w == [wire["L"] EXCEPT ![r] = 1]
<1>1. Ring(0, x, a) /\ SenderAt(0) /\ ReceiverAt(0) /\ Tally(0, x) /\ a \in Wire \ Forward
  BY DEF Handshake
<1>2. Data(wire["L"]) = {} /\ Data(wire["R"]) = {} /\ Acked(wire["L"]) = {} /\ Acked(wire["R"]) = {}
  BY <1>1 DEF Ring
<1>3. Data(w) = {r} /\ Acked(w) = {}
  BY <1>2, RaisesData
<1>4. wire'["L"] = w /\ wire'["R"] = wire["R"]
  BY TwoEnds DEF SenderDoes, Leaves, Stops, WireTypes
<1> HIDE DEF w
<1>5. Ring(1, r, a)'
  BY <1>2, <1>3, <1>4 DEF Ring
<1>6. SenderAt(1)'
  BY DEF SenderDoes, Leaves, Stops, SenderAt
<1>7. ReceiverAt(1)'
  BY <1>1, ReceiverStays DEF SenderDoes
<1>8. /\ Sets = Gets /\ Gets = Len(got) /\ st["R"] \in {0, 1} /\ ~probed
      /\ sdone = IF st["L"] = 0 THEN Len(sent) ELSE Len(sent) - 1
      /\ \A i \in 1 .. Len(got) : got[i] = sent[i]
      /\ requests = IF st["R"] = 0 \/ at["Rcv"] = "minus" THEN Len(got) ELSE Len(got) + 1
  BY <1>1 DEF Tally, Gets, ReceiverAt
<1>9. Len(sent) \in Nat /\ Len(got) \in Nat /\ sdone \in Nat /\ sent \in Seq({0, 1})
  BY DEF WireTypes
<1>10. /\ Len(sent') = Len(got) + 1 /\ sent'[Len(sent')] = v
       /\ \A i \in 1 .. Len(got) : sent'[i] = sent[i]
       /\ IF st["L"] = 0 THEN sent' = Append(sent, v) /\ ~Held("Snd") /\ Len(sent) < MaxComms
                         ELSE sent' = sent
       /\ sdone' = sdone
  <2>1. CASE st["L"] = 0
    <3>1. ~Held("Snd") /\ sent' = Append(sent, v) /\ Len(sent) < MaxComms
      BY <1>1, <2>1 DEF SenderAt, SenderDoes
    <3>2. Len(sent) = Len(got)
      BY <1>8, <2>1 DEF Sets
    <3> QED
      BY <1>9, <2>1, <3>1, <3>2 DEF SenderDoes, Stops
  <2>2. CASE st["L"] = 1
    <3>1. Held("Snd") /\ sent' = sent /\ v = sent[Len(sent)]
      BY <1>1, <2>2 DEF SenderAt, SenderDoes
    <3>2. Len(sent) = Len(got) + 1
      BY <1>8, <1>9, <2>2 DEF Sets
    <3> QED
      BY <1>9, <2>2, <3>1, <3>2 DEF SenderDoes, Stops
  <2> QED
    BY <2>1, <2>2
<1>11. st'["L"] = 2 /\ at'["Snd"] # "minus"
  BY DEF SenderDoes, Leaves, Stops
<1>12. ReceiverRests
  BY DEF SenderDoes
<1>13. Tally(1, r)'
  <2>1. Sets' = Len(sent') /\ Gets' = Len(got)
    BY <1>8, <1>11, <1>12 DEF Sets, Gets, ReceiverRests
  <2>2. sdone' = Len(sent') - 1
    BY <1>8, <1>9, <1>10
  <2> QED
    BY <1>8, <1>9, <1>10, <1>11, <1>12, <2>1, <2>2 DEF Tally, ReceiverRests
<1>14. \A c \in Chan : KeepsTo(c)
  <2>1. KeepsTo("R")
    BY <1>4 DEF KeepsTo
  <2>2. HandshakeStep(wire["L"], wire'["L"])
    BY <1>2, <1>3, <1>4, OneRail DEF HandshakeStep
  <2> QED
    BY <2>1, <2>2, TwoEnds DEF KeepsTo
<1>15. Abstractly
  <2>1. CASE st["L"] = 0
    <3>1. Abstract!Offer(v)
      BY <1>8, <1>10, <1>12, <2>1 DEF Abstract!Offer, ReceiverRests
    <3> QED
      BY <3>1 DEF Abstractly, Abstract!Next
  <2>2. CASE st["L"] # 0
    BY <1>10, <1>12, <2>2, Idle DEF ReceiverRests
  <2> QED
    BY <2>1, <2>2
<1>16. resetMode' = FALSE
  BY DEF SenderDoes, WireTypes
<1> QED
  BY <1>1, <1>5, <1>6, <1>7, <1>13, <1>14, <1>15, <1>16 DEF Handshake, Promised

(* ... waits, or is woken up for nothing, ...                              *)
LEMMA SenderWaits ==
  ASSUME WireTypes, WireTypes', ~resetMode, NEW p, NEW x, NEW a, Handshake(p, x, a),
         Held("Snd"), at["Snd"] # "end", NEW v, NEW d, SenderDoes(v, d),
         \/ st["L"] = 2 /\ Stops(d, 2, "send_up", wire["L"])
         \/ st["L"] = 3 /\ Stops(d, 3, "send_rest", wire["L"])
  PROVE  Handshake(p, x, a)' /\ Promised
<1>1. Ring(p, x, a) /\ SenderAt(p) /\ ReceiverAt(p) /\ Tally(p, x) /\ p \in 0 .. 7
  BY DEF Handshake
<1>2. wire' = wire
  BY TwoEnds DEF SenderDoes, Leaves, Stops, WireTypes
<1>3. st'["L"] = st["L"] /\ at'["Snd"] = at["Snd"] /\ sent' = sent /\ sdone' = sdone /\ Held("Snd")'
      /\ ReceiverRests /\ resetMode' = FALSE
  BY DEF SenderDoes, Leaves, Stops, WireTypes
<1>4. micro'["L"] \in IF st["L"] = 2 THEN Parks("send_up") ELSE Parks("send_rest")
  BY DEF SenderDoes, Leaves, Stops
<1>5. SenderAt(p)'
  <2>1. CASE st["L"] = 2
    BY <1>1, <1>3, <1>4, <2>1 DEF SenderAt
  <2>2. CASE st["L"] = 3
    BY <1>1, <1>3, <1>4, <2>2 DEF SenderAt
  <2> QED
    BY <2>1, <2>2
<1>6. ReceiverAt(p)'
  <2>1. {p, p} \subseteq {7, 0, 1, 2} \/ {p, p} \subseteq 3 .. 6
    BY <1>1
  <2> QED
    BY <1>1, <1>3, <2>1, ReceiverStays
<1>7. Ring(p, x, a)'
  BY <1>1, <1>2 DEF Ring
<1>8. Tally(p, x)'
  BY <1>1, <1>3 DEF Tally, Sets, Gets, ReceiverRests
<1>9. Promised
  BY <1>2, <1>3, Idle DEF Promised, KeepsTo, ReceiverRests
<1> QED
  BY <1>3, <1>5, <1>6, <1>7, <1>8, <1>9 DEF Handshake

(* ... withdraws the data when it has been acknowledged, ...               *)
LEMMA SenderLowers ==
  ASSUME WireTypes, wire["L"] \in [Wire -> {0, 1}], WireTypes', ~resetMode,
         NEW x, NEW a, Handshake(4, x, a), NEW v, NEW d, SenderDoes(v, d),
         \/ st["L"] = 2 /\ at["Snd"] = "whole" /\ Held("Snd")
         \/ st["L"] = 3 /\ at["Snd"] = "minus" /\ ~Held("Snd"),
         Stops(d, 3, "send_rest", Lowered(wire["L"], Forward))
  PROVE  Handshake(5, x, a)' /\ Promised
<1> DEFINE w == Lowered(wire["L"], Forward)
<1>1. Ring(4, x, a) /\ SenderAt(4) /\ ReceiverAt(4) /\ Tally(4, x)
      /\ x \in Forward /\ a \in Wire \ Forward
  BY DEF Handshake
<1>2. /\ Data(wire["L"]) = {x} /\ Data(wire["R"]) = {x}
      /\ Acked(wire["L"]) = {a} /\ Acked(wire["R"]) = {a}
  BY <1>1 DEF Ring
<1>3. Data(w) = {} /\ Acked(w) = {a}
  BY <1>2, LowersData
<1>4. wire'["L"] = w /\ wire'["R"] = wire["R"]
  BY TwoEnds DEF SenderDoes, Leaves, Stops, WireTypes
<1> HIDE DEF w
<1>5. st'["L"] = 3 /\ at'["Snd"] = at["Snd"] /\ sent' = sent /\ sdone' = sdone /\ Held("Snd")'
      /\ ReceiverRests /\ resetMode' = FALSE /\ micro'["L"] \in Parks("send_rest")
  BY DEF SenderDoes, Leaves, Stops, WireTypes
<1>6. SenderAt(5)'
  BY <1>5 DEF SenderAt
<1>7. ReceiverAt(5)'
  BY <1>1, <1>5, ReceiverStays
<1>8. Ring(5, x, a)'
  BY <1>2, <1>3, <1>4 DEF Ring
<1>9. Tally(5, x)'
  BY <1>1, <1>5 DEF Tally, Sets, Gets, ReceiverRests
<1>10. HandshakeStep(wire["L"], wire'["L"])
  BY <1>2, <1>3, <1>4, OneRail DEF HandshakeStep
<1>11. Promised
  BY <1>4, <1>5, <1>10, Idle, TwoEnds DEF Promised, KeepsTo, ReceiverRests
<1> QED
  BY <1>1, <1>5, <1>6, <1>7, <1>8, <1>9, <1>11 DEF Handshake

(* At phase 4 and at phase 0 the receiver has issued what was sent.        *)
LEMMA Requested ==
  ASSUME WireTypes, NEW p \in {4, 0}, NEW x, NEW a, Handshake(p, x, a), st["L"] \in {2, 3}
  PROVE  Len(sent) <= requests
<1>1. ReceiverAt(p) /\ Tally(p, x)
  BY DEF Handshake
<1>2. /\ Len(sent) = Gets /\ Len(got) \in Nat
      /\ requests = IF st["R"] = 0 \/ at["Rcv"] = "minus" THEN Len(got) ELSE Len(got) + 1
      /\ st["R"] = 3 => at["Rcv"] \in {"whole", "minus"}
  BY <1>1 DEF Tally, Sets, WireTypes, ReceiverAt
<1>3. CASE st["R"] = 3 /\ at["Rcv"] = "whole"
  BY <1>2, <1>3 DEF Gets
<1>4. CASE ~(st["R"] = 3 /\ at["Rcv"] = "whole")
  BY <1>2, <1>4 DEF Gets
<1> QED
  BY <1>3, <1>4

(* ... has completed the first half, ...                                   *)
LEMMA SenderHalf ==
  ASSUME WireTypes, WireTypes', ~resetMode, NEW x, NEW a, Handshake(4, x, a),
         NEW v, NEW d, SenderDoes(v, d),
         st["L"] = 2, at["Snd"] = "plus", Held("Snd"), Ends(d, 3, wire["L"])
  PROVE  Handshake(4, x, a)' /\ Promised
<1>1. Ring(4, x, a) /\ SenderAt(4) /\ ReceiverAt(4) /\ Tally(4, x)
      /\ x \in Forward /\ a \in Wire \ Forward
  BY DEF Handshake
<1>2. wire' = wire
  BY TwoEnds DEF SenderDoes, Leaves, Ends, WireTypes
<1>3. st'["L"] = 3 /\ micro'["L"] = 0 /\ ~Held("Snd")' /\ at'["Snd"] = "minus"
  BY DEF SenderDoes, Leaves, Ends, After
<1>4. sent' = sent /\ sdone' = sdone + 1 /\ ReceiverRests /\ resetMode' = FALSE
  BY DEF SenderDoes, Ends, WireTypes
<1>5. SenderAt(4)'
  BY <1>3 DEF SenderAt
<1>6. ReceiverAt(4)'
  BY <1>1, <1>4, ReceiverStays
<1>7. Ring(4, x, a)'
  BY <1>1, <1>2 DEF Ring
<1>8. sdone = Len(sent) - 1 /\ Len(sent) \in Nat /\ sdone < requests
  <2>1. Len(sent) <= requests
    BY Requested
  <2>2. sdone = Len(sent) - 1
    BY <1>1 DEF Tally
  <2> QED
    BY <2>1, <2>2 DEF WireTypes
<1>9. Tally(4, x)'
  BY <1>1, <1>3, <1>4, <1>8 DEF Tally, Sets, Gets, ReceiverRests
<1>10. Abstract!CompleteSend
  BY <1>4, <1>8 DEF Abstract!CompleteSend, WireTypes, ReceiverRests
<1>11. Promised
  BY <1>2, <1>10 DEF Promised, KeepsTo, Abstractly, Abstract!Next
<1> QED
  BY <1>1, <1>4, <1>5, <1>6, <1>7, <1>9, <1>11 DEF Handshake

(* ... or all of the protocol.                                             *)
LEMMA SenderEnds ==
  ASSUME FragmentInv, WireTypes, WireTypes', ~resetMode, NEW x, NEW a, Handshake(0, x, a),
         NEW v, NEW d, SenderDoes(v, d),
         st["L"] = 3, Held("Snd"), Ends(d, 0, wire["L"])
  PROVE  Handshake(0, x, a)' /\ Promised
<1>1. Ring(0, x, a) /\ SenderAt(0) /\ ReceiverAt(0) /\ Tally(0, x)
      /\ x \in Forward /\ a \in Wire \ Forward
  BY DEF Handshake
<1>2. wire' = wire
  BY TwoEnds DEF SenderDoes, Leaves, Ends, WireTypes
<1>3. at["Snd"] \in {"whole", "minus"}
  BY <1>1 DEF SenderAt
<1>4. sent' = sent /\ sdone' = (IF at["Snd"] = "whole" THEN sdone + 1 ELSE sdone)
      /\ ReceiverRests /\ resetMode' = FALSE
  BY <1>3 DEF SenderDoes, Ends, WireTypes
<1>5. st'["L"] = 0 /\ ~Held("Snd")'
      /\ at'["Snd"] = IF Len(sent) < MaxComms THEN First("Snd") ELSE "end"
  BY <1>3, <1>4 DEF SenderDoes, Leaves, Ends, After
<1>6. First("Snd") \in {"whole", "plus"}
  BY DEF First
<1>7. SenderAt(0)'
  BY <1>4, <1>5, <1>6 DEF SenderAt
<1>8. ReceiverAt(0)'
  BY <1>1, <1>4, ReceiverStays
<1>9. Ring(0, x, a)'
  BY <1>1, <1>2 DEF Ring
<1>10. /\ sdone = (IF at["Snd"] = "minus" THEN Len(sent) ELSE Len(sent) - 1)
       /\ Len(sent) \in Nat /\ sdone \in Nat
  BY <1>1 DEF Tally, WireTypes
<1>11. sdone' = Len(sent')
  BY <1>3, <1>4, <1>10
<1>12. Tally(0, x)'
  BY <1>1, <1>4, <1>5, <1>11 DEF Tally, Sets, Gets, ReceiverRests
<1>13. Abstractly
  <2>1. CASE at["Snd"] = "whole"
    <3>1. sdone < Len(sent) /\ sdone < requests
      BY <1>10, <2>1, Requested DEF WireTypes
    <3>2. Abstract!CompleteSend
      BY <1>4, <2>1, <3>1 DEF Abstract!CompleteSend, ReceiverRests
    <3> QED
      BY <3>2 DEF Abstractly, Abstract!Next
  <2>2. CASE at["Snd"] = "minus"
    BY <1>4, <2>2, Idle DEF ReceiverRests
  <2> QED
    BY <1>3, <2>1, <2>2
<1>14. Promised
  BY <1>2, <1>13 DEF Promised, KeepsTo
<1> QED
  BY <1>1, <1>4, <1>7, <1>8, <1>9, <1>12, <1>14 DEF Handshake

(* The receiver: waits for the data, ...                                   *)
LEMMA ReceiverWaits ==
  ASSUME WireTypes, WireTypes', ~resetMode, NEW p, NEW x, NEW a, Handshake(p, x, a),
         p # 2, st["R"] \in {0, 1}, at["Rcv"] \in {"whole", "plus"},
         NEW d, ReceiverDoes(d), Stops(d, 1, "get", wire["R"])
  PROVE  Handshake(p, x, a)' /\ Promised
<1>1. Ring(p, x, a) /\ SenderAt(p) /\ ReceiverAt(p) /\ Tally(p, x) /\ p \in 0 .. 7
  BY DEF Handshake
<1>2. wire' = wire
  BY TwoEnds DEF ReceiverDoes, Leaves, Stops, WireTypes
<1>3. /\ p \in {7, 0, 1, 2} /\ ~probed
      /\ IF st["R"] = 0 THEN requests = Len(got) /\ requests < MaxComms /\ ~Held("Rcv")
                        ELSE requests = Len(got) + 1 /\ Held("Rcv")
  BY <1>1 DEF ReceiverAt, Tally
<1>4. st'["R"] = 1 /\ at'["Rcv"] = at["Rcv"] /\ Held("Rcv")' /\ micro'["R"] \in Parks("get")
      /\ SenderRests /\ got' = got /\ probed' = FALSE /\ resetMode' = FALSE
      /\ requests' = IF Held("Rcv") THEN requests ELSE requests + 1
  BY <1>3 DEF ReceiverDoes, Leaves, Stops, WireTypes
<1>5. ReceiverAt(p)'
  BY <1>3, <1>4 DEF ReceiverAt
<1>6. SenderAt(p)'
  BY <1>1, <1>4, SenderStays
<1>7. Ring(p, x, a)'
  BY <1>1, <1>2 DEF Ring
<1>8. requests' = Len(got) + 1
  BY <1>3, <1>4
<1>9. Tally(p, x)'
  BY <1>1, <1>4, <1>8 DEF Tally, Sets, Gets, SenderRests
<1>10. Abstractly
  <2>1. CASE st["R"] = 0
    <3>1. Abstract!Request
      BY <1>3, <1>4, <2>1 DEF Abstract!Request, SenderRests
    <3> QED
      BY <3>1 DEF Abstractly, Abstract!Next
  <2>2. CASE st["R"] # 0
    BY <1>3, <1>4, <2>2, Idle DEF SenderRests
  <2> QED
    BY <2>1, <2>2
<1>11. Promised
  BY <1>2, <1>10 DEF Promised, KeepsTo
<1> QED
  BY <1>1, <1>4, <1>5, <1>6, <1>7, <1>9, <1>11 DEF Handshake

(* ... reads and acknowledges it, ...                                      *)
LEMMA ReceiverReads ==
  ASSUME WireTypes, wire["R"] \in [Wire -> {0, 1}], WireTypes', ~resetMode,
         NEW x, NEW a0, Handshake(2, x, a0), st["R"] \in {0, 1},
         at["Rcv"] \in {"whole", "plus"}, NEW d, ReceiverDoes(d), d.run.self = sent[Len(sent)],
         NEW a \in Wire \ Forward, NEW w, w = [wire["R"] EXCEPT ![a] = 1],
         IF at["Rcv"] = "plus" THEN Ends(d, 3, w) ELSE Stops(d, 3, "recv_rest", w)
  PROVE  Handshake(3, x, a)' /\ Promised
<1>1. Ring(2, x, a0) /\ SenderAt(2) /\ ReceiverAt(2) /\ Tally(2, x) /\ x \in Forward
  BY DEF Handshake
<1>2. Data(wire["L"]) = {x} /\ Data(wire["R"]) = {x} /\ Acked(wire["L"]) = {} /\ Acked(wire["R"]) = {}
  BY <1>1 DEF Ring
<1>3. Data(w) = {x} /\ Acked(w) = {a}
  BY <1>2, RaisesAck
<1>4. wire'["R"] = w /\ wire'["L"] = wire["L"]
  BY TwoEnds DEF ReceiverDoes, Leaves, Stops, Ends, WireTypes
<1>5. /\ Len(got) \in Nat /\ Len(sent) \in Nat /\ got \in Seq({0, 1})
      /\ Len(sent) = Len(got) + 1 /\ st["L"] = 2
      /\ IF st["R"] = 0 THEN requests = Len(got) /\ requests < MaxComms /\ ~Held("Rcv")
                        ELSE requests = Len(got) + 1 /\ Held("Rcv")
  BY <1>1 DEF ReceiverAt, SenderAt, Tally, Sets, Gets, WireTypes
<1>6. SenderRests /\ resetMode' = FALSE /\ st'["R"] = 3 /\ data'["R"] = sent[Len(sent)]
  BY DEF ReceiverDoes, WireTypes, Leaves, Stops, Ends
<1>7. requests' = Len(got) + 1
  BY <1>5 DEF ReceiverDoes
<1>8. IF at["Rcv"] = "plus"
        THEN /\ micro'["R"] = 0 /\ ~Held("Rcv")' /\ at'["Rcv"] = "minus"
             /\ got' = Append(got, sent[Len(got) + 1]) /\ probed' = FALSE
        ELSE /\ micro'["R"] \in Parks("recv_rest") /\ Held("Rcv")' /\ at'["Rcv"] = "whole"
             /\ got' = got
  BY <1>5 DEF ReceiverDoes, Leaves, Stops, Ends, After
<1>9. ReceiverAt(3)'
  BY <1>6, <1>8 DEF ReceiverAt
<1>10. SenderAt(3)'
  BY <1>1, <1>6, SenderStays
<1> HIDE DEF Handshake
<1>11. Ring(3, x, a)'
  BY <1>2, <1>3, <1>4 DEF Ring
<1>12. /\ \A i \in 1 .. Len(got) : got[i] = sent[i]
       /\ sdone = IF st["L"] = 0 \/ at["Snd"] = "minus" THEN Len(sent) ELSE Len(sent) - 1
  BY <1>1 DEF Tally
<1>13. Tally(3, x)'
  <2>1. Sets' = Len(sent) /\ sent' = sent
        /\ sdone' = IF st'["L"] = 0 \/ at'["Snd"] = "minus" THEN Len(sent) ELSE Len(sent) - 1
    BY <1>5, <1>6, <1>12 DEF Sets, SenderRests
  <2>2. CASE at["Rcv"] = "plus"
    <3>1. Len(got') = Len(got) + 1 /\ \A i \in 1 .. Len(got') : got'[i] = sent[i]
      BY <1>5, <1>8, <1>12, <2>2
    <3>2. Gets' = Len(got')
      BY <1>8, <2>2 DEF Gets
    <3> QED
      BY <1>5, <1>6, <1>7, <1>8, <2>1, <2>2, <3>1, <3>2 DEF Tally
  <2>3. CASE at["Rcv"] = "whole"
    <3>1. Gets' = Len(got) + 1 /\ got' = got
      BY <1>6, <1>8, <2>3 DEF Gets
    <3> QED
      BY <1>5, <1>6, <1>7, <1>8, <1>12, <2>1, <2>3, <3>1 DEF Tally
  <2> QED
    BY <2>2, <2>3
<1>14. HandshakeStep(wire["R"], wire'["R"])
  BY <1>2, <1>3, <1>4, OneRail DEF HandshakeStep
<1>15. Abstractly
  <2>1. CASE st["R"] = 0
    <3>1. Abstract!Request
      BY <1>5, <1>6, <1>7, <1>8, <2>1 DEF Abstract!Request, SenderRests
    <3> QED
      BY <3>1 DEF Abstractly, Abstract!Next
  <2>2. CASE st["R"] = 1 /\ at["Rcv"] = "plus"
    <3>1. Abstract!CompleteReceive
      BY <1>5, <1>6, <1>7, <1>8, <2>2 DEF Abstract!CompleteReceive, SenderRests
    <3> QED
      BY <3>1 DEF Abstractly, Abstract!Next
  <2>3. CASE st["R"] = 1 /\ at["Rcv"] = "whole"
    BY <1>5, <1>6, <1>7, <1>8, <2>3, Idle DEF SenderRests
  <2> QED
    BY <2>1, <2>2, <2>3
<1>16. Promised
  BY <1>4, <1>14, <1>15, TwoEnds DEF Promised, KeepsTo
<1> QED
  BY <1>1, <1>6, <1>9, <1>10, <1>11, <1>13, <1>16 DEF Handshake

(* ... waits for it to be withdrawn, ...                                   *)
LEMMA ReceiverRestWaits ==
  ASSUME WireTypes, WireTypes', ~resetMode, NEW p, NEW x, NEW a, Handshake(p, x, a),
         st["R"] = 3, at["Rcv"] \in {"whole", "minus"}, NEW d, ReceiverDoes(d),
         Held("Rcv") \/ at["Rcv"] = "minus",
         d.run.self = data["R"], Stops(d, 3, "recv_rest", wire["R"])
  PROVE  Handshake(p, x, a)' /\ Promised
<1>1. Ring(p, x, a) /\ SenderAt(p) /\ ReceiverAt(p) /\ Tally(p, x) /\ p \in 3 .. 6
  BY DEF Handshake, ReceiverAt
<1>2. wire' = wire
  BY TwoEnds DEF ReceiverDoes, Leaves, Stops, WireTypes
<1>3. st'["R"] = 3 /\ at'["Rcv"] = at["Rcv"] /\ Held("Rcv")' /\ micro'["R"] \in Parks("recv_rest")
      /\ data'["R"] = data["R"] /\ resetMode' = FALSE
  BY DEF ReceiverDoes, Leaves, Stops, WireTypes
<1>4. SenderRests /\ got' = got /\ probed' = probed /\ requests' = requests
  BY DEF ReceiverDoes, Stops, WireTypes
<1>5. ReceiverAt(p)'
  BY <1>1, <1>3 DEF ReceiverAt
<1>6. SenderAt(p)'
  BY <1>1, <1>4, SenderStays
<1>7. Ring(p, x, a)'
  BY <1>1, <1>2 DEF Ring
<1>8. Tally(p, x)'
  BY <1>1, <1>3, <1>4 DEF Tally, Sets, Gets, SenderRests
<1>9. Promised
  BY <1>2, <1>4, Idle DEF Promised, KeepsTo, SenderRests
<1> QED
  BY <1>1, <1>3, <1>5, <1>6, <1>7, <1>8, <1>9 DEF Handshake

(* ... and withdraws the acknowledge.                                      *)
LEMMA ReceiverEnds ==
  ASSUME WireTypes, wire["R"] \in [Wire -> {0, 1}], WireTypes', ~resetMode,
         NEW x, NEW a, Handshake(6, x, a),
         st["R"] = 3, at["Rcv"] \in {"whole", "minus"}, NEW d, ReceiverDoes(d),
         Held("Rcv") \/ at["Rcv"] = "minus",
         d.run.self = data["R"], Ends(d, 0, Lowered(wire["R"], Wire \ Forward))
  PROVE  Handshake(7, x, a)' /\ Promised
<1> DEFINE w == Lowered(wire["R"], Wire \ Forward)
<1>1. Ring(6, x, a) /\ SenderAt(6) /\ Tally(6, x) /\ x \in Forward /\ a \in Wire \ Forward
  BY DEF Handshake
<1>2. Data(wire["L"]) = {} /\ Data(wire["R"]) = {} /\ Acked(wire["L"]) = {a} /\ Acked(wire["R"]) = {a}
  BY <1>1 DEF Ring
<1>3. Data(w) = {} /\ Acked(w) = {}
  BY <1>2, LowersAck
<1>4. wire'["R"] = w /\ wire'["L"] = wire["L"]
  BY TwoEnds DEF ReceiverDoes, Leaves, Ends, WireTypes
<1> HIDE DEF w
<1>5. /\ Len(got) \in Nat /\ Len(sent) \in Nat /\ got \in Seq({0, 1}) /\ Sets = Gets
      /\ Sets = Len(sent)
      /\ requests = IF at["Rcv"] = "minus" THEN Len(got) ELSE Len(got) + 1
      /\ at["Rcv"] = "minus" => ~probed
      /\ at["Rcv"] = "whole" => Gets = Len(got) + 1 /\ data["R"] = sent[Len(got) + 1]
      /\ at["Rcv"] = "minus" => Gets = Len(got)
  BY <1>1 DEF Tally, Sets, Gets, SenderAt, WireTypes
<1>6. SenderRests /\ resetMode' = FALSE /\ st'["R"] = 0 /\ ~Held("Rcv")' /\ requests' = requests
      /\ at'["Rcv"] = IF requests < MaxComms THEN First("Rcv") ELSE "end"
  BY DEF ReceiverDoes, WireTypes, Leaves, Ends, After
<1>7. /\ got' = (IF at["Rcv"] = "whole" THEN Append(got, data["R"]) ELSE got)
      /\ probed' = FALSE
  BY <1>5 DEF ReceiverDoes, Ends
<1>8. First("Rcv") \in {"probe", "whole", "plus"}
  BY DEF First
<1>9. ReceiverAt(7)'
  BY <1>6, <1>8 DEF ReceiverAt
<1>10. SenderAt(7)'
  BY <1>1, <1>6, SenderStays
<1>11. Ring(7, x, a)'
  BY <1>2, <1>3, <1>4 DEF Ring
<1>12. /\ \A i \in 1 .. Len(got) : got[i] = sent[i]
       /\ sdone = IF st["L"] = 0 \/ at["Snd"] = "minus" THEN Len(sent) ELSE Len(sent) - 1
  BY <1>1 DEF Tally
<1>13. /\ Len(got') = Len(sent) /\ requests' = Len(got')
       /\ \A i \in 1 .. Len(got') : got'[i] = sent[i]
  <2>1. CASE at["Rcv"] = "whole"
    <3>1. got' = Append(got, sent[Len(got) + 1]) /\ Len(sent) = Len(got) + 1
      BY <1>5, <1>7, <2>1
    <3> QED
      BY <1>5, <1>6, <1>12, <2>1, <3>1
  <2>2. CASE at["Rcv"] = "minus"
    BY <1>5, <1>6, <1>7, <1>12, <2>2
  <2> QED
    BY <2>1, <2>2
<1>14. Tally(7, x)'
  <2>1. Sets' = Len(sent) /\ sent' = sent /\ Gets' = Len(got')
        /\ sdone' = IF st'["L"] = 0 \/ at'["Snd"] = "minus" THEN Len(sent) ELSE Len(sent) - 1
    BY <1>5, <1>6, <1>12 DEF Sets, Gets, SenderRests
  <2> QED
    BY <1>6, <1>7, <1>13, <2>1 DEF Tally
<1>15. HandshakeStep(wire["R"], wire'["R"])
  BY <1>2, <1>3, <1>4 DEF HandshakeStep
<1>16. Abstractly
  <2>1. CASE at["Rcv"] = "whole"
    <3>1. Abstract!CompleteReceive
      BY <1>5, <1>6, <1>7, <2>1 DEF Abstract!CompleteReceive, SenderRests
    <3> QED
      BY <3>1 DEF Abstractly, Abstract!Next
  <2>2. CASE at["Rcv"] = "minus"
    BY <1>6, <1>7, <2>2, Idle DEF SenderRests
  <2> QED
    BY <2>1, <2>2
<1>17. Promised
  BY <1>4, <1>15, <1>16, TwoEnds DEF Promised, KeepsTo
<1> QED
  BY <1>1, <1>6, <1>9, <1>10, <1>11, <1>14, <1>17 DEF Handshake
-----------------------------------------------------------------------------
(* A step of the protocol, out of reset.                                   *)
LEMMA StepFacts ==
  ASSUME FragmentInv, WireTypes, wire \in [Chan -> [Wire -> {0, 1}]], resetMode' = resetMode,
         NEW t \in Thread, NEW wakeup, NEW lst, NEW sh, Woken(t, wakeup, lst, sh),
         NEW v \in {0, 1}, NEW d \in DriveState, d.end # "runs", d.run.wire \in [Wire -> {0, 1}],
         CommWith(t, v, wakeup, lst, sh, d)
  PROVE  /\ WireTypes' /\ wire' \in [Chan -> [Wire -> {0, 1}]]
         /\ t = "Snd" => SenderDoes(v, d)
         /\ t = "Rcv" => ReceiverDoes(d)
<1>1. d.st \in 0 .. 3 /\ d.run \in RunState /\ d.end \in {"done", "blocked"}
  BY DEF DriveState
<1>2. wire' = [wire EXCEPT ![On[t]] = d.run.wire]
  BY DEF CommWith
<1>3. wire' \in [Chan -> [Wire -> {0, 1}]]
  BY <1>2, OnTypes
<1>4. WireTypes'
  BY <1>1, CommTypes
<1>5. (t = "Snd" => SenderDoes(v, d)) /\ (t = "Rcv" => ReceiverDoes(d))
  BY <1>1, CommDoes
<1> QED
  BY <1>3, <1>4, <1>5

LEMMA SenderKeeps ==
  ASSUME FourPhaseType, FragmentInv, PhaseInv, ~resetMode, resetMode' = resetMode,
         NEW wakeup, NEW lst, NEW sh, Woken("Snd", wakeup, lst, sh), Comm("Snd", wakeup, lst, sh)
  PROVE  PhaseInv' /\ Promised
<1>1. WireTypes /\ wire \in [Chan -> [Wire -> {0, 1}]] /\ "Snd" \in Thread /\ "L" \in Chan
      /\ On["Snd"] = "L"
  BY TwoEnds DEF PhaseInv
<1>2. PICK p, x, a : Handshake(p, x, a)
  BY DEF PhaseInv
<1>3. Ring(p, x, a) /\ SenderAt(p) /\ Tally(p, x) /\ p \in 0 .. 7
  BY <1>2 DEF Handshake
<1>4. at["Snd"] \in {"whole", "plus", "minus"}
  BY <1>1, CommIs
<1>5. PICK v \in {0, 1} :
        /\ (~Held("Snd") /\ Issues("Snd")) \/ v = data["L"]
        /\ CommWith("Snd", v, wakeup, lst, sh, Result("Snd", v, wakeup))
  BY <1>1, CommIs
<1> DEFINE i == IF st["L"] = 0 THEN 1 ELSE st["L"]
           b == Begun("Snd", v)
<1>6. PICK half \in BOOLEAN :
        /\ IF at["Snd"] = "plus" THEN Yes(half) ELSE ~half
        /\ Result("Snd", v, wakeup) = Driven("Snd", half, From(i, b))
  BY <1>1, <1>4, ResultIs
<1> DEFINE d == Driven("Snd", half, From(i, b))
<1>7. CommWith("Snd", v, wakeup, lst, sh, d)
  BY <1>5, <1>6
<1>8. /\ b \in RunState /\ b.wire = wire["L"] /\ b.self = NewData("Snd", v)
      /\ b.pos = (IF st["L"] = 0 THEN 0 ELSE micro["L"]) /\ wire["L"] \in [Wire -> {0, 1}]
  BY <1>1, BegunFacts
<1> HIDE DEF b
<1>9. ASSUME d \in DriveState, d.end # "runs", d.run.wire \in [Wire -> {0, 1}],
             SenderDoes(v, d) /\ WireTypes' =>
               Promised /\ \E p2, x2, a2 : Handshake(p2, x2, a2)'
      PROVE  PhaseInv' /\ Promised
  <2> HIDE DEF d
  <2>1. WireTypes' /\ wire' \in [Chan -> [Wire -> {0, 1}]] /\ SenderDoes(v, d)
    BY <1>1, <1>7, <1>9, StepFacts
  <2>2. resetMode' = FALSE
    BY <1>1 DEF WireTypes
  <2> QED
    BY <1>9, <2>1, <2>2 DEF PhaseInv
<1>10. CASE st["L"] \in {0, 1}
  <2> DEFINE r == Code[v]
             w == [wire["L"] EXCEPT ![r] = 1]
  <2>1. p = 0 /\ i = 1 /\ at["Snd"] \in {"whole", "plus"} /\ b.pos = 0
        /\ (~Held("Snd") \/ v = data["L"]) /\ b.self = v
    <3>1. CASE st["L"] = 0
      BY <1>3, <1>4, <1>8, <3>1 DEF SenderAt, NewData
    <3>2. CASE st["L"] = 1
      BY <1>1, <1>3, <1>5, <1>8, <3>2 DEF SenderAt, NewData
    <3> QED
      BY <1>10, <3>1, <3>2
  <2>2. Data(wire["L"]) = {} /\ Acked(wire["L"]) = {}
    BY <1>3, <2>1 DEF Ring
  <2>3. Resumable("set", b)
    BY <1>8, <2>1 DEF Resumable
  <2>4. d \in DriveState /\ Stops(d, 2, "send_up", w)
    BY <1>8, <2>1, <2>2, <2>3, Sends
  <2>5. r \in Forward
    BY CodeIs
  <2> HIDE DEF d, r
  <2>6. w \in [Wire -> {0, 1}]
    BY <1>8, <2>2, <2>5, RaisesData
  <2>7. SenderDoes(v, d) /\ WireTypes' => Handshake(1, r, a)' /\ Promised
    BY <1>1, <1>2, <1>8, <1>10, <2>1, <2>4, <2>5, BeginsSend DEF r
  <2> QED
    BY <1>9, <2>4, <2>6, <2>7 DEF Stops
<1>11. CASE st["L"] = 2
  <2>1. p \in 1 .. 4 /\ i = 2 /\ Held("Snd") /\ at["Snd"] \in {"whole", "plus"}
        /\ b.pos \in Parks("send_up") /\ Data(wire["L"]) # {}
        /\ Acked(wire["L"]) = IF p = 4 THEN {a} ELSE {}
    BY <1>3, <1>8, <1>11, OneRail DEF SenderAt, Ring
  <2>2. Resumable("send_up", b)
    BY <1>8, <2>1 DEF Resumable
  <2>3. CASE p # 4
    <3>1. d \in DriveState /\ Stops(d, 2, "send_up", wire["L"])
      BY <1>8, <2>1, <2>2, <2>3, AwaitsAck
    <3> HIDE DEF d
    <3>2. SenderDoes(v, d) /\ WireTypes' => Handshake(p, x, a)' /\ Promised
      BY <1>1, <1>2, <1>11, <2>1, <3>1, SenderWaits
    <3> QED
      BY <1>8, <1>9, <3>1, <3>2 DEF Stops
  <2>4. CASE p = 4 /\ at["Snd"] = "plus"
    <3>1. d \in DriveState /\ Ends(d, 3, wire["L"])
      BY <1>6, <1>8, <2>1, <2>2, <2>4, OneRail, SeesAckHalf
    <3> HIDE DEF d
    <3>2. SenderDoes(v, d) /\ WireTypes' => Handshake(4, x, a)' /\ Promised
      BY <1>1, <1>2, <1>11, <2>1, <2>4, <3>1, SenderHalf
    <3> QED
      BY <1>8, <1>9, <3>1, <3>2 DEF Ends
  <2>5. CASE p = 4 /\ at["Snd"] = "whole"
    <3>1. d \in DriveState /\ Stops(d, 3, "send_rest", Lowered(wire["L"], Forward))
      BY <1>6, <1>8, <2>1, <2>2, <2>5, OneRail, SeesAck
    <3> HIDE DEF d
    <3>2. SenderDoes(v, d) /\ WireTypes' => Handshake(5, x, a)' /\ Promised
      BY <1>1, <1>2, <1>8, <1>11, <2>1, <2>5, <3>1, SenderLowers
    <3>3. Lowered(wire["L"], Forward) \in [Wire -> {0, 1}]
      BY <1>8, LowersData
    <3> QED
      BY <1>9, <3>1, <3>2, <3>3 DEF Stops
  <2> QED
    BY <2>1, <2>3, <2>4, <2>5
<1>12. CASE st["L"] = 3
  <2>1. /\ i = 3 /\ p \in {4, 5, 6, 7, 0} /\ b.pos \in {0} \cup Parks("send_rest")
        /\ at["Snd"] # "end"
        /\ p = 4 => at["Snd"] = "minus" /\ ~Held("Snd") /\ b.pos = 0
        /\ p # 4 => Held("Snd") /\ Data(wire["L"]) = {}
        /\ Acked(wire["L"]) = IF p = 0 THEN {} ELSE {a}
    BY <1>3, <1>8, <1>12 DEF SenderAt, Ring
  <2>2. Resumable("send_rest", b)
    BY <1>8, <2>1 DEF Resumable
  <2>3. CASE p = 4
    <3>1. d \in DriveState /\ Stops(d, 3, "send_rest", Lowered(wire["L"], Forward))
      BY <1>8, <2>1, <2>2, <2>3, OneRail, Withdraws
    <3> HIDE DEF d
    <3>2. SenderDoes(v, d) /\ WireTypes' => Handshake(5, x, a)' /\ Promised
      BY <1>1, <1>2, <1>8, <1>12, <2>1, <2>3, <3>1, SenderLowers
    <3>3. Lowered(wire["L"], Forward) \in [Wire -> {0, 1}]
      BY <1>8, LowersData
    <3> QED
      BY <1>9, <3>1, <3>2, <3>3 DEF Stops
  <2>4. CASE p \in 5 .. 7
    <3>1. Lowered(wire["L"], Forward) = wire["L"]
      BY <1>8, <2>1, <2>4, LowersNothing
    <3>2. d \in DriveState /\ Stops(d, 3, "send_rest", Lowered(wire["L"], Forward))
      BY <1>8, <2>1, <2>2, <2>4, OneRail, Withdraws
    <3> HIDE DEF d
    <3>3. SenderDoes(v, d) /\ WireTypes' => Handshake(p, x, a)' /\ Promised
      BY <1>1, <1>2, <1>12, <2>1, <2>4, <3>1, <3>2, SenderWaits
    <3> QED
      BY <1>8, <1>9, <3>1, <3>2, <3>3 DEF Stops
  <2>5. CASE p = 0
    <3>1. d \in DriveState /\ Ends(d, 0, wire["L"])
      BY <1>8, <2>1, <2>2, <2>5, SentAll
    <3> HIDE DEF d
    <3>2. SenderDoes(v, d) /\ WireTypes' => Handshake(0, x, a)' /\ Promised
      BY <1>1, <1>2, <1>12, <2>1, <2>5, <3>1, SenderEnds
    <3> QED
      BY <1>8, <1>9, <3>1, <3>2 DEF Ends
  <2> QED
    BY <2>1, <2>3, <2>4, <2>5
<1>13. st["L"] \in 0 .. 3
  BY <1>1 DEF WireTypes
<1> QED
  BY <1>10, <1>11, <1>12, <1>13

LEMMA ReceiverKeeps ==
  ASSUME FourPhaseType, FragmentInv, PhaseInv, ~resetMode, resetMode' = resetMode,
         NEW wakeup, NEW lst, NEW sh, Woken("Rcv", wakeup, lst, sh), Comm("Rcv", wakeup, lst, sh)
  PROVE  PhaseInv' /\ Promised
<1>1. WireTypes /\ wire \in [Chan -> [Wire -> {0, 1}]] /\ "Rcv" \in Thread /\ "R" \in Chan
      /\ On["Rcv"] = "R"
  BY TwoEnds DEF PhaseInv
<1>2. PICK p, x, a : Handshake(p, x, a)
  BY DEF PhaseInv
<1>3. Ring(p, x, a) /\ SenderAt(p) /\ ReceiverAt(p) /\ Tally(p, x) /\ p \in 0 .. 7
  BY <1>2 DEF Handshake
<1>4. at["Rcv"] \in {"whole", "plus", "minus"}
  BY <1>1, CommIs
<1>5. PICK v \in {0, 1} :
        v = data["R"] /\ CommWith("Rcv", v, wakeup, lst, sh, Result("Rcv", v, wakeup))
  BY <1>1, CommIs
<1> DEFINE i == IF st["R"] = 0 THEN 1 ELSE st["R"]
           b == Begun("Rcv", v)
<1>6. PICK half \in BOOLEAN :
        /\ IF at["Rcv"] = "plus" THEN Yes(half) ELSE ~half
        /\ Result("Rcv", v, wakeup) = Driven("Rcv", half, From(i, b))
  BY <1>1, <1>4, ResultIs
<1> DEFINE d == Driven("Rcv", half, From(i, b))
<1>7. CommWith("Rcv", v, wakeup, lst, sh, d)
  BY <1>5, <1>6
<1>8. /\ b \in RunState /\ b.wire = wire["R"] /\ b.self = data["R"]
      /\ b.pos = (IF st["R"] = 0 THEN 0 ELSE micro["R"]) /\ wire["R"] \in [Wire -> {0, 1}]
  BY <1>1, BegunFacts DEF NewData
<1> HIDE DEF b
<1>9. ASSUME d \in DriveState, d.end # "runs", d.run.wire \in [Wire -> {0, 1}],
             ReceiverDoes(d) /\ WireTypes' =>
               Promised /\ \E p2, x2, a2 : Handshake(p2, x2, a2)'
      PROVE  PhaseInv' /\ Promised
  <2> HIDE DEF d
  <2>1. WireTypes' /\ wire' \in [Chan -> [Wire -> {0, 1}]] /\ ReceiverDoes(d)
    BY <1>1, <1>7, <1>9, StepFacts
  <2>2. resetMode' = FALSE
    BY <1>1 DEF WireTypes
  <2> QED
    BY <1>9, <2>1, <2>2 DEF PhaseInv
<1>10. CASE st["R"] \in {0, 1}
  <2>1. /\ p \in {7, 0, 1, 2} /\ i = 1 /\ at["Rcv"] \in {"whole", "plus"}
        /\ b.pos \in {0} \cup Parks("get") /\ Acked(wire["R"]) = {}
        /\ Data(wire["R"]) = IF p = 2 THEN {x} ELSE {}
    BY <1>3, <1>4, <1>8, <1>10 DEF ReceiverAt, Ring
  <2>2. Resumable("get", b)
    BY <1>8, <2>1 DEF Resumable
  <2>3. CASE p # 2
    <3>1. d \in DriveState /\ Stops(d, 1, "get", wire["R"])
      BY <1>8, <2>1, <2>2, <2>3, AwaitsData
    <3> HIDE DEF d
    <3>2. ReceiverDoes(d) /\ WireTypes' => Handshake(p, x, a)' /\ Promised
      BY <1>1, <1>2, <1>10, <2>1, <2>3, <3>1, ReceiverWaits
    <3> QED
      BY <1>8, <1>9, <3>1, <3>2 DEF Stops
  <2>4. CASE p = 2
    <3> DEFINE u == sent[Len(sent)]
    <3>1. u \in {0, 1} /\ Data(wire["R"]) = {Code[u]}
      <4>1. Len(sent) \in Nat /\ Len(sent) = Gets + 1 /\ x = Code[u] /\ Gets \in Nat
            /\ sent \in Seq({0, 1})
        BY <1>1, <1>3, <2>4 DEF Tally, Sets, Gets, SenderAt, WireTypes
      <4> HIDE DEF Gets
      <4>2. Len(sent) \in 1 .. Len(sent)
        BY <4>1
      <4> QED
        BY <2>1, <2>4, <4>1, <4>2
    <3> HIDE DEF u
    <3>2. CASE at["Rcv"] = "whole"
      <4>1. d \in DriveState /\ d.run.self = u
            /\ \E a2 \in Wire \ Forward : Stops(d, 3, "recv_rest", [wire["R"] EXCEPT ![a2] = 1])
        BY <1>6, <1>8, <2>1, <2>2, <3>1, <3>2, Receives
      <4> HIDE DEF d
      <4>2. PICK a2 \in Wire \ Forward : Stops(d, 3, "recv_rest", [wire["R"] EXCEPT ![a2] = 1])
        BY <4>1
      <4>3. [wire["R"] EXCEPT ![a2] = 1] \in [Wire -> {0, 1}]
        BY <1>8, <2>1, RaisesAck
      <4>4. ReceiverDoes(d) /\ WireTypes' => Handshake(3, x, a2)' /\ Promised
        BY <1>1, <1>2, <1>8, <1>10, <2>4, <3>2, <4>1, <4>2, ReceiverReads DEF u
      <4> QED
        BY <1>9, <4>1, <4>2, <4>3, <4>4 DEF Stops
    <3>3. CASE at["Rcv"] = "plus"
      <4>1. d \in DriveState /\ d.run.self = u
            /\ \E a2 \in Wire \ Forward : Ends(d, 3, [wire["R"] EXCEPT ![a2] = 1])
        BY <1>6, <1>8, <2>1, <2>2, <3>1, <3>3, ReceivesHalf
      <4> HIDE DEF d
      <4>2. PICK a2 \in Wire \ Forward : Ends(d, 3, [wire["R"] EXCEPT ![a2] = 1])
        BY <4>1
      <4>3. [wire["R"] EXCEPT ![a2] = 1] \in [Wire -> {0, 1}]
        BY <1>8, <2>1, RaisesAck
      <4>4. ReceiverDoes(d) /\ WireTypes' => Handshake(3, x, a2)' /\ Promised
        BY <1>1, <1>2, <1>8, <1>10, <2>4, <3>3, <4>1, <4>2, ReceiverReads DEF u
      <4> QED
        BY <1>9, <4>1, <4>2, <4>3, <4>4 DEF Ends
    <3> QED
      BY <2>1, <3>2, <3>3
  <2> QED
    BY <2>3, <2>4
<1>11. CASE st["R"] = 3
  <2>1. /\ p \in 3 .. 6 /\ i = 3 /\ at["Rcv"] \in {"whole", "minus"}
        /\ b.pos \in {0} \cup Parks("recv_rest") /\ Acked(wire["R"]) = {a}
        /\ Held("Rcv") \/ at["Rcv"] = "minus"
        /\ Data(wire["R"]) = IF p = 6 THEN {} ELSE {x}
    BY <1>3, <1>8, <1>11 DEF ReceiverAt, Ring
  <2>2. Resumable("recv_rest", b)
    BY <1>8, <2>1 DEF Resumable
  <2>3. CASE p # 6
    <3>1. d \in DriveState /\ Stops(d, 3, "recv_rest", wire["R"]) /\ d.run.self = data["R"]
      BY <1>8, <2>1, <2>2, <2>3, OneRail, AwaitsRest
    <3> HIDE DEF d
    <3>2. ReceiverDoes(d) /\ WireTypes' => Handshake(p, x, a)' /\ Promised
      BY <1>1, <1>2, <1>11, <2>1, <3>1, ReceiverRestWaits
    <3> QED
      BY <1>8, <1>9, <3>1, <3>2 DEF Stops
  <2>4. CASE p = 6
    <3>1. /\ d \in DriveState /\ Ends(d, 0, Lowered(wire["R"], Wire \ Forward))
          /\ d.run.self = data["R"]
      BY <1>8, <2>1, <2>2, <2>4, OneRail, ReceivedAll
    <3> HIDE DEF d
    <3>2. Lowered(wire["R"], Wire \ Forward) \in [Wire -> {0, 1}]
      BY <1>8, LowersAck
    <3>3. ReceiverDoes(d) /\ WireTypes' => Handshake(7, x, a)' /\ Promised
      BY <1>1, <1>2, <1>8, <1>11, <2>1, <2>4, <3>1, ReceiverEnds
    <3> QED
      BY <1>9, <3>1, <3>2, <3>3 DEF Ends
  <2> QED
    BY <2>3, <2>4
<1>12. st["R"] \in {0, 1, 3}
  BY <1>3 DEF ReceiverAt
<1> QED
  BY <1>10, <1>11, <1>12

(* During reset nothing is driven: a thread is left at the beginning of    *)
(* its method.                                                             *)
LEMMA QuietFacts ==
  ASSUME NEW w \in [Wire -> {0, X}] PROVE Data(w) = {} /\ Acked(w) = {}
BY WireAssumption DEF Data, Acked, X

LEMMA ResetSends ==
  ASSUME WireTypes, WireTypes', resetMode, NEW x, NEW a, Handshake(0, x, a),
         at["Snd"] \in {"whole", "plus", "minus"},
         NEW v \in {0, 1}, NEW d, SenderDoes(v, d), Held("Snd") => v = data["L"],
         d.end = "blocked", d.st = IF st["L"] = 0 THEN 1 ELSE st["L"], d.run = Begun("Snd", v)
  PROVE  wire' = wire /\ Handshake(0, x, a)' /\ Promised
<1>1. Ring(0, x, a) /\ SenderAt(0) /\ ReceiverAt(0) /\ Tally(0, x)
      /\ x \in Forward /\ a \in Wire \ Forward
  BY DEF Handshake
<1>2. /\ d.run.wire = wire["L"] /\ d.run.self = (IF st["L"] = 0 THEN v ELSE data["L"])
      /\ d.run.pos = IF st["L"] = 0 THEN 0 ELSE micro["L"]
  BY BegunFacts, TwoEnds DEF NewData
<1>3. wire' = wire
  BY <1>2 DEF SenderDoes, Leaves, WireTypes
<1>4. /\ ReceiverRests /\ resetMode' = TRUE /\ Held("Snd")' /\ at'["Snd"] = at["Snd"]
      /\ st'["L"] = (IF st["L"] = 0 THEN 1 ELSE st["L"])
      /\ micro'["L"] = (IF st["L"] = 0 THEN 0 ELSE micro["L"])
      /\ data'["L"] = (IF st["L"] = 0 THEN v ELSE data["L"])
      /\ sdone' = sdone
      /\ sent' = IF ~Held("Snd") /\ at["Snd"] \in {"whole", "plus"} THEN Append(sent, v) ELSE sent
  BY <1>2 DEF SenderDoes, Leaves, WireTypes
<1>5. ReceiverAt(0)'
  BY <1>1, <1>4, ReceiverStays
<1>6. Ring(0, x, a)'
  BY <1>1, <1>3 DEF Ring
<1>7. Len(sent) \in Nat /\ Len(got) \in Nat /\ sdone \in Nat /\ sent \in Seq({0, 1})
  BY DEF WireTypes
<1>8. SenderAt(0)' /\ Tally(0, x)' /\ Abstractly
  <2>1. CASE st["L"] = 0
    <3>1. ~Held("Snd") /\ at["Snd"] \in {"whole", "plus"} /\ Len(sent) < MaxComms
      BY <1>1, <2>1 DEF SenderAt
    <3>2. sent' = Append(sent, v) /\ Len(sent') = Len(sent) + 1 /\ sent'[Len(sent')] = v
          /\ \A i \in 1 .. Len(sent) : sent'[i] = sent[i]
      BY <1>4, <1>7, <3>1
    <3>3. /\ Len(sent) = Len(got) /\ Gets = Len(got) /\ sdone = Len(sent) /\ st["R"] \in {0, 1}
          /\ ~probed /\ \A i \in 1 .. Len(got) : got[i] = sent[i]
          /\ requests = IF st["R"] = 0 \/ at["Rcv"] = "minus" THEN Len(got) ELSE Len(got) + 1
      BY <1>1, <2>1 DEF Tally, Sets, Gets, ReceiverAt
    <3>4. SenderAt(0)'
      BY <1>4, <2>1, <3>1, <3>2 DEF SenderAt
    <3>5. Sets' = Len(got) /\ Gets' = Len(got)
      BY <1>4, <1>7, <2>1, <3>2, <3>3 DEF Sets, Gets, ReceiverRests
    <3>6. Tally(0, x)'
      BY <1>4, <1>7, <2>1, <3>1, <3>2, <3>3, <3>5 DEF Tally, ReceiverRests
    <3>7. Abstract!Offer(v)
      BY <1>4, <3>1, <3>2, <3>3 DEF Abstract!Offer, ReceiverRests
    <3> QED
      BY <3>4, <3>6, <3>7 DEF Abstractly, Abstract!Next
  <2>2. CASE st["L"] # 0
    <3>1. Held("Snd") /\ st["L"] \in {1, 3}
      BY <1>1, <2>2 DEF SenderAt
    <3>2. sent' = sent
      BY <1>4, <3>1
    <3>3. SenderAt(0)'
      BY <1>1, <1>4, <2>2, <3>1, <3>2 DEF SenderAt
    <3>4. Tally(0, x)'
      BY <1>1, <1>4, <2>2, <3>2 DEF Tally, Sets, Gets, ReceiverRests
    <3> QED
      BY <1>4, <3>2, <3>3, <3>4, Idle DEF ReceiverRests
  <2> QED
    BY <2>1, <2>2
<1> QED
  BY <1>1, <1>3, <1>4, <1>5, <1>6, <1>8 DEF Handshake, Promised

LEMMA ResetReceives ==
  ASSUME WireTypes, WireTypes', resetMode, NEW x, NEW a, Handshake(0, x, a),
         at["Rcv"] \in {"whole", "plus", "minus"}, NEW d, ReceiverDoes(d),
         d.end = "blocked", d.st = IF st["R"] = 0 THEN 1 ELSE st["R"],
         d.run = Begun("Rcv", data["R"])
  PROVE  wire' = wire /\ Handshake(0, x, a)' /\ Promised
<1>1. Ring(0, x, a) /\ SenderAt(0) /\ ReceiverAt(0) /\ Tally(0, x)
      /\ x \in Forward /\ a \in Wire \ Forward
  BY DEF Handshake
<1>2. /\ d.run.wire = wire["R"] /\ d.run.self = data["R"]
      /\ d.run.pos = IF st["R"] = 0 THEN 0 ELSE micro["R"]
  BY BegunFacts, TwoEnds DEF NewData, WireTypes
<1>3. wire' = wire
  BY <1>2 DEF ReceiverDoes, Leaves, WireTypes
<1>4. /\ st["R"] \in {0, 1} /\ at["Rcv"] \in {"whole", "plus"} /\ ~probed
      /\ IF st["R"] = 0 THEN requests = Len(got) /\ requests < MaxComms /\ ~Held("Rcv")
                        ELSE requests = Len(got) + 1 /\ Held("Rcv")
  BY <1>1 DEF ReceiverAt, Tally
<1>5. /\ SenderRests /\ resetMode' = TRUE /\ Held("Rcv")' /\ at'["Rcv"] = at["Rcv"]
      /\ st'["R"] = 1 /\ micro'["R"] = (IF st["R"] = 0 THEN 0 ELSE micro["R"])
      /\ data'["R"] = data["R"] /\ got' = got /\ probed' = FALSE
      /\ requests' = Len(got) + 1
  BY <1>2, <1>4 DEF ReceiverDoes, Leaves, WireTypes
<1>6. SenderAt(0)'
  BY <1>1, <1>5, SenderStays
<1>7. ReceiverAt(0)'
  BY <1>1, <1>4, <1>5 DEF ReceiverAt
<1>8. Ring(0, x, a)'
  BY <1>1, <1>3 DEF Ring
<1>9. Tally(0, x)'
  BY <1>1, <1>4, <1>5 DEF Tally, Sets, Gets, SenderRests
<1>10. Abstractly
  <2>1. CASE st["R"] = 0
    <3>1. Abstract!Request
      BY <1>4, <1>5, <2>1 DEF Abstract!Request, SenderRests
    <3> QED
      BY <3>1 DEF Abstractly, Abstract!Next
  <2>2. CASE st["R"] = 1
    BY <1>4, <1>5, <2>2, Idle DEF SenderRests
  <2> QED
    BY <1>4, <2>1, <2>2
<1> QED
  BY <1>1, <1>3, <1>5, <1>6, <1>7, <1>8, <1>9, <1>10 DEF Handshake, Promised

LEMMA ResetKeeps ==
  ASSUME FragmentInv, PhaseInv, resetMode, resetMode' = resetMode, NEW t \in Thread,
         NEW wakeup, NEW lst, NEW sh, Woken(t, wakeup, lst, sh), Comm(t, wakeup, lst, sh)
  PROVE  PhaseInv' /\ Promised
<1>1. WireTypes /\ Quiet
  BY DEF PhaseInv
<1>2. PICK x, a : Handshake(0, x, a)
  BY DEF PhaseInv, Handshake
<1>3. at[t] \in {"whole", "plus", "minus"}
  BY <1>1, CommIs
<1>4. PICK v \in {0, 1} :
        /\ (t = "Snd" /\ ~Held(t) /\ Issues(t)) \/ v = data[On[t]]
        /\ CommWith(t, v, wakeup, lst, sh, Result(t, v, wakeup))
  BY <1>1, CommIs
<1> DEFINE d == Result(t, v, wakeup)
<1>5. d.end = "blocked" /\ d.st = (IF st[On[t]] = 0 THEN 1 ELSE st[On[t]]) /\ d.run = Begun(t, v)
  BY <1>1, <1>3, ResultIs
<1> HIDE DEF d
<1>6. d.st \in 0 .. 3 /\ d.run \in RunState /\ CommWith(t, v, wakeup, lst, sh, d)
  <2>1. On[t] \in Chan /\ st[On[t]] \in 0 .. 3
    BY <1>1, OnTypes DEF WireTypes
  <2> QED
    BY <1>1, <1>4, <1>5, <2>1, BegunFacts DEF d
<1>7. WireTypes'
  BY <1>1, <1>6, CommTypes
<1>8. (t = "Snd" => SenderDoes(v, d)) /\ (t = "Rcv" => ReceiverDoes(d))
  BY <1>1, <1>5, <1>6, CommDoes
<1>9. wire' = wire /\ Handshake(0, x, a)' /\ Promised
  <2>1. CASE t = "Snd"
    BY <1>1, <1>2, <1>3, <1>4, <1>5, <1>7, <1>8, <2>1, TwoEnds, ResetSends
  <2>2. CASE t = "Rcv"
    BY <1>1, <1>2, <1>3, <1>4, <1>5, <1>7, <1>8, <2>2, TwoEnds, ResetReceives
  <2> QED
    BY <2>1, <2>2, TwoEnds
<1>10. Quiet'
  BY <1>1, <1>9 DEF Quiet, Lowered
<1> QED
  BY <1>7, <1>9, <1>10 DEF PhaseInv

(* #R is true in phase 2 only.                                             *)
LEMMA ProbeKeepsPhase ==
  ASSUME FourPhaseType, FragmentInv, PhaseInv, resetMode' = resetMode, NEW t \in Thread,
         NEW wakeup, NEW lst, NEW sh, Woken(t, wakeup, lst, sh), Probe(t, lst, sh)
  PROVE  PhaseInv' /\ Promised
<1> DEFINE w == [shared |-> sh, entries |-> entries]
           true == runProbe(RecvProbe, StateOf("R", 0))
<1>1. WireTypes /\ IF resetMode THEN Quiet ELSE wire \in [Chan -> [Wire -> {0, 1}]]
  BY DEF PhaseInv
<1>2. PICK p, x, a : Handshake(p, x, a)
  BY DEF PhaseInv
<1>3. Ring(p, x, a) /\ SenderAt(p) /\ ReceiverAt(p) /\ Tally(p, x) /\ p \in 0 .. 7
      /\ x \in Forward /\ a \in Wire \ Forward /\ (resetMode => p = 0)
  BY <1>2 DEF Handshake
<1>4. at[t] = "probe" /\ wire' = wire /\ data' = data /\ st' = st /\ micro' = micro
      /\ UNCHANGED <<sent, sdone, requests, got>>
      /\ IF true THEN NotBlocked(t, w, lst) /\ at' = [at EXCEPT ![t] = After(t, at[t])] /\ probed' = TRUE
                 ELSE Blocked(t, w, lst) /\ at' = at /\ probed' = probed
  BY DEF Probe, channel
<1>5. t = "Rcv"
  BY <1>3, <1>4, TwoEnds DEF SenderAt
<1>6. w.shared \in Nat /\ w.entries \in Nat /\ w.entries + w.shared = entries + sh
  BY DEF Woken, FragmentInv, FragmentTypes
<1> HIDE DEF w
<1>7. IF true THEN \A u : Held(u)' <=> Held(u) /\ u # t ELSE \A u : Held(u)' <=> Held(u) \/ u = t
  BY <1>4, <1>6, HeldAfter
<1>8. at \in [Thread -> {"probe", "whole", "plus", "minus", "end"}]
  BY DEF FragmentInv, FragmentTypes
<1>9. at'["Snd"] = at["Snd"] /\ at'["Rcv"] = IF true THEN After("Rcv", "probe") ELSE at["Rcv"]
  BY <1>4, <1>5, <1>8, TwoEnds
<1>10. After("Rcv", "probe") \in {"whole", "plus"}
  BY DEF After
<1>11. st["R"] = 0 /\ requests < MaxComms /\ p \in {7, 0, 1, 2} /\ at["Rcv"] = "probe"
  BY <1>3, <1>4, <1>5 DEF ReceiverAt
<1>12. true => p = 2
  <2>1. StateOf("R", 0) \in Entered({0}, {0, 1, X}) /\ StateOf("R", 0).wire = wire["R"]
    BY <1>1, TwoEnds DEF WireTypes, StateOf, Entered
  <2>2. ProbeSeesData
    BY CodeIs DEF FourPhaseMethods
  <2> HIDE DEF Entered, StateOf
  <2>3. true => Data(wire["R"]) # {}
    BY <2>1, <2>2 DEF ProbeSeesData
  <2> QED
    BY <1>3, <1>11, <2>3 DEF Ring
<1> HIDE DEF true
<1>13. SenderRests
  BY <1>4, <1>5, <1>7, <1>9 DEF SenderRests
<1>14. SenderAt(p)'
  BY <1>3, <1>13, SenderStays
<1>15. ReceiverAt(p)'
  BY <1>4, <1>5, <1>7, <1>9, <1>10, <1>11 DEF ReceiverAt
<1>16. Ring(p, x, a)'
  BY <1>3, <1>4 DEF Ring
<1>17. Tally(p, x)'
  <2>1. at'["Rcv"] # "minus" /\ (probed' => p = 2)
    <3>1. probed => p = 2
      BY <1>3, <1>11 DEF Tally
    <3>2. CASE true
      BY <1>9, <1>10, <1>12, <3>2
    <3>3. CASE ~true
      BY <1>4, <1>9, <1>11, <3>1, <3>3
    <3> QED
      BY <3>2, <3>3
  <2>2. st' = st /\ data' = data /\ UNCHANGED <<sent, sdone, requests, got>>
    BY <1>4
  <2>3. Sets' = Sets /\ Gets' = Gets /\ Gets = Len(got)
    BY <1>11, <2>2 DEF Sets, Gets
  <2> QED
    BY <1>3, <1>9, <1>11, <2>1, <2>2, <2>3 DEF Tally
<1>18. Promised
  BY <1>4, Idle DEF Promised, KeepsTo
<1>19. WireTypes' /\ (resetMode => Quiet')
  BY <1>1, <1>4 DEF WireTypes, Quiet, Lowered
<1>20. Handshake(p, x, a)'
  BY <1>3, <1>14, <1>15, <1>16, <1>17 DEF Handshake
<1> QED
  BY <1>1, <1>4, <1>18, <1>19, <1>20 DEF PhaseInv

-----------------------------------------------------------------------------
(* The circuit: one wire of L or R follows.                                *)
LEMMA FollowsData ==
  ASSUME NEW from \in [Wire -> {0, 1}], NEW to \in [Wire -> {0, 1}], NEW r \in Forward,
         from[r] # to[r], NEW u, u = [to EXCEPT ![r] = from[r]]
  PROVE  /\ u \in [Wire -> {0, 1}] /\ Acked(u) = Acked(to)
         /\ r \in Data(from) => r \notin Data(to) /\ Data(u) = Data(to) \cup {r}
         /\ r \notin Data(from) => r \in Data(to) /\ Data(u) = Data(to) \ {r}
BY WireAssumption DEF Data, Acked

LEMMA FollowsAck ==
  ASSUME NEW from \in [Wire -> {0, 1}], NEW to \in [Wire -> {0, 1}], NEW r \in Wire \ Forward,
         from[r] # to[r], NEW u, u = [to EXCEPT ![r] = from[r]]
  PROVE  /\ u \in [Wire -> {0, 1}] /\ Data(u) = Data(to)
         /\ r \in Acked(from) => r \notin Acked(to) /\ Acked(u) = Acked(to) \cup {r}
         /\ r \notin Acked(from) => r \in Acked(to) /\ Acked(u) = Acked(to) \ {r}
BY WireAssumption DEF Data, Acked

(* Nothing changes but the wires, and the phase.                           *)
LEMMA PhaseMoves ==
  ASSUME WireTypes, WireTypes', ~resetMode, NEW p, NEW p2, NEW x, NEW a, Handshake(p, x, a),
         SenderRests, ReceiverRests, resetMode' = resetMode,
         <<p, p2>> \in {<<1, 2>>, <<3, 4>>, <<5, 6>>, <<7, 0>>}, Ring(p2, x, a)'
  PROVE  Handshake(p2, x, a)'
<1>1. SenderAt(p) /\ ReceiverAt(p) /\ Tally(p, x) /\ x \in Forward /\ a \in Wire \ Forward
      /\ p \in 0 .. 7
  BY DEF Handshake
<1>2. (p = 1 /\ p2 = 2) \/ (p = 3 /\ p2 = 4) \/ (p = 5 /\ p2 = 6) \/ (p = 7 /\ p2 = 0)
  OBVIOUS
<1>3. SenderAt(p2)'
  <2>1. p2 \in 0 .. 7 /\ ((p \in 1 .. 3 /\ p2 \in 1 .. 4) \/ (p \in 5 .. 7 /\ p2 \in {5, 6, 7, 0}))
    BY <1>2
  <2> QED
    BY <1>1, <2>1, SenderStays
<1>4. ReceiverAt(p2)'
  <2>1. p2 \in 0 .. 7 /\ ({p, p2} \subseteq {7, 0, 1, 2} \/ {p, p2} \subseteq 3 .. 6)
    BY <1>2
  <2> QED
    BY <1>1, <2>1, ReceiverStays
<1>5. probed => st["R"] = 3
  BY <1>1, <1>2 DEF Tally
<1>6. (p2 \in {1, 2} <=> p \in {1, 2}) /\ p2 \in 0 .. 7
  BY <1>2
<1>7. Tally(p2, x)'
  BY <1>1, <1>5, <1>6 DEF Tally, Sets, Gets, SenderRests, ReceiverRests
<1> QED
  BY <1>1, <1>3, <1>4, <1>6, <1>7 DEF Handshake

LEMMA GateKeeps ==
  ASSUME FragmentInv, PhaseInv, NEW r \in Wire, Gate(r)
  PROVE  PhaseInv' /\ Promised
<1> DEFINE from == IF r \in Forward THEN "L" ELSE "R"
           to == IF r \in Forward THEN "R" ELSE "L"
           u == [wire[to] EXCEPT ![r] = wire[from][r]]
<1>1. WireTypes /\ IF resetMode THEN Quiet ELSE wire \in [Chan -> [Wire -> {0, 1}]]
  BY DEF PhaseInv
<1>2. PICK p, x, a : Handshake(p, x, a)
  BY DEF PhaseInv
<1>3. Ring(p, x, a) /\ p \in 0 .. 7 /\ x \in Forward /\ a \in Wire \ Forward
      /\ (resetMode => p = 0)
  BY <1>2 DEF Handshake
<1>4. /\ from \in Chan /\ to \in Chan
      /\ wire[from][r] # X /\ wire[to][r] # wire[from][r]
      /\ wire' = [wire EXCEPT ![to][r] = wire[from][r]]
      /\ UNCHANGED <<data, st, micro, at, stalled, resetMode, sent, sdone, requests, got, probed>>
  BY TwoEnds DEF Gate, history
<1>5. SenderRests /\ ReceiverRests
  BY <1>4 DEF SenderRests, ReceiverRests, Held
<1>6. /\ wire' = [wire EXCEPT ![to] = u]
      /\ wire' \in [Chan -> [Wire -> {0, 1, X}]]
  BY <1>1, <1>4 DEF WireTypes
<1>7. WireTypes'
  BY <1>1, <1>4, <1>6 DEF WireTypes
<1>8. Abstractly
  BY <1>4, Idle
<1>9. CASE ~resetMode
  <2>1. wire[from] \in [Wire -> {0, 1}] /\ wire[to] \in [Wire -> {0, 1}]
    BY <1>1, <1>4, <1>9
  <2>2. SUFFICES ASSUME u \in [Wire -> {0, 1}]
                 PROVE  /\ \E p2 : /\ <<p, p2>> \in {<<1, 2>>, <<3, 4>>, <<5, 6>>, <<7, 0>>}
                                   /\ Ring(p2, x, a)'
                        /\ HandshakeStep(wire[to], u)
    <3>1. u \in [Wire -> {0, 1}]
      BY <2>1
    <3>2. PICK p2 : <<p, p2>> \in {<<1, 2>>, <<3, 4>>, <<5, 6>>, <<7, 0>>} /\ Ring(p2, x, a)'
      BY <3>1, <2>2
    <3>3. Handshake(p2, x, a)'
      BY <1>1, <1>2, <1>4, <1>5, <1>7, <1>9, <3>2, PhaseMoves
    <3>4. wire' \in [Chan -> [Wire -> {0, 1}]] /\ \A c \in Chan : c # to => wire'[c] = wire[c]
      BY <1>1, <1>4, <1>6, <1>9, <3>1
    <3>5. wire'[to] = u
      BY <1>1, <1>4, <1>6 DEF WireTypes
    <3>6. HandshakeStep(wire[to], wire'[to])
      BY <2>2, <3>1, <3>5
    <3>7. Promised
      BY <1>8, <3>4, <3>6 DEF Promised, KeepsTo
    <3> QED
      BY <1>4, <1>7, <1>9, <3>3, <3>4, <3>7 DEF PhaseInv
  <2>3. CASE r \in Forward
    <3>1. /\ wire'["R"] = u /\ wire'["L"] = wire["L"] /\ Acked(u) = Acked(wire["R"])
          /\ r \in Data(wire["L"]) => r \notin Data(wire["R"]) /\ Data(u) = Data(wire["R"]) \cup {r}
          /\ r \notin Data(wire["L"]) => r \in Data(wire["R"]) /\ Data(u) = Data(wire["R"]) \ {r}
      <4>1. from = "L" /\ to = "R"
        BY <2>3
      <4>2. wire["L"][r] # wire["R"][r] /\ u = [wire["R"] EXCEPT ![r] = wire["L"][r]]
        BY <1>4, <4>1
      <4>3. wire'["R"] = u /\ wire'["L"] = wire["L"]
        BY <1>1, <1>6, <4>1, TwoEnds DEF WireTypes
      <4>4. wire["L"] \in [Wire -> {0, 1}] /\ wire["R"] \in [Wire -> {0, 1}]
        BY <2>1, <4>1
      <4> HIDE DEF u
      <4> QED
        BY <2>3, <4>2, <4>3, <4>4, FollowsData
    <3> HIDE DEF u
    <3>2. CASE r \in Data(wire["L"])
      <4>1. p = 1 /\ r = x
        BY <1>3, <3>1, <3>2 DEF Ring
      <4>2. Data(u) = {x} /\ Data(wire["R"]) = {} /\ Acked(wire["R"]) = {}
        BY <1>3, <3>1, <3>2, <4>1 DEF Ring
      <4>3. Ring(2, x, a)'
        BY <1>3, <3>1, <4>1, <4>2 DEF Ring
      <4>4. HandshakeStep(wire["R"], u)
        BY <3>1, <4>1, <4>2, OneRail DEF HandshakeStep
      <4>5. to = "R" /\ <<p, 2>> \in {<<1, 2>>, <<3, 4>>, <<5, 6>>, <<7, 0>>}
        BY <2>3, <4>1
      <4> HIDE DEF to
      <4> QED
        BY <4>3, <4>4, <4>5
    <3>3. CASE r \notin Data(wire["L"])
      <4>1. p = 5 /\ r = x
        BY <1>3, <3>1, <3>3 DEF Ring
      <4>2. Data(u) = {} /\ Data(wire["R"]) = {x} /\ Acked(wire["R"]) = {a}
        BY <1>3, <3>1, <3>3, <4>1 DEF Ring
      <4>3. Ring(6, x, a)'
        BY <1>3, <3>1, <4>1, <4>2 DEF Ring
      <4>4. HandshakeStep(wire["R"], u)
        BY <3>1, <4>1, <4>2, OneRail DEF HandshakeStep
      <4>5. to = "R" /\ <<p, 6>> \in {<<1, 2>>, <<3, 4>>, <<5, 6>>, <<7, 0>>}
        BY <2>3, <4>1
      <4> HIDE DEF to
      <4> QED
        BY <4>3, <4>4, <4>5
    <3> QED
      BY <3>2, <3>3
  <2>4. CASE r \notin Forward
    <3>1. /\ wire'["L"] = u /\ wire'["R"] = wire["R"] /\ Data(u) = Data(wire["L"])
          /\ r \in Acked(wire["R"]) => r \notin Acked(wire["L"]) /\ Acked(u) = Acked(wire["L"]) \cup {r}
          /\ r \notin Acked(wire["R"]) => r \in Acked(wire["L"]) /\ Acked(u) = Acked(wire["L"]) \ {r}
      <4>1. from = "R" /\ to = "L"
        BY <2>4
      <4>2. wire["L"][r] # wire["R"][r] /\ u = [wire["L"] EXCEPT ![r] = wire["R"][r]]
        BY <1>4, <4>1
      <4>3. wire'["L"] = u /\ wire'["R"] = wire["R"]
        BY <1>1, <1>6, <4>1, TwoEnds DEF WireTypes
      <4>4. wire["L"] \in [Wire -> {0, 1}] /\ wire["R"] \in [Wire -> {0, 1}]
        BY <2>1, <4>1
      <4> HIDE DEF u
      <4> QED
        BY <2>4, <4>2, <4>3, <4>4, FollowsAck
    <3> HIDE DEF u
    <3>2. CASE r \in Acked(wire["R"])
      <4>1. p = 3 /\ r = a
        BY <1>3, <3>1, <3>2 DEF Ring
      <4>2. Acked(u) = {a} /\ Data(wire["L"]) = {x} /\ Acked(wire["L"]) = {}
        BY <1>3, <3>1, <3>2, <4>1 DEF Ring
      <4>3. Ring(4, x, a)'
        BY <1>3, <3>1, <4>1, <4>2 DEF Ring
      <4>4. HandshakeStep(wire["L"], u)
        BY <3>1, <4>1, <4>2, OneRail DEF HandshakeStep
      <4>5. to = "L" /\ <<p, 4>> \in {<<1, 2>>, <<3, 4>>, <<5, 6>>, <<7, 0>>}
        BY <2>4, <4>1
      <4> HIDE DEF to
      <4> QED
        BY <4>3, <4>4, <4>5
    <3>3. CASE r \notin Acked(wire["R"])
      <4>1. p = 7 /\ r = a
        BY <1>3, <3>1, <3>3 DEF Ring
      <4>2. Acked(u) = {} /\ Data(wire["L"]) = {} /\ Acked(wire["L"]) = {a}
        BY <1>3, <3>1, <3>3, <4>1 DEF Ring
      <4>3. Ring(0, x, a)'
        BY <1>3, <3>1, <4>1, <4>2 DEF Ring
      <4>4. HandshakeStep(wire["L"], u)
        BY <3>1, <4>1, <4>2, OneRail DEF HandshakeStep
      <4>5. to = "L" /\ <<p, 0>> \in {<<1, 2>>, <<3, 4>>, <<5, 6>>, <<7, 0>>}
        BY <2>4, <4>1
      <4> HIDE DEF to
      <4> QED
        BY <4>3, <4>4, <4>5
    <3> QED
      BY <3>2, <3>3
  <2> QED
    BY <2>3, <2>4
<1>10. CASE resetMode
  <2>1. wire[from][r] = 0
    BY <1>1, <1>4, <1>10 DEF Quiet
  <2>2. wire' = [wire EXCEPT ![to][r] = 0]
    BY <1>4, <2>1
  <2>3. \A c \in Chan : wire[c] \in [Wire -> {0, X}]
    BY <1>1, <1>10 DEF Quiet
  <2>4. \A c \in Chan : /\ wire'[c] \in [Wire -> {0, X}]
                        /\ \A q \in Wire : wire'[c][q] = wire[c][q] \/ wire'[c][q] = 0
    BY <1>1, <1>4, <2>2, <2>3 DEF WireTypes
  <2>5. \A S \in SUBSET Wire : \A c \in Chan :
          wire[c] = Lowered(wire[c], S) => wire'[c] = Lowered(wire'[c], S)
    <3> SUFFICES ASSUME NEW S \in SUBSET Wire, NEW c \in Chan, wire[c] = Lowered(wire[c], S)
                 PROVE  wire'[c] = Lowered(wire'[c], S)
      OBVIOUS
    <3>1. \A q \in S : wire[c][q] = 0
      BY DEF Lowered
    <3>2. \A q \in S : wire'[c][q] = 0
      BY <2>4, <3>1
    <3> QED
      BY <2>4, <3>2 DEF Lowered
  <2>6. Quiet'
    BY <1>1, <1>10, <2>4, <2>5, TwoEnds, WireAssumption DEF Quiet
  <2>8. \A c \in Chan : Data(wire'[c]) = {} /\ Acked(wire'[c]) = {}
    BY <2>4, QuietFacts
  <2>9. Ring(0, x, a)'
    BY <2>8, TwoEnds DEF Ring
  <2>10. Handshake(0, x, a)'
    <3>1. SenderAt(0) /\ ReceiverAt(0) /\ Tally(0, x)
      BY <1>2, <1>3, <1>10 DEF Handshake
    <3>2. SenderAt(0)'
      BY <1>5, <3>1, SenderStays
    <3>3. ReceiverAt(0)'
      BY <1>5, <3>1, ReceiverStays
    <3>4. Tally(0, x)'
      BY <1>5, <3>1 DEF Tally, Sets, Gets, SenderRests, ReceiverRests
    <3> QED
      BY <1>3, <2>9, <3>2, <3>3, <3>4 DEF Handshake
  <2> QED
    BY <1>4, <1>7, <1>8, <1>10, <2>6, <2>10 DEF PhaseInv, Promised
<1> QED
  BY <1>9, <1>10

(* Reset ends on idle wires.                                               *)
LEMMA EndResetKeeps ==
  ASSUME FragmentInv, PhaseInv, EndReset PROVE PhaseInv' /\ Promised
<1>1. /\ WireTypes /\ Quiet /\ resetMode /\ resetMode' = FALSE
      /\ \A r \in Wire : wire["L"][r] = wire["R"][r]
      /\ UNCHANGED <<wire, data, st, micro, at, stalled, sent, sdone, requests, got, probed>>
  BY DEF PhaseInv, EndReset, channel, history
<1>2. PICK x, a : Handshake(0, x, a)
  BY <1>1 DEF PhaseInv, Handshake
<1>3. wire \in [Chan -> [Wire -> {0, 1}]]
  <2>1. \A r \in Wire : wire["L"][r] = 0 /\ wire["R"][r] = 0
    BY <1>1 DEF Quiet, Lowered
  <2> QED
    BY <1>1, <2>1, TwoEnds DEF WireTypes
<1>4. SenderRests /\ ReceiverRests
  BY <1>1 DEF SenderRests, ReceiverRests, Held
<1>5. Ring(0, x, a) /\ SenderAt(0) /\ ReceiverAt(0) /\ Tally(0, x)
      /\ x \in Forward /\ a \in Wire \ Forward
  BY <1>2 DEF Handshake
<1>6. SenderAt(0)' /\ ReceiverAt(0)'
  BY <1>4, <1>5, SenderStays, ReceiverStays
<1>7. Ring(0, x, a)' /\ Tally(0, x)'
  BY <1>1, <1>5 DEF Ring, Tally, Sets, Gets
<1>8. WireTypes' /\ wire' \in [Chan -> [Wire -> {0, 1}]]
  BY <1>1, <1>3 DEF WireTypes
<1>9. Handshake(0, x, a)'
  BY <1>1, <1>5, <1>6, <1>7 DEF Handshake
<1>10. Promised
  BY <1>1, Idle DEF Promised
<1> QED
  BY <1>1, <1>8, <1>9, <1>10 DEF PhaseInv

LEMMA StutterKeeps ==
  ASSUME PhaseInv, UNCHANGED vars PROVE PhaseInv' /\ Promised
<1>1. UNCHANGED <<wire, data, st, micro, at, stalled, resetMode, sent, sdone, requests, got, probed>>
  BY DEF vars, channel, history
<1>2. PICK p, x, a : Handshake(p, x, a)
  BY DEF PhaseInv
<1>3. Handshake(p, x, a)'
  BY <1>1, <1>2 DEF Handshake, Ring, SenderAt, ReceiverAt, Tally, Sets, Gets, Held
<1>4. WireTypes' /\ (Quiet <=> Quiet')
  BY <1>1 DEF PhaseInv, WireTypes, Quiet
<1>5. Promised
  BY <1>1, Idle DEF Promised, KeepsTo
<1> QED
  BY <1>1, <1>3, <1>4, <1>5 DEF PhaseInv

LEMMA SomeAck == ASSUME FourPhaseType PROVE Wire \ Forward # {}
<1> DEFINE w == [r \in Wire |-> IF r = Code[0] THEN 1 ELSE 0]
           s == [pos |-> 0, wire |-> w, self |-> 0, selfack |-> 0, changed |-> {}]
<1>1. Code[0] \in Forward /\ RecvUpRaises
  BY CodeIs DEF FourPhaseMethods
<1>2. w \in [Wire -> {0, 1}] /\ Data(w) # {} /\ Acked(w) = {}
  BY <1>1, WireAssumption DEF Data, Acked
<1> HIDE DEF w
<1>3. s \in Ready("recv_up") /\ s.pos = 0 /\ s.wire = w
  BY <1>2 DEF Ready, Entered
<1> HIDE DEF s
<1> QED
  BY <1>1, <1>2, <1>3 DEF RecvUpRaises

LEMMA InitPhase == ASSUME FourPhaseType, Init PROVE PhaseInv
<1> DEFINE low(S) == Lowered(Unknown.wire, S)
<1>1. /\ wire = [c \in Chan |-> Run(IF c = "L" THEN "send_init" ELSE "recv_init", Unknown).wire]
      /\ data = [c \in Chan |-> 0] /\ st = [c \in Chan |-> 0] /\ micro = [c \in Chan |-> 0]
      /\ at = [t \in Thread |-> First(t)] /\ stalled = <<>> /\ resetMode
      /\ sent = <<>> /\ sdone = 0 /\ requests = 0 /\ got = <<>> /\ probed = FALSE
      /\ resetMode = TRUE
  BY DEF Init, Run
<1>2. InitLowers
  BY CodeIs DEF FourPhaseMethods
<1>3. wire["L"] = low(Forward) /\ wire["R"] = low(Wire \ Forward)
  BY <1>1, <1>2, TwoEnds DEF InitLowers
<1>4. /\ \A S \in SUBSET Wire : low(S) \in [Wire -> {0, X}] /\ low(S) = Lowered(low(S), S)
  BY DEF Lowered, Unknown
<1>5. wire["L"] \in [Wire -> {0, X}] /\ wire["R"] \in [Wire -> {0, X}]
      /\ wire["L"] = Lowered(wire["L"], Forward)
      /\ wire["R"] = Lowered(wire["R"], Wire \ Forward)
  BY <1>3, <1>4, WireAssumption
<1>6. \A c \in Chan : wire[c] \in [Wire -> {0, X}] /\ Data(wire[c]) = {} /\ Acked(wire[c]) = {}
  BY <1>5, QuietFacts, TwoEnds
<1>7. Quiet
  BY <1>5, <1>6 DEF Quiet
<1>8. WireTypes
  <2>1. wire \in [Chan -> [Wire -> {0, 1, X}]]
    <3>1. wire = [c \in Chan |-> wire[c]]
      BY <1>1
    <3>2. \A c \in Chan : wire[c] \in [Wire -> {0, 1, X}]
      BY <1>6
    <3> QED
      BY <3>1, <3>2
  <2>2. data \in [Chan -> {0, 1}] /\ st \in [Chan -> 0 .. 3] /\ micro \in [Chan -> Nat]
    BY <1>1
  <2>3. sent \in Seq({0, 1}) /\ got \in Seq({0, 1}) /\ sdone \in Nat /\ requests \in Nat
    BY <1>1
  <2>4. probed \in BOOLEAN /\ resetMode \in BOOLEAN
    BY <1>1
  <2> QED
    BY <2>1, <2>2, <2>3, <2>4 DEF WireTypes
<1>9. PICK a : a \in Wire \ Forward
  BY SomeAck
<1>10. Code[0] \in Forward
  BY CodeIs
<1>11. Ring(0, Code[0], a)
  BY <1>6, TwoEnds DEF Ring
<1>12. \A t : ~Held(t)
  BY <1>1 DEF Held, ToSet
<1>13. at["Snd"] \in {"whole", "plus"} /\ at["Rcv"] \in {"probe", "whole", "plus"}
  BY <1>1, TwoEnds DEF First
<1>14. MaxComms > 0 /\ Len(sent) = 0 /\ Len(got) = 0 /\ st["L"] = 0 /\ st["R"] = 0
  BY <1>1, MaxCommsAssumption, TwoEnds
<1>15. SenderAt(0) /\ ReceiverAt(0)
  BY <1>1, <1>12, <1>13, <1>14, MaxCommsAssumption DEF SenderAt, ReceiverAt
<1>16. Tally(0, Code[0])
  BY <1>1, <1>14 DEF Tally, Sets, Gets
<1>17. Handshake(0, Code[0], a)
  BY <1>9, <1>10, <1>11, <1>15, <1>16 DEF Handshake
<1> QED
  BY <1>1, <1>7, <1>8, <1>17 DEF PhaseInv

LEMMA PhaseSteps ==
  ASSUME FourPhaseType, FragmentInv, PhaseInv, [Next]_vars PROVE PhaseInv' /\ Promised
<1>1. ASSUME NEW t \in Thread, NEW wakeup, NEW lst, NEW sh, Woken(t, wakeup, lst, sh),
             resetMode' = resetMode, Comm(t, wakeup, lst, sh) \/ Probe(t, lst, sh)
      PROVE  PhaseInv' /\ Promised
  <2>1. CASE Probe(t, lst, sh)
    BY <1>1, <2>1, ProbeKeepsPhase
  <2>2. CASE Comm(t, wakeup, lst, sh) /\ resetMode
    BY <1>1, <2>2, ResetKeeps
  <2>3. CASE Comm(t, wakeup, lst, sh) /\ ~resetMode
    BY <1>1, <2>3, SenderKeeps, ReceiverKeeps, TwoEnds
  <2> QED
    BY <1>1, <2>1, <2>2, <2>3
<1>2. ASSUME NEW t \in Thread, PlainEvent(t) PROVE PhaseInv' /\ Promised
  BY <1>1, <1>2, PlainWoken DEF PlainEvent
<1>3. CASE SharedEvent
  <2>1. PICK t \in Thread : /\ Woken(t, TRUE, Tail(stalled), shared - 1)
                            /\ \/ Comm(t, TRUE, Tail(stalled), shared - 1)
                               \/ Probe(t, Tail(stalled), shared - 1)
    BY <1>3, SharedWoken
  <2>2. resetMode' = resetMode
    BY <1>3 DEF SharedEvent
  <2> QED
    BY <1>1, <2>1, <2>2
<1>4. ASSUME NEW r \in Wire, Gate(r) PROVE PhaseInv' /\ Promised
  BY <1>4, GateKeeps
<1>5. CASE EndReset
  BY <1>5, EndResetKeeps
<1>6. CASE UNCHANGED vars
  BY <1>6, StutterKeeps
<1> QED
  BY <1>2, <1>3, <1>4, <1>5, <1>6 DEF Next

-----------------------------------------------------------------------------
(* For every channel type with four-phase methods, the wires go round the  *)
(* ring of eight phases, the two threads being where the phase lets them.  *)
THEOREM PhaseInvariant == ASSUME FourPhaseType PROVE Spec => []PhaseInv
<1>1. Init => PhaseInv
  BY InitPhase
<1>2. FragmentInv /\ PhaseInv /\ [Next]_vars => PhaseInv'
  BY PhaseSteps
<1> QED
  BY <1>1, <1>2, FragmentInvariant, PTL DEF Spec

(* For every four-phase channel type and any delays of the circuit: when   *)
(* #R has been true, the data stays on the wires until it is received.     *)
THEOREM ProbeTellsTheTruth == ASSUME FourPhaseType PROVE Spec => []ProbeMeansData
<1>1. PhaseInv => ProbeMeansData
  <2> SUFFICES ASSUME PhaseInv, probed, st["R"] < 2 PROVE Data(wire["R"]) # {}
    BY DEF ProbeMeansData
  <2>1. PICK p, x, a : Ring(p, x, a) /\ Tally(p, x) /\ WireTypes
    BY DEF PhaseInv, Handshake
  <2>2. st["R"] # 3
    BY <2>1, TwoEnds DEF WireTypes
  <2>3. p = 2
    BY <2>1, <2>2 DEF Tally
  <2> QED
    BY <2>1, <2>3 DEF Ring
<1> QED
  BY <1>1, PhaseInvariant, PTL

(* Every change of a wire, by a method or by the circuit, is a step of the *)
(* four-phase protocol, at both ends.                                      *)
THEOREM KeepsFourPhase == ASSUME FourPhaseType PROVE Spec => FourPhase
<1>1. FragmentInv /\ PhaseInv /\ [Next]_vars =>
        [~resetMode => \A c \in Chan :
           wire'[c] # wire[c] => HandshakeStep(wire[c], wire'[c])]_vars
  BY PhaseSteps DEF Promised, KeepsTo
<1> QED
  BY <1>1, FragmentInvariant, PhaseInvariant, PTL DEF Spec, FourPhase

(* Two threads that talk through methods, wires and a circuit take the     *)
(* steps of two that share a CHP channel: the slack-zero handshake, as far *)
(* as safety goes.                                                         *)
THEOREM RefinesRendezvous ==
  ASSUME FourPhaseType PROVE Spec => Abstract!Init /\ [][Abstract!Next]_(Abstract!vars)
<1>1. Init => Abstract!Init
  BY DEF Init, Abstract!Init
<1>2. FragmentInv /\ PhaseInv /\ [Next]_vars => [Abstract!Next]_(Abstract!vars)
  BY PhaseSteps DEF Promised, Abstractly
<1> QED
  BY <1>1, <1>2, FragmentInvariant, PhaseInvariant, PTL DEF Spec
=============================================================================
