----------------------------- MODULE ChpSelect -----------------------------
(***************************************************************************)
(* Selections that wait for more than one thing.  The threads of one CHP   *)
(* process (a ChpSim object) evaluate guards that probe channels or read   *)
(* shared variables.  A thread whose guards are all false is blocked and   *)
(* may be woken up in two ways: by the partner at a probed channel, which  *)
(* notifies c->probe and names the program counter, and by a write to a    *)
(* shared variable, which posts one nameless event (MAX_LOCAL_PCS) for     *)
(* each entry of the object in _shared; such an event takes the first      *)
(* program counter off _stalled_pc.  Both may happen before either event   *)
(* is delivered.                                                           *)
(*                                                                         *)
(* A guard is a probe or a shared variable; each thread executes           *)
(* *[[ guards ]] and receives from the channel it has selected.  The       *)
(* channels are not fragmented, and ChpChannel has the rest of their life. *)
(***************************************************************************)
EXTENDS Naturals, Sequences, SequencesExt

CONSTANTS
  Thread,    \* slots of _pc[]
  Chan,      \* channels the process receives on
  Var,       \* variables other processes write
  Probes,    \* thread -> channels probed in its guards
  Reads,     \* thread -> shared variables in its guards
  None,      \* no thread
  MaxWrites  \* bound on the writes, and on the sends, of the environment

ASSUME GuardsAssumption ==
  /\ Probes \in [Thread -> SUBSET Chan] /\ Reads \in [Thread -> SUBSET Var]
  /\ \A t \in Thread : Probes[t] \cup Reads[t] # {}
ASSUME ProbersAssumption ==    \* a channel is probed by one thread
  \A t, u \in Thread : t # u => Probes[t] \cap Probes[u] = {}
ASSUME NoneAssumption == None \notin Thread
ASSUME WritesAssumption == MaxWrites \in Nat

VARIABLES
  (* the process *)
  at,       \* "select" (to be evaluated), "blocked" in it, or "comm"
  chosen,   \* the channel of the guard that was selected
  stalled,  \* _stalled_pc
  (* the wait sets *)
  entries,  \* entries of the object in _shared
  probe,    \* c->probe, named by the thread it was created for
  inProbe,  \* threads whose c->probe still holds the object
  prober,   \* recv_here while receiver_probe is set
  (* pending events *)
  step,     \* flag 0, of each thread
  wake,     \* flag 1, of each thread
  shared,   \* number of MAX_LOCAL_PCS events
  (* the environment *)
  x,        \* the shared variables
  sender,   \* channels at which a sender is blocked
  writes, sends,
  failed    \* a fatal_error was reached

waits == <<stalled, entries, probe, inProbe, prober>>
env == <<x, sender, writes, sends>>
vars == <<at, chosen, waits, step, wake, shared, env, failed>>

Init ==
  /\ at = [t \in Thread |-> "select"]
  /\ chosen = [t \in Thread |-> None]
  /\ stalled = <<>>
  /\ entries = 0
  /\ probe = [c \in Chan |-> None] /\ inProbe = {}
  /\ prober = [c \in Chan |-> None]
  /\ step = [t \in Thread |-> 1] /\ wake = [t \in Thread |-> 0] /\ shared = 0
  /\ x = [v \in Var |-> FALSE] /\ sender = {}
  /\ writes = 0 /\ sends = 0
  /\ failed = FALSE

-----------------------------------------------------------------------------
TrueProbes(t) == Probes[t] \cap sender
TrueReads(t) == {v \in Reads[t] : x[v]}
GuardTrue(t) == TrueProbes(t) # {} \/ TrueReads(t) # {}

Minus1(n) == IF n = 0 THEN 0 ELSE n - 1

(* The wait conditions of t after a wake-up has taken them back:           *)
(* _add_waitcond (undo) and _remove_me.  lst is _stalled_pc at that point. *)
KeepProbe(t, lst) ==    \* mutant: the probes are not taken back
  [stalled |-> RemoveFirst(lst, t),
   entries |-> IF t \in ToSet(lst) THEN Minus1(entries) ELSE entries,
   probe   |-> probe, inProbe |-> inProbe, prober |-> prober]

GivenUpTwice(t, lst) ==    \* mutant: sRemove also when the entry was notified
  [stalled |-> RemoveFirst(lst, t), entries |-> entries - 1,
   probe   |-> [c \in Chan |-> IF c \in Probes[t] THEN None ELSE probe[c]],
   inProbe |-> inProbe \ {t},
   prober  |-> [c \in Chan |-> IF c \in Probes[t] THEN None ELSE prober[c]]]

TakenBack(t, lst) ==
  [stalled |-> RemoveFirst(lst, t),
   entries |-> IF t \in ToSet(lst) THEN Minus1(entries) ELSE entries,
   probe   |-> [c \in Chan |-> IF c \in Probes[t] THEN None ELSE probe[c]],
   inProbe |-> IF \E c \in Probes[t] : probe[c] # None THEN inProbe \ {t} ELSE inProbe,
   prober  |-> [c \in Chan |-> IF c \in Probes[t] THEN None ELSE prober[c]]]

AsTheyAre ==
  [stalled |-> stalled, entries |-> entries, probe |-> probe, inProbe |-> inProbe,
   prober |-> prober]

(* Some guard is true: a branch is taken, and its first statement          *)
(* scheduled.                                                              *)
Pass(t, k, s) ==
  /\ GuardTrue(t)
  /\ \/ \E c \in TrueProbes(t) : /\ chosen' = [chosen EXCEPT ![t] = c]
                                 /\ at' = [at EXCEPT ![t] = "comm"]
     \/ /\ TrueReads(t) # {}
        /\ chosen' = chosen
        /\ at' = [at EXCEPT ![t] = "select"]
  /\ step' = [s EXCEPT ![t] = @ + 1]
  /\ stalled' = k.stalled /\ entries' = k.entries
  /\ probe' = k.probe /\ inProbe' = k.inProbe /\ prober' = k.prober
  /\ UNCHANGED failed

(* No guard is true: register with every probed channel through one        *)
(* condition, and stall on the shared variables.                           *)
Stall(t, k, s) ==
  /\ ~GuardTrue(t)
  /\ at' = [at EXCEPT ![t] = "blocked"]
  /\ failed' = \E c \in Probes[t] : k.probe[c] # None    \* probed by others
  /\ probe' = [c \in Chan |-> IF c \in Probes[t] THEN t ELSE k.probe[c]]
  /\ prober' = [c \in Chan |-> IF c \in Probes[t] THEN t ELSE k.prober[c]]
  /\ inProbe' = IF Probes[t] # {} THEN k.inProbe \cup {t} ELSE k.inProbe
  /\ IF Reads[t] # {}
       THEN stalled' = Append(k.stalled, t) /\ entries' = k.entries + 1
       ELSE stalled' = k.stalled /\ entries' = k.entries
  /\ step' = s
  /\ UNCHANGED chosen

Evaluate(t, k, s) == Pass(t, k, s) \/ Stall(t, k, s)

(* Step on a plain event, on the event of a probe, and on the event of a   *)
(* shared variable.  The last one also removes the event of a probe that   *)
(* may be pending for the same thread.                                     *)
PlainEvent(t) ==
  /\ ~failed /\ step[t] > 0 /\ at[t] = "select"
  /\ Evaluate(t, AsTheyAre, [step EXCEPT ![t] = @ - 1])
  /\ UNCHANGED <<wake, shared, env>>

ProbeEvent(t) ==
  /\ ~failed /\ wake[t] > 0 /\ at[t] = "blocked"
  /\ wake' = [wake EXCEPT ![t] = @ - 1]
  /\ Evaluate(t, TakenBack(t, stalled), step)
  /\ UNCHANGED <<shared, env>>

PrunedNot(t) == wake    \* mutant: the event of the probe is left pending
Pruned(t) ==
  IF \E c \in Probes[t] : probe[c] # None THEN [wake EXCEPT ![t] = Minus1(@)] ELSE wake

SharedEvent ==
  /\ ~failed /\ shared > 0
  /\ shared' = shared - 1
  /\ IF stalled = <<>>
       THEN UNCHANGED <<at, chosen, waits, step, wake, failed>>
       ELSE LET t == Head(stalled) IN
            /\ wake' = Pruned(t)
            /\ Evaluate(t, TakenBack(t, Tail(stalled)), step)
  /\ UNCHANGED env

(* The receive on the selected channel: its sender goes on. *)
Receive(t) ==
  /\ ~failed /\ step[t] > 0 /\ at[t] = "comm"
  /\ at' = [at EXCEPT ![t] = "select"]
  /\ chosen' = [chosen EXCEPT ![t] = None]
  /\ sender' = sender \ {chosen[t]}
  /\ UNCHANGED <<waits, step, wake, shared, x, writes, sends, failed>>

-----------------------------------------------------------------------------
(* Another process writes v (boolProp, intProp, propagate, sWakeup). *)
WriteWakesOne(v) ==    \* mutant: only one of the entries is notified
  /\ ~failed /\ writes < MaxWrites
  /\ writes' = writes + 1
  /\ x' = [x EXCEPT ![v] = ~@]
  /\ shared' = shared + (IF entries = 0 THEN 0 ELSE 1) /\ entries' = 0
  /\ UNCHANGED <<at, chosen, stalled, probe, inProbe, prober, step, wake, sender, sends,
                 failed>>

Write(v) ==
  /\ ~failed /\ writes < MaxWrites
  /\ writes' = writes + 1
  /\ x' = [x EXCEPT ![v] = ~@]
  /\ shared' = shared + entries /\ entries' = 0
  /\ UNCHANGED <<at, chosen, stalled, probe, inProbe, prober, step, wake, sender, sends,
                 failed>>

(* A sender arrives at c and blocks (varSend): it wakes up the thread that *)
(* waits in a probe of c, once for all the channels that thread probes.    *)
Arrive(c) ==
  /\ ~failed /\ sends < MaxWrites
  /\ c \notin sender
  /\ sends' = sends + 1
  /\ sender' = sender \cup {c}
  /\ IF prober[c] = None
       THEN UNCHANGED <<wake, inProbe, prober>>
       ELSE /\ wake' = IF probe[c] \in inProbe
                         THEN [wake EXCEPT ![prober[c]] = @ + 1] ELSE wake
            /\ inProbe' = inProbe \ {probe[c]}
            /\ prober' = [prober EXCEPT ![c] = None]
  /\ UNCHANGED <<at, chosen, stalled, entries, probe, step, shared, x, writes, failed>>

Next ==
  \/ \E t \in Thread : PlainEvent(t) \/ ProbeEvent(t) \/ Receive(t)
  \/ SharedEvent
  \/ \E v \in Var : Write(v)
  \/ \E c \in Chan : Arrive(c)

(* The event queue drains; nobody has to write or to send. *)
Spec ==
  /\ Init /\ [][Next]_vars
  /\ WF_vars(SharedEvent)
  /\ \A t \in Thread : WF_vars(PlainEvent(t) \/ Receive(t)) /\ WF_vars(ProbeEvent(t))

-----------------------------------------------------------------------------
(* No thread finds its channel claimed by another c->probe: what a blocked *)
(* selection registered is taken back however it was woken up.             *)
NoFailure == ~failed

(* Events and wait conditions belong to the selection that is blocked now: *)
(* a thread that has gone on left none behind that would hit whatever it   *)
(* does next, and none is blocked twice.                                   *)
NothingLeftBehind ==
  \A t \in Thread :
    /\ step[t] + wake[t] <= 1
    /\ at[t] # "blocked" => /\ step[t] = 1 /\ t \notin inProbe
                            /\ t \notin ToSet(stalled)
                            /\ \A c \in Chan : probe[c] # t /\ prober[c] # t
    /\ at[t] = "blocked" => Reads[t] # {} <=> t \in ToSet(stalled)
    /\ \A i, j \in DOMAIN stalled : stalled[i] = stalled[j] => i = j

(* Shared events are nameless, and one of them may be spent on a thread    *)
(* that stalled only after the write.  There are still enough left for     *)
(* every thread that the write concerns.                                   *)
WriteReachesAll ==
  \A i \in DOMAIN stalled : TrueReads(stalled[i]) # {} => i <= shared

(* The next write will reach every thread that is stalled. *)
EveryStallCounts == Len(stalled) <= entries + shared

(* A selection that is blocked although a guard has become true is         *)
(* evaluated again, unless the guard turns false first.                    *)
GuardServed ==
  \A t \in Thread :
    (at[t] = "blocked" /\ GuardTrue(t)) ~> (at[t] # "blocked" \/ ~GuardTrue(t))
=============================================================================
