---------------------------- MODULE ChpFragment ----------------------------
(***************************************************************************)
(* Communication on fragmented channels: channels one end of which belongs *)
(* to a circuit, so that a CHP process has to drive the wires of the       *)
(* channel instead of meeting another CHP process.                         *)
(*                                                                         *)
(* One ChpSim object has two threads: Snd sends on channel L, whose input  *)
(* end is a circuit, and Rcv receives on channel R, whose output end is a  *)
(* circuit.  The circuit is a buffer per wire from L to R and back, each   *)
(* with any delay, so a value sent on L is received on R:                  *)
(*                                                                         *)
(*        Snd --set/send_up/send_rest--> L.t L.f --circuit--> R.t R.f      *)
(*        Rcv --get/recv_up/recv_rest--> R.a ----circuit----> L.a          *)
(*                                                                         *)
(* A method that waits for a wire leaves its position in the channel and   *)
(* the thread on _stalled_pc; a change of any wire wakes up all of them.   *)
(***************************************************************************)
EXTENDS ChanMethods, FiniteSets

CONSTANTS
  Forward,     \* wires the sender drives; the receiver drives the others
  Method,      \* name of a method -> its text
  RecvProbe,   \* the expression method recv_probe
  MaxComms     \* bound on the communications of each thread

Chan == {"L", "R"}
Thread == {"Snd", "Rcv"}
On == [t \in Thread |-> IF t = "Snd" THEN "L" ELSE "R"]

ASSUME WireAssumption == Forward \subseteq Wire
ASSUME MethodAssumption ==
  /\ DOMAIN Method = {"set", "send_up", "send_rest", "get", "recv_up", "recv_rest",
                      "send_init", "recv_init"}
  /\ \A m \in DOMAIN Method : Method[m] \in Text
ASSUME MaxCommsAssumption == MaxComms \in Nat \ {0}

VARIABLES
  wire,        \* channel -> the values of its Booleans
  data,        \* c->data
  st,          \* sfrag_st of L, rfrag_st of R: 0, or the method being run
  micro,       \* sufrag_st of L, rufrag_st of R: the position in it
  useFlavors, flavor,    \* use_flavors; send_flavor of L, recv_flavor of R
  at,          \* what each thread does next: its statement, or "end"
  stalled,     \* _stalled_pc
  entries,     \* entries of the object in _shared
  plain,       \* threads with a pending event, flag 0
  shared,      \* pending events of the object for MAX_LOCAL_PCS, flag 1
  resetMode,   \* the reset mode
  config,      \* what varies between the initial states
  sent, sdone, requests, got,    \* history: as in Rendezvous
  probed,      \* history: #R was true and R has not been received from since
  failed       \* a flavour check has stopped the simulator

channel == <<wire, data, st, micro, useFlavors, flavor>>
history == <<sent, sdone, requests, got, probed>>
vars == <<channel, at, stalled, entries, plain, shared, resetMode, config, history,
          failed>>

(* Whether the process is at the HSE level (it then runs during reset),    *)
(* whether each thread uses the two halves L!+, L!- of a communication,    *)
(* and whether the receiver waits for #R first.                            *)
Config == [hse : BOOLEAN, halves : [Thread -> BOOLEAN], probing : BOOLEAN]

First(t) ==
  IF t = "Rcv" /\ config.probing THEN "probe"
  ELSE IF config.halves[t] THEN "plus" ELSE "whole"
Issues(t) == at[t] \in {"whole", "plus"}

-----------------------------------------------------------------------------
(* Mutant AckFirst: the receiver acknowledges before it has the data.      *)
AckFirst == [t \in Thread |-> IF t = "Snd" THEN <<"set", "send_up", "send_rest">>
                                           ELSE <<"recv_up", "get", "recv_rest">>]
Protocol == [t \in Thread |-> IF t = "Snd" THEN <<"set", "send_up", "send_rest">>
                                           ELSE <<"get", "recv_up", "recv_rest">>]
Compiled == [m \in DOMAIN Method |-> compile(Method[m])]

StateOf(c, pos) == [pos |-> pos, wire |-> wire[c], self |-> data[c], selfack |-> 0,
                    changed |-> {}]

(* sfrag_st and rfrag_st have two bits.                                    *)
Successor(s) == (s + 1) % 4

(* The loop of varSend and varRecv: methods are run until one waits, the   *)
(* protocol is finished, or the first half of it is.  d.st is the method,  *)
(* d.run what it works on; d.end says how the loop was left, "runs" that   *)
(* it has not been.  No method is run twice: the fourth round is the last. *)
DriveState == [st : 0 .. 3, run : RunState, end : {"runs", "done", "blocked"}]
MovesOn(half, d, r) ==    \* mutant: a method that waits is taken as finished
  [st |-> Successor(d.st), run |-> [r EXCEPT !.pos = 0],
   end |-> IF half /\ Successor(d.st) = 3 THEN "done" ELSE "runs"]
Advance(half, d, r) ==
  IF r.pos # Done THEN [d EXCEPT !.run = r, !.end = "blocked"]
  ELSE [st |-> Successor(d.st), run |-> [r EXCEPT !.pos = 0],
        end |-> IF half /\ Successor(d.st) = 3 THEN "done" ELSE "runs"]
Driven(t, half, start) ==
  LET round == [d \in DriveState |->
                  IF d.end # "runs" THEN d
                  ELSE IF d.st = 0 THEN [d EXCEPT !.end = "done"]
                  ELSE Advance(half, d, runMethod(Compiled[Protocol[t][d.st]], d.run))]
  IN  round[round[round[round[start]]]]

(* The Booleans of a fragmented channel, ch->fH (sim_recordChannel), are   *)
(* the ones its methods name; a process that uses the channel is entered   *)
(* in the fanout of each (_compute_used_variables), and when one changes   *)
(* boolProp calls its propagate(), which is sWakeup().                     *)
RecordedOnUp == Recorded[Method["set"]]    \* mutant: of the first method only
fH == NamesOf(RecvProbe) \cup UNION {Recorded[Method[m]] : m \in DOMAIN Method}
boolProp(changed, w) ==
  IF changed \cap fH # {} THEN [shared |-> w.shared + w.entries, entries |-> 0] ELSE w

Unknown == [pos |-> 0, wire |-> [w \in Wire |-> X], self |-> 0, selfack |-> 0, changed |-> {}]
Init ==
  /\ config \in Config
  /\ wire = [c \in Chan |->
               runMethod(Compiled[IF c = "L" THEN "send_init" ELSE "recv_init"], Unknown).wire]
  /\ data = [c \in Chan |-> 0]
  /\ st = [c \in Chan |-> 0] /\ micro = [c \in Chan |-> 0]
  /\ useFlavors = [c \in Chan |-> FALSE] /\ flavor = [c \in Chan |-> 0]
  /\ at = [t \in Thread |-> First(t)]
  /\ stalled = <<>> /\ entries = 0
  /\ plain = Thread /\ shared = 0
  /\ resetMode = TRUE
  /\ sent = <<>> /\ sdone = 0 /\ requests = 0 /\ got = <<>> /\ probed = FALSE
  /\ failed = FALSE

-----------------------------------------------------------------------------
(* Where a thread goes when it has finished what it was doing.             *)
After(t, what) ==
  CASE what = "probe" -> IF config.halves[t] THEN "plus" ELSE "whole"
    [] what = "plus"  -> "minus"
    [] OTHER          -> IF (IF t = "Snd" THEN Len(sent') ELSE requests') < MaxComms
                         THEN First(t) ELSE "end"

(* list_iappend and sStall: w.stalled is what a wake-up left.              *)
StallsOnce(t, w, lst) ==    \* mutant: an object has one entry at most
  /\ stalled' = Append(lst, t)
  /\ entries' = 1
  /\ shared' = w.shared
Blocked(t, w, lst) ==
  /\ stalled' = Append(lst, t)
  /\ entries' = w.entries + 1
  /\ shared' = w.shared
NotBlocked(t, w, lst) ==
  /\ stalled' = lst
  /\ entries' = w.entries
  /\ shared' = w.shared

(* The flavour checks of varSend and varRecv: a flavour is 0 (none), 1 (+) *)
(* or 2 (-); once one is used they have to alternate.                      *)
Sign(t) == CASE at[t] = "whole" -> 0 [] at[t] = "plus" -> 1 [] at[t] = "minus" -> 2
FlavorNow(c) == IF useFlavors[c] THEN flavor[c] ELSE 0
FlavorError(t, wakeup) ==
  \/ useFlavors[On[t]] /\ Sign(t) = 0
  \/ ~wakeup /\ Sign(t) # 0 /\ FlavorNow(On[t]) + 1 # Sign(t)
FlavorAfter(t, wakeup) ==
  IF wakeup \/ Sign(t) = 0 THEN flavor[On[t]] ELSE 1 - FlavorNow(On[t])

(* varSend and varRecv on a fragmented channel, by thread t, which has     *)
(* been blocked here before (wakeup) or not; v is the value sent.          *)
NewData(t, v) == IF t = "Snd" /\ st["L"] = 0 THEN v ELSE data[On[t]]
Start(t, v) ==
  LET c == On[t]
  IN  [st  |-> IF st[c] = 0 THEN 1 ELSE st[c],
       run |-> [StateOf(c, IF st[c] = 0 THEN 0 ELSE micro[c])
                  EXCEPT !.self = NewData(t, v)],
       end |-> "runs"]
Result(t, v, wakeup) ==
  IF resetMode THEN [Start(t, v) EXCEPT !.end = "blocked"]
  ELSE Driven(t, FlavorAfter(t, wakeup) = 1 /\ Sign(t) # 0, Start(t, v))

Issue(t, v, wakeup) ==
  /\ sent' = IF t = "Snd" /\ ~wakeup /\ Issues(t) THEN Append(sent, v) ELSE sent
  /\ requests' = IF t = "Rcv" /\ ~wakeup /\ Issues(t) THEN requests + 1 ELSE requests
Complete(t, d) ==
  LET now == d.end = "done" /\ Issues(t)
  IN  /\ sdone' = IF t = "Snd" /\ now THEN sdone + 1 ELSE sdone
      /\ got' = IF t = "Rcv" /\ now THEN Append(got, d.run.self) ELSE got
      /\ probed' = (probed /\ ~(t = "Rcv" /\ now))

CommWith(t, v, wakeup, lst, sh, d) ==
  /\ wire' = [wire EXCEPT ![On[t]] = d.run.wire]
  /\ data' = [data EXCEPT ![On[t]] = d.run.self]
  /\ st' = [st EXCEPT ![On[t]] = d.st]
  /\ micro' = [micro EXCEPT ![On[t]] = d.run.pos]
  /\ useFlavors' = [useFlavors EXCEPT ![On[t]] = @ \/ Sign(t) # 0]
  /\ flavor' = [flavor EXCEPT ![On[t]] = FlavorAfter(t, wakeup)]
  /\ Issue(t, v, wakeup)
  /\ Complete(t, d)
  /\ LET w == boolProp(d.run.changed, [shared |-> sh, entries |-> entries])
     IN  IF d.end = "blocked"
           THEN Blocked(t, w, lst) /\ at' = at
           ELSE NotBlocked(t, w, lst) /\ at' = [at EXCEPT ![t] = After(t, @)]
  /\ plain' = IF d.end = "done" /\ at'[t] # "end" THEN plain \cup {t} ELSE plain \ {t}
Comm(t, wakeup, lst, sh) ==
  /\ at[t] \in {"whole", "plus", "minus"}
  /\ failed' = FlavorError(t, wakeup)
  /\ \E v \in IF t = "Snd" /\ ~wakeup /\ Issues(t) THEN {0, 1}
                                                   ELSE {data[On[t]]} :
       CommWith(t, v, wakeup, lst, sh, Result(t, v, wakeup))

(* [#R]: the probe of a fragmented channel is its method recv_probe, and   *)
(* the selection waits as for a shared variable.                           *)
Probe(t, lst, sh) ==
  /\ at[t] = "probe"
  /\ IF runProbe(RecvProbe, StateOf("R", 0))
       THEN /\ at' = [at EXCEPT ![t] = After(t, @)]
            /\ NotBlocked(t, [shared |-> sh, entries |-> entries], lst)
            /\ plain' = plain \cup {t}
            /\ probed' = TRUE
       ELSE /\ Blocked(t, [shared |-> sh, entries |-> entries], lst)
            /\ plain' = plain \ {t}
            /\ UNCHANGED <<at, probed>>
  /\ UNCHANGED <<channel, sent, sdone, requests, got, failed>>

(* ChpSim::Step on the event of a thread.  A process that is not at the    *)
(* HSE level puts its events off until reset is over.                      *)
PlainEvent(t) ==
  /\ t \in plain /\ ~failed
  /\ ~resetMode \/ config.hse
  /\ \/ Comm(t, FALSE, stalled, shared)
     \/ Probe(t, stalled, shared)
  /\ UNCHANGED <<resetMode, config>>

(* ChpSim::Step on an event of the shared variables: the first of the      *)
(* stalled threads is run.                                                 *)
SharedEvent ==
  /\ shared > 0 /\ ~failed
  /\ stalled # <<>>
  /\ ~resetMode \/ config.hse
  /\ \E t \in {Head(stalled)} :
       \/ Comm(t, TRUE, Tail(stalled), shared - 1)
       \/ Probe(t, Tail(stalled), shared - 1)
  /\ UNCHANGED <<resetMode, config>>

(* A buffer of the circuit: the wire w of channel to follows that of from. *)
Gate(w) ==
  LET from == IF w \in Forward THEN "L" ELSE "R"
      to == IF w \in Forward THEN "R" ELSE "L"
  IN  /\ ~failed
      /\ wire[from][w] # X
      /\ wire[to][w] # wire[from][w]
      /\ wire' = [wire EXCEPT ![to][w] = wire[from][w]]
      /\ LET u == boolProp({w}, [shared |-> shared, entries |-> entries])
         IN  shared' = u.shared /\ entries' = u.entries
      /\ UNCHANGED <<data, st, micro, useFlavors, flavor, at, stalled, plain, resetMode,
                     config, history, failed>>

(* The end of runInit: when no event of the circuit is pending the mode is *)
(* changed and sWakeup() called on every process.                          *)
EndReset ==
  /\ resetMode /\ ~failed
  /\ \A w \in Wire : wire["L"][w] = wire["R"][w]
  /\ resetMode' = FALSE
  /\ shared' = shared + entries /\ entries' = 0
  /\ UNCHANGED <<channel, at, stalled, plain, config, history, failed>>

Next ==
  \/ \E t \in Thread : PlainEvent(t)
  \/ SharedEvent
  \/ \E w \in Wire : Gate(w)
  \/ EndReset

(* Every pending event is delivered: the event queue is ordered by time    *)
(* and no delay is infinite.                                               *)
Spec ==
  /\ Init /\ [][Next]_vars
  /\ \A t \in Thread : WF_vars(PlainEvent(t))
  /\ WF_vars(SharedEvent)
  /\ \A w \in Wire : WF_vars(Gate(w))
  /\ WF_vars(EndReset)

-----------------------------------------------------------------------------
(* Methods are a library's business, and any text is a method.  Those of a *)
(* four-phase channel type do the following, if begun on wires that are as *)
(* the protocol has them and resumed where they have waited before; what   *)
(* they do elsewhere does not matter.                                      *)
Data(w) == {r \in Forward : w[r] = 1}
Acked(w) == {r \in Wire \ Forward : w[r] = 1}

Entered(positions, values) ==
  [pos : positions, wire : [Wire -> values], self : {0, 1}, selfack : {0, 1},
   changed : SUBSET Wire]
Run(m, s) == runMethod(Compiled[m], s)
Parks(m) == {Run(m, s).pos : s \in Entered({0}, {0, 1, X})} \ {Done}
Ready(m) == Entered({0} \cup Parks(m), {0, 1})

Finishes(m, s, wires) == Run(m, s).pos = Done /\ Run(m, s).wire = wires
WaitsIn(m, s, wires) == Run(m, s).pos \in Parks(m) /\ Run(m, s).wire = wires
Lowered(w, S) == [r \in Wire |-> IF r \in S THEN 0 ELSE w[r]]

SetRaises(code) == \A s \in Ready("set") :
  Data(s.wire) = {} /\ Acked(s.wire) = {} =>
    Finishes("set", s, [s.wire EXCEPT ![code[s.self]] = 1])
SendUpWaits == \A s \in Ready("send_up") :
  Data(s.wire) # {} =>
    IF Acked(s.wire) = {} THEN WaitsIn("send_up", s, s.wire) ELSE Finishes("send_up", s, s.wire)
SendRestLowers == \A s \in Ready("send_rest") :
  LET low == Lowered(s.wire, Forward) IN
  /\ s.pos = 0 /\ Acked(s.wire) # {} => WaitsIn("send_rest", s, low)
  /\ Data(s.wire) = {} => IF Acked(s.wire) = {} THEN Finishes("send_rest", s, low)
                                                ELSE WaitsIn("send_rest", s, low)
GetReads(code) == \A s \in Ready("get") :
  /\ Data(s.wire) = {} => WaitsIn("get", s, s.wire)
  /\ \A v \in {0, 1} : Data(s.wire) = {code[v]} =>
       Finishes("get", s, s.wire) /\ Run("get", s).self = v
RecvUpRaises == \A s \in Ready("recv_up") :
  s.pos = 0 /\ Data(s.wire) # {} /\ Acked(s.wire) = {} =>
    /\ \E a \in Wire \ Forward : Finishes("recv_up", s, [s.wire EXCEPT ![a] = 1])
    /\ Run("recv_up", s).self = s.self
RecvRestLowers == \A s \in Ready("recv_rest") :
  Acked(s.wire) # {} =>
    /\ IF Data(s.wire) = {} THEN Finishes("recv_rest", s, Lowered(s.wire, Wire \ Forward))
                            ELSE WaitsIn("recv_rest", s, s.wire)
    /\ Run("recv_rest", s).self = s.self

InitLowers ==
  /\ Run("send_init", Unknown).wire = Lowered(Unknown.wire, Forward)
  /\ Run("recv_init", Unknown).wire = Lowered(Unknown.wire, Wire \ Forward)
ProbeSeesData ==
  \A s \in Entered({0}, {0, 1, X}) : runProbe(RecvProbe, s) => Data(s.wire) # {}

FourPhaseMethods(code) ==
  /\ \A m \in DOMAIN Method : \A s \in Entered({0}, {0, 1, X}) \cup Ready(m) : Run(m, s) \in RunState
  /\ SetRaises(code) /\ SendUpWaits /\ SendRestLowers
  /\ GetReads(code) /\ RecvUpRaises /\ RecvRestLowers
  /\ InitLowers /\ ProbeSeesData
(* The values are coded on the wires the sender drives.                    *)
FourPhaseType == \E code \in [{0, 1} -> Forward] : FourPhaseMethods(code)

-----------------------------------------------------------------------------
(* The threads on _stalled_pc, the entries in _shared and the events on    *)
(* their way match one for one, so an event finds a thread to wake up and  *)
(* no thread is left without one: it does not matter that the events do    *)
(* not say whom they are for.  The flavour checks never fail, although a   *)
(* thread comes back to the same action many times.                        *)
OneWakeEach ==
  /\ ~failed
  /\ Len(stalled) = entries + shared
  /\ ToSet(stalled) \cap plain = {}

(* Whatever the delays, the two ends of a fragmented channel keep to the   *)
(* four-phase protocol on its wires although the methods are interrupted   *)
(* and resumed: data is raised on idle wires, acknowledged, withdrawn, and *)
(* the acknowledge withdrawn; one wire at a time.                          *)
HandshakeStep(old, new) ==
  \/ Data(old) = {} /\ Cardinality(Data(new)) = 1 /\ Acked(old) = {} /\ Acked(new) = {}
  \/ Data(old) # {} /\ Data(new) = Data(old) /\ Acked(old) = {} /\ Acked(new) # {}
  \/ Data(old) # {} /\ Data(new) = {} /\ Acked(old) # {} /\ Acked(new) = Acked(old)
  \/ Data(old) = {} /\ Data(new) = {} /\ Acked(old) # {} /\ Acked(new) = {}
FourPhase ==
  [][~resetMode => \A c \in Chan :
       wire'[c] # wire[c] => HandshakeStep(wire[c], wire'[c])]_vars

(* A probe that was true tells the truth: the data stays on the wires      *)
(* until the receive has got it, so the receive does not wait for it.      *)
ProbeMeansData == probed /\ st["R"] < 2 => Data(wire["R"]) # {}

(* A communication through wires, methods and circuit is the slack-zero    *)
(* handshake that two CHP processes would have had.                        *)
Abstract == INSTANCE Rendezvous
  WITH Values <- {0, 1}, offered <- sent, taken <- got
ImplementsRendezvous == Abstract!Spec
=============================================================================
