-------------------------- MODULE ChpChannelProofs --------------------------
(***************************************************************************)
(* Proofs about ChpChannel, for every set of values, every placement of    *)
(* the two ends in processes, with or without backward values and probes.  *)
(* All but the last concern Spec, the simulation without console           *)
(* commands; the last, ConsoleForgetsNobody, is about ConsoleSpec.         *)
(*                                                                         *)
(* The invariant of Spec has two halves.  Control says where each process  *)
(* stands: the state of its program counter determines its pending events, *)
(* its registration at the channel and the wait sets.  Data says what the  *)
(* slots hold at those moments, and that the two ends have matched the     *)
(* same number of actions.  Control is inductive by itself.  ConsoleInv is *)
(* what is left of Control when commands wake processes up.                *)
(***************************************************************************)
EXTENDS ChpChannel, SequenceTheorems, TLAPS

Blocked(e) == at[e] = "comm" /\ here[e] # 0
Woken(e) == at[e] = "comm" /\ here[e] = 0
One(b) == IF b THEN 1 ELSE 0

(* The two ends are never both registered and waiting: the later one       *)
(* would have met the earlier.                                             *)
NotBothBlocked == ~(here["snd"] # 0 /\ here["rcv"] # 0)

(* What the statement an end stands at says of its events and its          *)
(* registration.                                                           *)
EndOK(e) ==
  /\ at[e] = "ready" => step[e] = 1 /\ wake[e] = 0 /\ here[e] = 0 /\ ~probing[e]
  /\ at[e] = "done" => step[e] = 0 /\ wake[e] = 0 /\ here[e] = 0 /\ ~probing[e]
  /\ at[e] = "comm" =>
       /\ step[e] = 0 /\ ~probing[e]
       /\ \/ wake[e] = 1 /\ here[e] = 0
          \/ wake[e] = 0 /\ here[e] = Pc[e] + 1
  /\ at[e] = "probe" =>
       /\ step[e] = 0 /\ e \in Probers
       /\ \/ wake[e] = 1 /\ here[e] = 0 /\ ~probing[e]
          \/ wake[e] = 0 /\ here[e] = Pc[e] + 1 /\ probing[e]

Control ==
  /\ TypeOK
  /\ ~failed /\ ~skip_action /\ skipped = {}
  /\ \A e \in End : EndOK(e)
  /\ resetMode => \A e \in End : at[e] = "ready"
  /\ NotBothBlocked
  /\ ~(Woken("snd") /\ Woken("rcv"))
  /\ w = {Proc[e] : e \in {f \in End : Blocked(f)}}
  /\ probe = (\E e \in End : at[e] = "probe")
  /\ probe_w = {Proc[e] : e \in {f \in End : probing[f]}}
  /\ probed \subseteq Probers
  /\ \A e \in probed : at[e] \in {"ready", "done"} /\ Blocked(Other(e))

Forward ==
  /\ count + One(Woken("snd")) = Len(rcvd) + One(Woken("rcv"))
  /\ Len(sent) = count + One(at["snd"] = "comm")
  /\ \A i \in 1 .. Len(rcvd) : rcvd[i] = sent[i]
  /\ Blocked("snd") => data2 = sent[Len(sent)]
  /\ Woken("rcv") => data = sent[Len(rcvd) + 1]

Backward ==
  IF Bidir
    THEN /\ Len(xrcvd) = count
         /\ Len(xsent) = Len(rcvd) + One(at["rcv"] = "comm")
         /\ \A i \in 1 .. Len(xrcvd) : xrcvd[i] = xsent[i]
         /\ Blocked("rcv") => data2 = xsent[Len(xsent)]
         /\ Woken("snd") => data = xsent[count + 1]
    ELSE xsent = <<>> /\ xrcvd = <<>>

IInv == Control /\ Forward /\ Backward

-----------------------------------------------------------------------------
(* A notification of the one object that hosts the waiting end reaches     *)
(* that end and no other, even when one object hosts both.                 *)
LEMMA NotifiedOne ==
  ASSUME TypeOK, NEW e \in End
  PROVE  Notified({Proc[e]}, Pc[e]) = [wake EXCEPT ![e] = @ + 1]
<1>1. \A f \in End : (Proc[f] \in {Proc[e]} /\ Pc[f] = Pc[e]) <=> f = e
  BY ProcAssumption DEF End
<1>2. wake \in [End -> Nat]
  BY DEF TypeOK
<1>3. \A f \in End : wake[f] + 0 = wake[f]
  BY <1>2
<1> QED
  BY <1>1, <1>2, <1>3 DEF Notified

(* What Release does when the end it releases is registered. *)
LEMMA ReleaseEffect ==
  ASSUME Control, NEW e \in End, Waiting(e), Release(e)
  PROVE  /\ Blocked(e) /\ wake[e] = 0
         /\ wake' = [wake EXCEPT ![e] = @ + 1]
         /\ here' = [here EXCEPT ![e] = 0]
         /\ w' = {}
<1>1. EndOK(e) /\ TypeOK /\ NotBothBlocked
  BY DEF Control
<1>2. at[e] = "comm" /\ wake[e] = 0 /\ here[e] = Pc[e] + 1
  BY <1>1 DEF EndOK, Waiting, TypeOK
<1>3. here[e] - 1 = Pc[e]
  BY <1>2, PcAssumption
<1>4. \A f \in End : Blocked(f) <=> f = e
  BY <1>1, <1>2 DEF Blocked, NotBothBlocked, End, Waiting
<1>5. w = {Proc[e]}
  BY <1>4 DEF Control
<1> QED
  BY <1>1, <1>2, <1>3, <1>5, NotifiedOne DEF Release, Blocked, Waiting

(* What Block does: the end that blocks registers; a partner that waits in *)
(* a selection is woken up.                                                *)
LEMMA BlockEffect ==
  ASSUME Control, NEW e \in End, at[e] = "ready", ~Waiting(Other(e)), Block(e)
  PROVE  /\ ~failed'
         /\ w' = {Proc[e]}
         /\ \/ /\ at[Other(e)] = "probe" /\ probing[Other(e)]
               /\ wake' = [wake EXCEPT ![Other(e)] = @ + 1]
               /\ probe_w' = {}
               /\ probing' = [probing EXCEPT ![Other(e)] = FALSE]
               /\ here' = [here EXCEPT ![Other(e)] = 0, ![e] = Pc[e] + 1]
            \/ /\ here[Other(e)] = 0 /\ ~probing[Other(e)]
               /\ here' = [here EXCEPT ![e] = Pc[e] + 1]
               /\ UNCHANGED <<wake, probe_w, probing>>
<1> DEFINE o == Other(e)
<1>1. o \in End /\ o # e /\ End = {e, o}
  BY DEF Other, End
<1>2. EndOK(e) /\ EndOK(o) /\ TypeOK
  BY <1>1 DEF Control
<1>3. here[e] = 0 /\ ~failed'
  BY <1>2 DEF EndOK, Block
<1>4. w = {}
  <2>1. \A f \in End : ~Blocked(f)
    BY <1>1, <1>2, <1>3 DEF EndOK, Blocked, Waiting
  <2> QED
    BY <2>1 DEF Control
<1>5. CASE WaitingProbe(o)
  <2>1. at[o] = "probe" /\ wake[o] = 0 /\ here[o] = Pc[o] + 1 /\ probing[o]
    BY <1>1, <1>2, <1>5 DEF EndOK, WaitingProbe, TypeOK
  <2>2. here[o] - 1 = Pc[o]
    BY <2>1, <1>1, PcAssumption
  <2>3. \A f \in End : probing[f] <=> f = o
    BY <1>1, <1>2, <2>1 DEF EndOK
  <2>4. probe_w = {Proc[o]}
    BY <2>3, <1>1 DEF Control
  <2>5. wake' = [wake EXCEPT ![o] = @ + 1]
    BY <1>1, <1>2, <1>5, <2>2, <2>4, NotifiedOne DEF Block
  <2> QED
    BY <1>3, <1>4, <1>5, <2>1, <2>5 DEF Block
<1>6. CASE ~WaitingProbe(o)
  <2>1. here[o] = 0
    BY <1>6 DEF Waiting, WaitingProbe
  <2>2. ~probing[o]
    BY <2>1, <1>1, <1>2, PcAssumption DEF EndOK, TypeOK
  <2> QED
    BY <1>3, <1>4, <1>6, <2>1, <2>2 DEF Block
<1> QED
  BY <1>5, <1>6

-----------------------------------------------------------------------------
(* Without console commands nothing is ever skipped, and a statement that  *)
(* a plain event reaches is a new one.                                     *)
LEMMA ReachesNew ==
  ASSUME Control, NEW e \in End, Reaches(e)
  PROVE  at[e] = "ready" /\ step[e] = 1 /\ wake[e] = 0 /\ here[e] = 0 /\ ~probing[e]
BY DEF Control, EndOK, Reaches

LEMMA ProceedType ==
  ASSUME TypeOK, NEW e \in End, NEW q \in [End -> Nat], Proceed(e, q)
  PROVE  at' \in [End -> {"ready", "comm", "probe", "done"}] /\ step' \in [End -> Nat]
<1>1. at \in [End -> {"ready", "comm", "probe", "done"}]
  BY DEF TypeOK
<1>2. CASE at' = [at EXCEPT ![e] = "ready"] /\ step' = [q EXCEPT ![e] = @ + 1]
  BY <1>1, <1>2
<1>3. CASE at' = [at EXCEPT ![e] = "done"] /\ step' = q
  BY <1>1, <1>3
<1> QED
  BY <1>2, <1>3 DEF Proceed

LEMMA DeliverType ==
  ASSUME NEW q \in [End -> Nat], NEW e \in End, q[e] > 0
  PROVE  Deliver(q, e) \in [End -> Nat]
BY DEF Deliver

(* The later of the two ends arrives and completes both actions. *)
LEMMA MeetControl ==
  ASSUME Control, TypeOK', NEW e \in End, Reaches(e), Waiting(Other(e)),
         Release(Other(e)), Proceed(e, Deliver(step, e)),
         failed' = (here[e] # 0 \/ probing[e] \/ probing[Other(e)]),
         ~skip_action', probed' = probed \ {e},
         UNCHANGED <<probing, probe, probe_w, resetMode, skipped>>
  PROVE  Control'
<1> DEFINE o == Other(e)
<1>1. o \in End /\ o # e /\ End = {e, o}
  BY DEF Other, End
<1>2. EndOK(e) /\ EndOK(o) /\ TypeOK
  BY <1>1 DEF Control
<1>3. at[e] = "ready" /\ step[e] = 1 /\ wake[e] = 0 /\ here[e] = 0 /\ ~probing[e]
  BY ReachesNew
<1>4. /\ Blocked(o) /\ wake[o] = 0
      /\ wake' = [wake EXCEPT ![o] = @ + 1]
      /\ here' = [here EXCEPT ![o] = 0]
      /\ w' = {}
  BY <1>1, ReleaseEffect
<1>5. step[o] = 0 /\ ~probing[o] /\ at[o] = "comm"
  BY <1>2, <1>4 DEF EndOK, Blocked
<1>6. \/ at' = [at EXCEPT ![e] = "ready"] /\ step' = step
      \/ at' = [at EXCEPT ![e] = "done"] /\ step' = [step EXCEPT ![e] = 0]
  BY <1>2, <1>3 DEF Proceed, Deliver, TypeOK
<1>7. EndOK(e)' /\ at'[e] \in {"ready", "done"}
  BY <1>1, <1>2, <1>3, <1>4, <1>6 DEF EndOK, TypeOK
<1>8. EndOK(o)' /\ Woken(o)' /\ at'[o] = "comm"
  BY <1>1, <1>2, <1>4, <1>5, <1>6 DEF EndOK, TypeOK, Woken
<1>9. \A f \in End : ~Blocked(f)'
  BY <1>1, <1>7, <1>8 DEF Blocked, Woken
<1>10. w' = {Proc[f] : f \in {g \in End : Blocked(g)'}}
  BY <1>4, <1>9
<1>11. \A f \in End : (at'[f] = "probe") <=> (at[f] = "probe")
  BY <1>1, <1>3, <1>5, <1>7, <1>8
<1>12. probe' = (\E f \in End : at'[f] = "probe")
  BY <1>11 DEF Control
<1>13. probe_w' = {Proc[f] : f \in {g \in End : probing'[g]}}
  BY DEF Control
<1>14. o \notin probed
  BY <1>1, <1>5 DEF Control
<1>15. probed' = {}
  BY <1>1, <1>2, <1>14 DEF TypeOK
<1>16. ~resetMode' /\ ~failed' /\ skipped' = {}
  BY <1>3, <1>5 DEF Reaches, Control
<1>17. NotBothBlocked' /\ ~(Woken("snd") /\ Woken("rcv"))'
  BY <1>1, <1>7, <1>8, <1>9 DEF NotBothBlocked, Blocked, Woken, EndOK, End
<1> QED
  BY <1>1, <1>7, <1>8, <1>10, <1>12, <1>13, <1>15, <1>16, <1>17 DEF Control

(* The earlier of the two ends arrives and blocks. *)
LEMMA BlockControl ==
  ASSUME Control, TypeOK', NEW e \in End, Reaches(e), ~Waiting(Other(e)), Block(e),
         probed' = probed \ {e},
         UNCHANGED <<skip_action, resetMode, skipped>>
  PROVE  Control'
<1> DEFINE o == Other(e)
<1>1. o \in End /\ o # e /\ End = {e, o} /\ Other(o) = e
  BY DEF Other, End
<1>2. EndOK(e) /\ EndOK(o) /\ TypeOK
  BY <1>1 DEF Control
<1>3. at[e] = "ready" /\ step[e] = 1 /\ wake[e] = 0 /\ here[e] = 0 /\ ~probing[e]
  BY ReachesNew
<1>4. ~failed' /\ w' = {Proc[e]}
  BY <1>3, BlockEffect
<1>5. at' = [at EXCEPT ![e] = "comm"] /\ step' = [step EXCEPT ![e] = 0] /\ probe' = probe
  BY <1>2, <1>3 DEF Block, Deliver, TypeOK
<1>6. /\ EndOK(e)' /\ EndOK(o)' /\ Blocked(e)' /\ here'[o] = 0
      /\ ~probing'[e] /\ ~probing'[o]
      /\ probe_w' = {}
  <2>1. CASE /\ at[o] = "probe" /\ probing[o]
             /\ wake' = [wake EXCEPT ![o] = @ + 1]
             /\ probe_w' = {}
             /\ probing' = [probing EXCEPT ![o] = FALSE]
             /\ here' = [here EXCEPT ![o] = 0, ![e] = Pc[e] + 1]
    BY <1>1, <1>2, <1>3, <1>5, <2>1, PcAssumption DEF EndOK, Blocked, TypeOK
  <2>2. CASE /\ here[o] = 0 /\ ~probing[o]
             /\ here' = [here EXCEPT ![e] = Pc[e] + 1]
             /\ UNCHANGED <<wake, probe_w, probing>>
    <3>1. probe_w' = {}
      BY <1>1, <1>3, <2>2 DEF Control
    <3> QED
      BY <1>1, <1>2, <1>3, <1>5, <2>2, <3>1, PcAssumption DEF EndOK, Blocked, TypeOK
  <2> QED
    BY <1>3, <2>1, <2>2, BlockEffect
<1>7. \A f \in End : Blocked(f)' <=> f = e
  BY <1>1, <1>6 DEF Blocked
<1>8. w' = {Proc[f] : f \in {g \in End : Blocked(g)'}}
  BY <1>4, <1>7
<1>9. probe' = (\E f \in End : at'[f] = "probe")
  <2>1. \A f \in End : (at'[f] = "probe") <=> (at[f] = "probe")
    BY <1>1, <1>2, <1>3, <1>5 DEF TypeOK
  <2> QED
    BY <1>5, <2>1 DEF Control
<1>10. probe_w' = {Proc[f] : f \in {g \in End : probing'[g]}}
  BY <1>1, <1>6
<1>11. probed' = {}
  <2>1. o \notin probed
    BY <1>1, <1>3 DEF Control, Blocked
  <2> QED
    BY <1>1, <1>2, <2>1 DEF TypeOK
<1>12. ~resetMode' /\ ~skip_action' /\ skipped' = {}
  BY DEF Reaches, Control
<1>13. NotBothBlocked' /\ ~(Woken("snd") /\ Woken("rcv"))'
  BY <1>1, <1>6, <1>7 DEF NotBothBlocked, Blocked, Woken, EndOK, End
<1> QED
  BY <1>1, <1>4, <1>6, <1>8, <1>9, <1>10, <1>11, <1>12, <1>13 DEF Control

(* A wake-up is delivered to an end that was blocked in its action. *)
LEMMA WakeControl ==
  ASSUME Control, TypeOK', NEW e \in End, wake[e] > 0, at[e] = "comm", ~resetMode,
         wake' = Deliver(wake, e), here' = [here EXCEPT ![e] = 0],
         Proceed(e, step), ~failed', ~skip_action', skipped' = skipped \ {e},
         UNCHANGED <<probing, w, probe, probe_w, resetMode, probed>>
  PROVE  Control'
<1> DEFINE o == Other(e)
<1>1. o \in End /\ o # e /\ End = {e, o} /\ Other(o) = e
  BY DEF Other, End
<1>2. EndOK(e) /\ EndOK(o) /\ TypeOK
  BY <1>1 DEF Control
<1>3. step[e] = 0 /\ wake[e] = 1 /\ here[e] = 0 /\ ~probing[e] /\ here' = here
  BY <1>2 DEF EndOK, TypeOK
<1>4. wake' = [wake EXCEPT ![e] = 0]
  BY <1>2, <1>3 DEF Deliver, TypeOK
<1>5. \/ at' = [at EXCEPT ![e] = "ready"] /\ step' = [step EXCEPT ![e] = 1]
      \/ at' = [at EXCEPT ![e] = "done"] /\ step' = step
  BY <1>2, <1>3 DEF Proceed, TypeOK
<1>6. EndOK(e)' /\ EndOK(o)' /\ at'[e] \in {"ready", "done"} /\ at'[o] = at[o]
  BY <1>1, <1>2, <1>3, <1>4, <1>5 DEF EndOK, TypeOK
<1>7. \A f \in End : Blocked(f)' <=> Blocked(f)
  BY <1>1, <1>3, <1>6 DEF Blocked
<1>8. w' = {Proc[f] : f \in {g \in End : Blocked(g)'}}
  <2>1. {g \in End : Blocked(g)'} = {g \in End : Blocked(g)}
    BY <1>7
  <2> QED
    BY <2>1 DEF Control
<1>9. probe' = (\E f \in End : at'[f] = "probe")
  <2>1. \A f \in End : (at'[f] = "probe") <=> (at[f] = "probe")
    BY <1>1, <1>6
  <2> QED
    BY <2>1 DEF Control
<1>10. probe_w' = {Proc[f] : f \in {g \in End : probing'[g]}}
  BY DEF Control
<1>11. \A f \in probed : at'[f] \in {"ready", "done"} /\ Blocked(Other(f))'
  <2>1. \A f \in probed : f \in End /\ f # e /\ Other(f) \in End
    BY <1>1, <1>2 DEF Control, TypeOK
  <2> QED
    BY <1>1, <1>6, <1>7, <2>1 DEF Control
<1>12. NotBothBlocked' /\ ~(Woken("snd") /\ Woken("rcv"))'
  BY <1>1, <1>3, <1>6 DEF Control, NotBothBlocked, Woken, End
<1>13. probed' \subseteq Probers /\ ~resetMode' /\ skipped' = {}
  BY DEF Control
<1> QED
  BY <1>1, <1>6, <1>8, <1>9, <1>10, <1>11, <1>12, <1>13 DEF Control

-----------------------------------------------------------------------------
(* Type correctness, one action at a time.  The data types of the history  *)
(* need that nothing is appended but values.                               *)
LEMMA IssuesType ==
  ASSUME NEW hst \in Seq(Values), NEW e \in End, NEW v \in Values
  PROVE  Issues(hst, e, v) \in Seq(Values)
BY DEF Issues

LEMMA CompletedType ==
  ASSUME NEW hst \in Seq(Values \cup {Dropped}), NEW e \in End, NEW v \in Values
  PROVE  Completed(hst, e, v) \in Seq(Values \cup {Dropped})
<1>1. Append(hst, Dropped) \in Seq(Values \cup {Dropped})
  OBVIOUS
<1>2. Append(hst, v) \in Seq(Values \cup {Dropped})
  OBVIOUS
<1> QED
  BY <1>1, <1>2 DEF Completed

LEMMA NotifiedType ==
  ASSUME wake \in [End -> Nat], NEW objs, NEW pc
  PROVE  Notified(objs, pc) \in [End -> Nat]
<1>1. \A f \in End : wake[f] + (IF Proc[f] \in objs /\ Pc[f] = pc THEN 1 ELSE 0) \in Nat
  OBVIOUS
<1> QED
  BY <1>1 DEF Notified

LEMMA ReleaseType ==
  ASSUME TypeOK, NEW e \in End, Release(e)
  PROVE  /\ here' \in [End -> Nat] /\ wake' \in [End -> Nat]
         /\ w' \subseteq {Proc[f] : f \in End}
BY NotifiedType DEF TypeOK, Release

LEMMA BlockType ==
  ASSUME TypeOK, NEW e \in End, step[e] > 0, Block(e)
  PROVE  /\ here' \in [End -> Nat] /\ wake' \in [End -> Nat]
         /\ w' \subseteq {Proc[f] : f \in End}
         /\ probing' \in [End -> BOOLEAN]
         /\ probe' \in BOOLEAN /\ probe_w' \subseteq {Proc[f] : f \in End}
         /\ at' \in [End -> {"ready", "comm", "probe", "done"}]
         /\ step' \in [End -> Nat] /\ failed' \in BOOLEAN
<1> DEFINE o == Other(e)
<1>1. o \in End
  BY DEF Other, End
<1>2. Pc[e] + 1 \in Nat
  BY PcAssumption
<1>3. wake' \in [End -> Nat]
  BY NotifiedType DEF TypeOK, Block
<1>4. here' \in [End -> Nat]
  <2>1. CASE WaitingProbe(o)
    <3>1. here' = [here EXCEPT ![o] = 0, ![e] = Pc[e] + 1]
      BY <2>1 DEF Block
    <3> QED
      BY <1>1, <1>2, <3>1 DEF TypeOK
  <2>2. CASE ~WaitingProbe(o)
    <3>1. here' = [here EXCEPT ![e] = Pc[e] + 1]
      BY <2>2 DEF Block
    <3> QED
      BY <1>2, <3>1 DEF TypeOK
  <2> QED
    BY <2>1, <2>2
<1>5. probing' \in [End -> BOOLEAN] /\ probe' \in BOOLEAN
  BY <1>1 DEF TypeOK, Block
<1>6. w' \subseteq {Proc[f] : f \in End} /\ probe_w' \subseteq {Proc[f] : f \in End}
  BY DEF TypeOK, Block
<1>7. at' \in [End -> {"ready", "comm", "probe", "done"}]
  BY DEF TypeOK, Block
<1>8. step' \in [End -> Nat]
  BY DeliverType DEF TypeOK, Block
<1>9. failed' \in BOOLEAN
  BY DEF Block
<1> QED
  BY <1>3, <1>4, <1>5, <1>6, <1>7, <1>8, <1>9

LEMMA TypeSendMeets ==
  ASSUME TypeOK, NEW v \in Values, SendMeets(v)
  PROVE  TypeOK'
<1>1. "snd" \in End /\ "rcv" \in End /\ step["snd"] > 0
  BY DEF End, SendMeets, Reaches
<1>2. Deliver(step, "snd") \in [End -> Nat]
  BY <1>1, DeliverType DEF TypeOK
<1>3. at' \in [End -> {"ready", "comm", "probe", "done"}] /\ step' \in [End -> Nat]
  BY <1>1, <1>2, ProceedType DEF SendMeets
<1>4. /\ here' \in [End -> Nat] /\ wake' \in [End -> Nat]
      /\ w' \subseteq {Proc[f] : f \in End}
  BY <1>1, ReleaseType DEF SendMeets
<1>5. sent' \in Seq(Values) /\ xrcvd' \in Seq(Values \cup {Dropped})
  <2>1. Completed(xrcvd, "snd", data2) \in Seq(Values \cup {Dropped})
    BY <1>1, CompletedType DEF TypeOK
  <2>2. Issues(sent, "snd", v) \in Seq(Values)
    BY <1>1, IssuesType DEF TypeOK
  <2> QED
    BY <2>1, <2>2 DEF TypeOK, SendMeets
<1>6. data' \in Values /\ data2' \in Values /\ count' \in Nat
  BY DEF TypeOK, SendMeets, HandOver
<1>7. skip_action' \in BOOLEAN /\ failed' \in BOOLEAN /\ probed' \subseteq End
  BY DEF TypeOK, SendMeets
<1> QED
  BY <1>3, <1>4, <1>5, <1>6, <1>7 DEF TypeOK, SendMeets

LEMMA TypeSendBlocks ==
  ASSUME TypeOK, NEW v \in Values, SendBlocks(v)
  PROVE  TypeOK'
<1>1. "snd" \in End /\ step["snd"] > 0
  BY DEF End, SendBlocks, Reaches
<1>2. sent' \in Seq(Values)
  BY DEF TypeOK, SendBlocks, Issues
<1>3. data' \in Values /\ data2' \in Values /\ probed' \subseteq End
  BY DEF TypeOK, SendBlocks, Leave
<1> QED
  BY <1>1, <1>2, <1>3, BlockType DEF TypeOK, SendBlocks

LEMMA TypeSendWakes ==
  ASSUME TypeOK, SendWakes
  PROVE  TypeOK'
<1>1. "snd" \in End /\ wake["snd"] > 0
  BY DEF End, SendWakes
<1>2. wake' \in [End -> Nat] /\ here' \in [End -> Nat]
  BY <1>1, DeliverType DEF TypeOK, SendWakes
<1>3. at' \in [End -> {"ready", "comm", "probe", "done"}] /\ step' \in [End -> Nat]
  BY <1>1, ProceedType DEF SendWakes, TypeOK
<1>4. xrcvd' \in Seq(Values \cup {Dropped})
  <2>1. Completed(xrcvd, "snd", data) \in Seq(Values \cup {Dropped})
    BY <1>1, CompletedType DEF TypeOK
  <2> QED
    BY <2>1 DEF TypeOK, SendWakes
<1>5. skip_action' \in BOOLEAN /\ failed' \in BOOLEAN /\ skipped' \subseteq End
  BY <1>1 DEF TypeOK, SendWakes
<1>6. count' \in Nat
  BY DEF TypeOK, SendWakes
<1> QED
  BY <1>2, <1>3, <1>4, <1>5, <1>6 DEF TypeOK, SendWakes

LEMMA TypeRecvMeets ==
  ASSUME TypeOK, NEW x \in Values, RecvMeets(x)
  PROVE  TypeOK'
<1>1. "snd" \in End /\ "rcv" \in End /\ step["rcv"] > 0
  BY DEF End, RecvMeets, Reaches
<1>2. Deliver(step, "rcv") \in [End -> Nat]
  BY <1>1, DeliverType DEF TypeOK
<1>3. at' \in [End -> {"ready", "comm", "probe", "done"}] /\ step' \in [End -> Nat]
  BY <1>1, <1>2, ProceedType DEF RecvMeets
<1>4. /\ here' \in [End -> Nat] /\ wake' \in [End -> Nat]
      /\ w' \subseteq {Proc[f] : f \in End}
  BY <1>1, ReleaseType DEF RecvMeets
<1>5. rcvd' \in Seq(Values \cup {Dropped}) /\ xsent' \in Seq(Values)
  <2>1. Completed(rcvd, "rcv", data2) \in Seq(Values \cup {Dropped})
    BY <1>1, CompletedType DEF TypeOK
  <2>2. Issues(xsent, "rcv", x) \in Seq(Values)
    BY <1>1, IssuesType DEF TypeOK
  <2> QED
    BY <2>1, <2>2 DEF TypeOK, RecvMeets
<1>6. data' \in Values /\ data2' \in Values
  BY DEF TypeOK, RecvMeets, HandOver
<1>7. skip_action' \in BOOLEAN /\ failed' \in BOOLEAN /\ probed' \subseteq End
  BY <1>1 DEF TypeOK, RecvMeets
<1> QED
  BY <1>3, <1>4, <1>5, <1>6, <1>7 DEF TypeOK, RecvMeets

LEMMA TypeRecvBlocks ==
  ASSUME TypeOK, NEW x \in Values, RecvBlocks(x)
  PROVE  TypeOK'
<1>1. "rcv" \in End /\ step["rcv"] > 0
  BY DEF End, RecvBlocks, Reaches
<1>2. xsent' \in Seq(Values)
  <2>1. Issues(xsent, "rcv", x) \in Seq(Values)
    BY <1>1, IssuesType DEF TypeOK
  <2> QED
    BY <2>1 DEF TypeOK, RecvBlocks
<1>3. data' \in Values /\ data2' \in Values /\ probed' \subseteq End
  BY DEF TypeOK, RecvBlocks, Leave
<1> QED
  BY <1>1, <1>2, <1>3, BlockType DEF TypeOK, RecvBlocks

LEMMA TypeRecvWakes ==
  ASSUME TypeOK, RecvWakes
  PROVE  TypeOK'
<1>1. "rcv" \in End /\ wake["rcv"] > 0
  BY DEF End, RecvWakes
<1>2. wake' \in [End -> Nat]
  BY <1>1, DeliverType DEF TypeOK, RecvWakes
<1>3. at' \in [End -> {"ready", "comm", "probe", "done"}] /\ step' \in [End -> Nat]
  BY <1>1, ProceedType DEF RecvWakes, TypeOK
<1>4. rcvd' \in Seq(Values \cup {Dropped})
  BY DEF TypeOK, RecvWakes, Completed
<1>5. skip_action' \in BOOLEAN /\ failed' \in BOOLEAN /\ skipped' \subseteq End
  BY <1>1 DEF TypeOK, RecvWakes
<1> QED
  BY <1>2, <1>3, <1>4, <1>5 DEF TypeOK, RecvWakes

LEMMA TypeSelect ==
  ASSUME TypeOK, NEW e \in End, Select(e)
  PROVE  TypeOK'
<1>1. PICK undo \in BOOLEAN, s \in [End -> Nat] :
        SelectPasses(e, undo, s) \/ SelectBlocks(e, undo, s)
  BY DeliverType DEF Select, TypeOK
<1>2. wake' \in [End -> Nat]
  <2>1. CASE wake' = wake
    BY <2>1 DEF TypeOK
  <2>2. CASE wake[e] > 0 /\ wake' = Deliver(wake, e)
    BY <2>2, DeliverType DEF TypeOK
  <2> QED
    BY <2>1, <2>2 DEF Select
<1>3. Pc[e] + 1 \in Nat
  BY PcAssumption
<1>4. CASE SelectPasses(e, undo, s)
  <2>1. at' \in [End -> {"ready", "comm", "probe", "done"}] /\ step' \in [End -> Nat]
    BY <1>4, ProceedType DEF SelectPasses
  <2>2. /\ here' \in [End -> Nat] /\ probing' \in [End -> BOOLEAN]
        /\ probe' \in BOOLEAN /\ probe_w' \subseteq {Proc[f] : f \in End}
    BY <1>4 DEF SelectPasses, Undone, TypeOK
  <2> QED
    BY <1>2, <1>4, <2>1, <2>2 DEF TypeOK, Select, SelectPasses
<1>5. CASE SelectBlocks(e, undo, s)
  <2>1. /\ here' \in [End -> Nat] /\ probing' \in [End -> BOOLEAN]
        /\ probe' \in BOOLEAN /\ probe_w' \subseteq {Proc[f] : f \in End}
        /\ failed' \in BOOLEAN
    BY <1>3, <1>5 DEF SelectBlocks, TypeOK
  <2>2. at' \in [End -> {"ready", "comm", "probe", "done"}] /\ step' \in [End -> Nat]
    BY <1>5 DEF SelectBlocks, TypeOK
  <2> QED
    BY <1>2, <1>5, <2>1, <2>2 DEF TypeOK, Select, SelectBlocks
<1> QED
  BY <1>1, <1>4, <1>5

LEMMA TypePostpone ==
  ASSUME TypeOK, NEW e \in End, Postpone(e)
  PROVE  TypeOK'
<1>1. wake' \in [End -> Nat] /\ step' \in [End -> Nat]
  <2>1. CASE UNCHANGED <<step, wake>>
    BY <2>1 DEF TypeOK
  <2>2. CASE wake[e] > 0 /\ wake' = Deliver(wake, e) /\ step' = [step EXCEPT ![e] = @ + 1]
    <3>1. wake' \in [End -> Nat]
      BY <2>2, DeliverType DEF TypeOK
    <3>2. step' \in [End -> Nat]
      BY <2>2 DEF TypeOK
    <3> QED
      BY <3>1, <3>2
  <2> QED
    BY <2>1, <2>2 DEF Postpone
<1> QED
  BY <1>1 DEF TypeOK, Postpone, chan, hist

LEMMA TypeStep ==
  ASSUME TypeOK, [Next]_vars
  PROVE  TypeOK'
<1>1. CASE Send
  BY <1>1, TypeSendMeets, TypeSendBlocks DEF Send
<1>2. CASE SendWakes
  BY <1>2, TypeSendWakes
<1>3. CASE Recv
  BY <1>3, TypeRecvMeets, TypeRecvBlocks DEF Recv
<1>4. CASE RecvWakes
  BY <1>4, TypeRecvWakes
<1>5. ASSUME NEW e \in End, Select(e) PROVE TypeOK'
  BY <1>5, TypeSelect
<1>6. ASSUME NEW e \in End, Postpone(e) PROVE TypeOK'
  BY <1>6, TypePostpone
<1>7. CASE EndReset
  BY <1>7 DEF TypeOK, EndReset, chan, hist
<1>8. CASE UNCHANGED vars
  BY <1>8 DEF TypeOK, vars, chan, hist
<1> QED
  BY <1>1, <1>2, <1>3, <1>4, <1>5, <1>6, <1>7, <1>8 DEF Next

-----------------------------------------------------------------------------
(* A selection finds its probe true, or false; the event that ran it was   *)
(* its first (undo = FALSE) or the wake-up it waited for.                  *)
LEMMA SelectCases ==
  ASSUME Control, NEW e \in End, Select(e)
  PROVE  \E undo \in BOOLEAN, s \in [End -> Nat] :
           /\ SelectPasses(e, undo, s) \/ SelectBlocks(e, undo, s)
           /\ e \in Probers /\ ~resetMode
           /\ s = [step EXCEPT ![e] = 0]
           /\ wake' = [wake EXCEPT ![e] = 0]
           /\ here[e] = 0 /\ ~probing[e]
           /\ \/ ~undo /\ at[e] = "ready"
              \/ undo /\ at[e] = "probe"
<1>1. EndOK(e) /\ TypeOK
  BY DEF Control
<1>2. e \in Probers /\ ~resetMode
  BY DEF Select
<1>3. CASE step[e] > 0 /\ at[e] \in {"ready", "probe"} /\ wake' = wake
           /\ (SelectPasses(e, FALSE, Deliver(step, e))
                \/ SelectBlocks(e, FALSE, Deliver(step, e)))
  <2>1. at[e] = "ready" /\ step[e] = 1 /\ wake[e] = 0 /\ here[e] = 0 /\ ~probing[e]
    BY <1>1, <1>3 DEF EndOK
  <2>2. Deliver(step, e) = [step EXCEPT ![e] = 0] /\ wake = [wake EXCEPT ![e] = 0]
    BY <1>1, <2>1 DEF Deliver, TypeOK
  <2>3. Deliver(step, e) \in [End -> Nat]
    BY <1>1, <2>2 DEF TypeOK
  <2> QED
    BY <1>2, <1>3, <2>1, <2>2, <2>3
<1>4. CASE wake[e] > 0 /\ at[e] = "probe" /\ wake' = Deliver(wake, e)
           /\ (SelectPasses(e, TRUE, step) \/ SelectBlocks(e, TRUE, step))
  <2>1. step[e] = 0 /\ wake[e] = 1 /\ here[e] = 0 /\ ~probing[e]
    BY <1>1, <1>4 DEF EndOK
  <2>2. step = [step EXCEPT ![e] = 0] /\ wake' = [wake EXCEPT ![e] = 0]
    BY <1>1, <1>4, <2>1 DEF Deliver, TypeOK
  <2>3. step \in [End -> Nat]
    BY <1>1 DEF TypeOK
  <2> QED
    BY <1>2, <1>4, <2>1, <2>2, <2>3
<1> QED
  BY <1>3, <1>4 DEF Select

(* One end only may probe, so while one runs its selection the other waits *)
(* in none.                                                                *)
LEMMA OneProber ==
  ASSUME Control, NEW e \in End, e \in Probers
  PROVE  /\ at[Other(e)] # "probe" /\ ~probing[Other(e)]
         /\ Other(e) \notin Probers
<1> DEFINE o == Other(e)
<1>1. o \in End /\ o # e
  BY DEF Other, End
<1>2. o \notin Probers
  BY <1>1, ProbersAssumption
<1>3. EndOK(o) /\ TypeOK
  BY <1>1 DEF Control
<1> QED
  BY <1>1, <1>2, <1>3 DEF EndOK, TypeOK

LEMMA SelectControl ==
  ASSUME Control, TypeOK', NEW e \in End, Select(e)
  PROVE  Control'
<1> DEFINE o == Other(e)
<1>1. o \in End /\ o # e /\ End = {e, o}
  BY DEF Other, End
<1>2. EndOK(e) /\ EndOK(o) /\ TypeOK
  BY <1>1 DEF Control
<1>3. PICK undo \in BOOLEAN, s \in [End -> Nat] :
           /\ SelectPasses(e, undo, s) \/ SelectBlocks(e, undo, s)
           /\ e \in Probers /\ ~resetMode
           /\ s = [step EXCEPT ![e] = 0]
           /\ wake' = [wake EXCEPT ![e] = 0]
           /\ here[e] = 0 /\ ~probing[e]
           /\ \/ ~undo /\ at[e] = "ready"
              \/ undo /\ at[e] = "probe"
  BY SelectCases
<1>4. at[o] # "probe" /\ ~probing[o] /\ o \notin Probers
  BY <1>3, OneProber
<1>5. UNCHANGED <<data, data2, count, skip_action, w, resetMode, sent, rcvd, xsent,
                  xrcvd, skipped, cmds>>
  BY DEF Select
<1>6. probe = undo
  BY <1>1, <1>3, <1>4 DEF Control
<1>7. probed \subseteq {e}
  BY <1>1, <1>4, ProbersAssumption DEF Control
<1>8. CASE SelectPasses(e, undo, s)
  <2>1. here' = here /\ probing' = probing /\ ~probe' /\ probe_w' = {}
    <3>1. probing = [probing EXCEPT ![e] = FALSE]
      BY <1>2, <1>3 DEF TypeOK
    <3>2. probe_w = {}
      BY <1>1, <1>3, <1>4 DEF Control
    <3> QED
      BY <1>3, <1>6, <1>8, <3>1, <3>2 DEF SelectPasses, Undone
  <2>2. \/ at' = [at EXCEPT ![e] = "ready"] /\ step' = [step EXCEPT ![e] = 1]
        \/ at' = [at EXCEPT ![e] = "done"] /\ step' = [step EXCEPT ![e] = 0]
    BY <1>2, <1>3, <1>8 DEF SelectPasses, Proceed, TypeOK
  <2>3. EndOK(e)' /\ EndOK(o)' /\ at'[e] \in {"ready", "done"} /\ at'[o] = at[o]
    BY <1>1, <1>2, <1>3, <1>4, <2>1, <2>2 DEF EndOK, TypeOK
  <2>4. Waiting(o) /\ at[o] = "comm"
    <3>1. Waiting(e) \/ Waiting(o)
      BY <1>1, <1>8 DEF SelectPasses, ProbeTrue, End
    <3>2. ~Waiting(e)
      BY <1>3 DEF Waiting
    <3>3. at[o] \in {"ready", "comm", "probe", "done"}
      BY <1>1, <1>2 DEF TypeOK
    <3>4. here[o] # 0
      BY <3>1, <3>2 DEF Waiting
    <3> QED
      BY <1>2, <1>4, <3>1, <3>2, <3>3, <3>4 DEF EndOK
  <2>5. \A f \in End : Blocked(f)' <=> Blocked(f)
    BY <1>1, <1>3, <2>1, <2>3 DEF Blocked
  <2>6. w' = {Proc[f] : f \in {g \in End : Blocked(g)'}}
    <3>1. {g \in End : Blocked(g)'} = {g \in End : Blocked(g)}
      BY <2>5
    <3> QED
      BY <1>5, <3>1 DEF Control
  <2>7. probe' = (\E f \in End : at'[f] = "probe")
    <3>1. ~(\E f \in End : at'[f] = "probe")
      BY <1>1, <1>4, <2>3
    <3>2. probe' = FALSE
      BY <2>1 DEF TypeOK
    <3> QED
      BY <3>1, <3>2
  <2>8. probe_w' = {Proc[f] : f \in {g \in End : probing'[g]}}
    BY <1>1, <1>3, <1>4, <2>1
  <2>9. probed' = {e} /\ Blocked(o)'
    BY <1>7, <1>8, <2>1, <2>3, <2>4 DEF SelectPasses, Blocked, Waiting
  <2>10. NotBothBlocked' /\ ~(Woken("snd") /\ Woken("rcv"))'
    BY <1>1, <1>3, <2>1, <2>3 DEF NotBothBlocked, Woken, End
  <2>11. ~resetMode' /\ ~failed' /\ ~skip_action' /\ skipped' = {}
    BY <1>3, <1>5, <1>8 DEF Control, SelectPasses
  <2> QED
    BY <1>1, <1>3, <2>3, <2>6, <2>7, <2>8, <2>9, <2>10, <2>11 DEF Control
<1>9. CASE SelectBlocks(e, undo, s)
  <2>1. /\ here' = [here EXCEPT ![e] = Pc[e] + 1]
        /\ probing' = [probing EXCEPT ![e] = TRUE]
        /\ at' = [at EXCEPT ![e] = "probe"] /\ step' = [step EXCEPT ![e] = 0]
        /\ probe' /\ probe_w' = {Proc[e]} /\ ~failed' /\ probed' = probed
    BY <1>3, <1>6, <1>9 DEF SelectBlocks
  <2>2. EndOK(e)' /\ EndOK(o)' /\ at'[o] = at[o] /\ here'[o] = here[o]
    BY <1>1, <1>2, <1>3, <1>4, <2>1 DEF EndOK, TypeOK
  <2>3. here[o] = 0
    BY <1>1, <1>4, <1>9 DEF SelectBlocks, ProbeTrue, Waiting, End
  <2>4. \A f \in End : ~Blocked(f)' /\ ~Blocked(f)
    BY <1>1, <1>2, <1>3, <2>1, <2>2, <2>3 DEF Blocked, TypeOK
  <2>5. w' = {Proc[f] : f \in {g \in End : Blocked(g)'}}
    <3>1. w = {}
      BY <2>4 DEF Control
    <3> QED
      BY <1>5, <2>4, <3>1
  <2>6. probe' = (\E f \in End : at'[f] = "probe")
    BY <1>2, <2>1 DEF TypeOK
  <2>7. probe_w' = {Proc[f] : f \in {g \in End : probing'[g]}}
    <3>1. \A g \in End : probing'[g] <=> g = e
      <4>1. probing \in [End -> BOOLEAN]
        BY <1>2 DEF TypeOK
      <4>2. probing' = [probing EXCEPT ![e] = TRUE]
        BY <2>1
      <4> QED
        BY <1>1, <1>4, <4>1, <4>2
    <3> QED
      BY <2>1, <3>1
  <2>8. probed' = {}
    BY <1>1, <1>7, <2>1, <2>4 DEF Control
  <2>9. NotBothBlocked' /\ ~(Woken("snd") /\ Woken("rcv"))'
    <3>1. at'[e] = "probe" /\ here'[o] = 0
      BY <1>2, <2>1, <2>2, <2>3 DEF TypeOK
    <3> QED
      BY <1>1, <3>1 DEF NotBothBlocked, Woken, End
  <2>10. ~resetMode' /\ ~failed' /\ ~skip_action' /\ skipped' = {}
    BY <1>3, <1>5, <2>1 DEF Control
  <2> QED
    BY <1>1, <2>2, <2>5, <2>6, <2>7, <2>8, <2>9, <2>10 DEF Control
<1> QED
  BY <1>3, <1>8, <1>9

(* Without the command "mode reset" an event is only ever postponed before *)
(* its process has run: nothing changes.                                   *)
LEMMA PostponeStutters ==
  ASSUME Control, NEW e \in End, Postpone(e)
  PROVE  UNCHANGED vars
<1>1. EndOK(e) /\ at[e] = "ready"
  BY DEF Control, Postpone
<1>2. wake[e] = 0
  BY <1>1 DEF EndOK
<1> QED
  BY <1>2 DEF Postpone, vars

LEMMA SameControl ==
  ASSUME Control, UNCHANGED <<chan, step, wake, at, failed, hist, cmds>>,
         resetMode' = FALSE \/ resetMode' = resetMode
  PROVE  Control'
<1> USE DEF chan, hist
<1>1. TypeOK'
  BY DEF Control, TypeOK
<1>2. \A e \in End : EndOK(e)'
  BY DEF Control, EndOK
<1>3. \A e \in End : Blocked(e)' <=> Blocked(e)
  BY DEF Blocked
<1>4. w' = {Proc[f] : f \in {g \in End : Blocked(g)'}}
  <2>1. {g \in End : Blocked(g)'} = {g \in End : Blocked(g)}
    BY <1>3
  <2> QED
    BY <2>1 DEF Control
<1>5. \A f \in probed : at'[f] \in {"ready", "done"} /\ Blocked(Other(f))'
  BY DEF Control, Blocked
<1>6. NotBothBlocked' /\ ~(Woken("snd") /\ Woken("rcv"))'
  BY DEF Control, NotBothBlocked, Woken
<1>7. resetMode' => \A e \in End : at'[e] = "ready"
  BY DEF Control
<1>8. probe' = (\E e \in End : at'[e] = "probe")
  BY DEF Control
<1>9. probe_w' = {Proc[e] : e \in {f \in End : probing'[f]}}
  BY DEF Control
<1>10. probed' \subseteq Probers /\ ~failed' /\ ~skip_action' /\ skipped' = {}
  BY DEF Control
<1> QED
  BY <1>1, <1>2, <1>4, <1>5, <1>6, <1>7, <1>8, <1>9, <1>10 DEF Control

(* The initial states, and every step of the simulation, keep Control. *)
LEMMA InitControl ==
  ASSUME Init
  PROVE  Control
<1> USE DEF Init
<1>1. TypeOK
  <2>1. <<>> \in Seq(Values) /\ <<>> \in Seq(Values \cup {Dropped})
    OBVIOUS
  <2>2. cmds \in 0 .. MaxCmds
    BY BoundsAssumption
  <2>3. step \in [End -> Nat] /\ wake \in [End -> Nat] /\ here \in [End -> Nat]
    OBVIOUS
  <2> QED
    BY <2>1, <2>2, <2>3 DEF TypeOK
<1>2. \A e \in End : EndOK(e) /\ ~Blocked(e) /\ ~probing[e]
  BY DEF EndOK, Blocked
<1>3. NotBothBlocked /\ ~(Woken("snd") /\ Woken("rcv"))
  BY DEF NotBothBlocked, Woken, End
<1> QED
  BY <1>1, <1>2, <1>3 DEF Control

LEMMA ControlStep ==
  ASSUME Control, [Next]_vars
  PROVE  Control'
<1>1. TypeOK /\ TypeOK'
  BY TypeStep DEF Control
<1>2. "snd" \in End /\ "rcv" \in End /\ Other("snd") = "rcv" /\ Other("rcv") = "snd"
  BY DEF End, Other
<1>3. ~skip_action /\ skipped = {}
  BY DEF Control
<1>4. ASSUME NEW v \in Values, SendMeets(v) PROVE Control'
  <2>1. ~skip_action' /\ UNCHANGED <<probing, probe, probe_w, resetMode, skipped>>
    BY <1>3, <1>4 DEF SendMeets
  <2>2. failed' = (here["snd"] # 0 \/ probing["snd"] \/ probing["rcv"])
    BY <1>4 DEF SendMeets
  <2> QED
    BY <1>1, <1>2, <1>4, <2>1, <2>2, MeetControl DEF SendMeets
<1>5. ASSUME NEW v \in Values, SendBlocks(v) PROVE Control'
  BY <1>1, <1>2, <1>5, BlockControl DEF SendBlocks
<1>6. CASE SendWakes
  <2>1. EndOK("snd") /\ ~probing["snd"]
    BY <1>2, <1>6 DEF Control, EndOK, SendWakes
  <2>2. ~failed' /\ ~skip_action' /\ skipped' = skipped \ {"snd"}
    BY <1>3, <1>6, <2>1 DEF SendWakes
  <2> QED
    BY <1>1, <1>2, <1>6, <2>2, WakeControl DEF SendWakes
<1>7. ASSUME NEW x \in Values, RecvMeets(x) PROVE Control'
  <2>1. ~skip_action' /\ UNCHANGED <<probing, probe, probe_w, resetMode, skipped>>
    BY <1>7 DEF RecvMeets
  <2>2. failed' = (here["rcv"] # 0 \/ probing["rcv"] \/ probing["snd"])
    BY <1>7 DEF RecvMeets
  <2> QED
    BY <1>1, <1>2, <1>7, <2>1, <2>2, MeetControl DEF RecvMeets
<1>8. ASSUME NEW x \in Values, RecvBlocks(x) PROVE Control'
  BY <1>1, <1>2, <1>8, BlockControl DEF RecvBlocks
<1>9. CASE RecvWakes
  <2>1. EndOK("rcv") /\ here["rcv"] = 0
    BY <1>1, <1>2, <1>9 DEF Control, EndOK, RecvWakes, TypeOK
  <2>2. ~failed' /\ ~skip_action' /\ skipped' = skipped \ {"rcv"}
    BY <1>9, <2>1 DEF RecvWakes
  <2>3. here' = [here EXCEPT !["rcv"] = 0]
    BY <1>1, <1>2, <1>9, <2>1 DEF RecvWakes, TypeOK
  <2> QED
    BY <1>1, <1>2, <1>9, <2>2, <2>3, WakeControl DEF RecvWakes
<1>10. ASSUME NEW e \in End, Select(e) PROVE Control'
  BY <1>1, <1>10, SelectControl
<1>11. ASSUME NEW e \in End, Postpone(e) PROVE Control'
  BY <1>11, PostponeStutters, SameControl DEF vars
<1>12. CASE EndReset
  BY <1>12, SameControl DEF EndReset
<1>13. CASE UNCHANGED vars
  BY <1>13, SameControl DEF vars
<1> QED
  BY <1>4, <1>5, <1>6, <1>7, <1>8, <1>9, <1>10, <1>11, <1>12, <1>13 DEF Next, Send, Recv

-----------------------------------------------------------------------------
(* The data half of the invariant.  First, where the two ends stand when   *)
(* one of them arrives or wakes up, and where they stand afterwards.       *)
LEMMA MeetEnds ==
  ASSUME Control, NEW e \in End, Reaches(e), Waiting(Other(e)),
         Release(Other(e)), Proceed(e, Deliver(step, e))
  PROVE  /\ at[e] = "ready" /\ Blocked(Other(e))
         /\ ~Woken(e) /\ ~Blocked(e) /\ ~Woken(Other(e))
         /\ at'[e] # "comm" /\ at'[Other(e)] = "comm"
         /\ Woken(Other(e))' /\ ~Woken(e)' /\ ~Blocked(e)' /\ ~Blocked(Other(e))'
<1> DEFINE o == Other(e)
<1>1. o \in End /\ o # e /\ TypeOK
  BY DEF Other, End, Control
<1>2. at[e] = "ready"
  BY ReachesNew
<1>3. Blocked(o) /\ here' = [here EXCEPT ![o] = 0]
  BY <1>1, ReleaseEffect
<1>4. \/ at' = [at EXCEPT ![e] = "ready"]
      \/ at' = [at EXCEPT ![e] = "done"]
  BY DEF Proceed
<1> QED
  BY <1>1, <1>2, <1>3, <1>4 DEF Blocked, Woken, TypeOK

LEMMA BlockEnds ==
  ASSUME Control, NEW e \in End, Reaches(e), ~Waiting(Other(e)), Block(e)
  PROVE  /\ at[e] = "ready" /\ ~Woken(e) /\ ~Blocked(e) /\ ~Blocked(Other(e))
         /\ at'[e] = "comm" /\ at'[Other(e)] = at[Other(e)]
         /\ Blocked(e)' /\ ~Woken(e)'
         /\ Woken(Other(e))' <=> Woken(Other(e))
         /\ ~Blocked(Other(e))'
<1> DEFINE o == Other(e)
<1>1. o \in End /\ o # e /\ TypeOK /\ EndOK(o)
  BY DEF Other, End, Control
<1>2. at[e] = "ready" /\ at' = [at EXCEPT ![e] = "comm"]
  BY ReachesNew DEF Block
<1>3. Pc[e] + 1 # 0
  BY PcAssumption
<1>4. \/ /\ at[o] = "probe" /\ here' = [here EXCEPT ![o] = 0, ![e] = Pc[e] + 1]
      \/ /\ here[o] = 0 /\ here' = [here EXCEPT ![e] = Pc[e] + 1]
  BY <1>2, BlockEffect
<1> QED
  BY <1>1, <1>2, <1>3, <1>4 DEF Blocked, Woken, TypeOK

LEMMA WakeEnds ==
  ASSUME Control, NEW e \in End, wake[e] > 0, at[e] = "comm",
         here' = here \/ here' = [here EXCEPT ![e] = 0], Proceed(e, step)
  PROVE  /\ Woken(e) /\ ~Blocked(e) /\ ~Woken(Other(e))
         /\ at'[e] # "comm" /\ at'[Other(e)] = at[Other(e)]
         /\ ~Woken(e)' /\ ~Blocked(e)' /\ ~Woken(Other(e))'
         /\ Blocked(Other(e))' <=> Blocked(Other(e))
<1> DEFINE o == Other(e)
<1>1. o \in End /\ o # e /\ TypeOK /\ EndOK(e) /\ End = {e, o}
  BY DEF Other, End, Control
<1>2. here[e] = 0 /\ here' = here
  BY <1>1 DEF EndOK, TypeOK
<1>3. Woken(e) /\ ~Woken(o)
  BY <1>1, <1>2 DEF Control, Woken, End
<1>4. \/ at' = [at EXCEPT ![e] = "ready"]
      \/ at' = [at EXCEPT ![e] = "done"]
  BY DEF Proceed
<1> QED
  BY <1>1, <1>2, <1>3, <1>4 DEF Blocked, Woken, TypeOK

LEMMA HistoryTypes ==
  ASSUME Control
  PROVE  /\ sent \in Seq(Values) /\ xsent \in Seq(Values)
         /\ rcvd \in Seq(Values \cup {Dropped}) /\ xrcvd \in Seq(Values \cup {Dropped})
         /\ count \in Nat /\ Len(sent) \in Nat /\ Len(rcvd) \in Nat
         /\ Len(xsent) \in Nat /\ Len(xrcvd) \in Nat
<1>1. TypeOK
  BY DEF Control
<1> QED
  BY <1>1, LenProperties DEF TypeOK

(* What an action appends to the histories is read back from the slots.    *)
LEMMA SendMeetsData ==
  ASSUME Control, Forward, Backward, NEW v \in Values, SendMeets(v)
  PROVE  Forward' /\ Backward'
<1>1. "snd" \in End /\ "rcv" \in End /\ Other("snd") = "rcv"
  BY DEF End, Other
<1>2. TypeOK /\ ~skip_action
  BY DEF Control
<1>3. /\ at["snd"] = "ready" /\ Blocked("rcv")
      /\ ~Woken("snd") /\ ~Blocked("snd") /\ ~Woken("rcv")
      /\ at'["snd"] # "comm" /\ at'["rcv"] = "comm" /\ at["rcv"] = "comm"
      /\ Woken("rcv")' /\ ~Woken("snd")' /\ ~Blocked("snd")' /\ ~Blocked("rcv")'
  BY <1>1, MeetEnds DEF SendMeets, Blocked
<1>4. /\ sent' = Append(sent, v) /\ rcvd' = rcvd /\ count' = count + 1
      /\ data' = v /\ data2' = data2 /\ xsent' = xsent
      /\ xrcvd' = IF Bidir THEN Append(xrcvd, data2) ELSE xrcvd
  BY <1>2, <1>3 DEF SendMeets, Issues, HandOver, Completed
<1>5. count = Len(rcvd) /\ Len(sent) = count
  BY <1>3, HistoryTypes DEF Forward, One
<1>6. Forward'
  <2>1. Len(sent') = Len(sent) + 1 /\ sent'[Len(sent) + 1] = v
        /\ \A i \in 1 .. Len(sent) : sent'[i] = sent[i]
    BY <1>4, HistoryTypes, AppendProperties
  <2> QED
    BY <1>3, <1>4, <1>5, <2>1, HistoryTypes DEF Forward, One
<1>7. Backward'
  <2>1. CASE Bidir
    <3>1. Len(xrcvd') = Len(xrcvd) + 1 /\ xrcvd'[Len(xrcvd) + 1] = data2
          /\ \A i \in 1 .. Len(xrcvd) : xrcvd'[i] = xrcvd[i]
      <4>1. data2 \in Values \cup {Dropped}
        BY <1>2 DEF TypeOK
      <4> QED
        BY <1>4, <2>1, <4>1, HistoryTypes, AppendProperties
    <3>2. Len(xrcvd) = count /\ Len(xsent) = count + 1 /\ data2 = xsent[count + 1]
      BY <1>3, <1>5, <2>1, HistoryTypes DEF Backward, One
    <3>3. \A i \in 1 .. count + 1 : xrcvd'[i] = xsent[i]
      <4> SUFFICES ASSUME NEW i \in 1 .. count + 1 PROVE xrcvd'[i] = xsent[i]
        OBVIOUS
      <4>1. i \in 1 .. count \/ i = count + 1
        BY HistoryTypes
      <4> QED
        BY <2>1, <3>1, <3>2, <4>1 DEF Backward
    <3> QED
      BY <1>3, <1>4, <1>5, <2>1, <3>1, <3>2, <3>3, HistoryTypes DEF Backward, One
  <2>2. CASE ~Bidir
    BY <1>4, <2>2 DEF Backward
  <2> QED
    BY <2>1, <2>2
<1> QED
  BY <1>6, <1>7

LEMMA RecvMeetsData ==
  ASSUME Control, Forward, Backward, NEW x \in Values, RecvMeets(x)
  PROVE  Forward' /\ Backward'
<1>1. "snd" \in End /\ "rcv" \in End /\ Other("rcv") = "snd"
  BY DEF End, Other
<1>2. TypeOK /\ ~skip_action
  BY DEF Control
<1>3. /\ at["rcv"] = "ready" /\ Blocked("snd")
      /\ ~Woken("rcv") /\ ~Blocked("rcv") /\ ~Woken("snd")
      /\ at'["rcv"] # "comm" /\ at'["snd"] = "comm" /\ at["snd"] = "comm"
      /\ Woken("snd")' /\ ~Woken("rcv")' /\ ~Blocked("rcv")' /\ ~Blocked("snd")'
  BY <1>1, MeetEnds DEF RecvMeets, Blocked
<1>4. /\ rcvd' = Append(rcvd, data2) /\ sent' = sent /\ count' = count
      /\ xrcvd' = xrcvd /\ data2' = data2
      /\ Bidir => xsent' = Append(xsent, x) /\ data' = x
      /\ ~Bidir => xsent' = xsent
  BY <1>2, <1>3 DEF RecvMeets, Issues, HandOver, Completed
<1>5. count = Len(rcvd) /\ Len(sent) = count + 1 /\ data2 = sent[count + 1]
  BY <1>3, HistoryTypes DEF Forward, One
<1>6. Forward'
  <2>1. Len(rcvd') = Len(rcvd) + 1 /\ rcvd'[Len(rcvd) + 1] = data2
        /\ \A i \in 1 .. Len(rcvd) : rcvd'[i] = rcvd[i]
    <3>1. data2 \in Values \cup {Dropped}
      BY <1>2 DEF TypeOK
    <3> QED
      BY <1>4, <3>1, HistoryTypes, AppendProperties
  <2>2. \A i \in 1 .. count + 1 : rcvd'[i] = sent[i]
    <3> SUFFICES ASSUME NEW i \in 1 .. count + 1 PROVE rcvd'[i] = sent[i]
      OBVIOUS
    <3>1. i \in 1 .. count \/ i = count + 1
      BY HistoryTypes
    <3> QED
      BY <1>5, <2>1, <3>1 DEF Forward
  <2> QED
    BY <1>3, <1>4, <1>5, <2>1, <2>2, HistoryTypes DEF Forward, One
<1>7. Backward'
  <2>1. CASE Bidir
    <3>1. Len(xsent') = Len(xsent) + 1 /\ xsent'[Len(xsent) + 1] = x
          /\ \A i \in 1 .. Len(xsent) : xsent'[i] = xsent[i]
      <4>1. xsent' = Append(xsent, x)
        BY <1>4, <2>1
      <4> QED
        BY <4>1, HistoryTypes, AppendProperties
    <3>2. Len(xrcvd) = count /\ Len(xsent) = count
      BY <1>3, <1>5, <2>1, HistoryTypes DEF Backward, One
    <3>3. Len(rcvd') = count + 1
      BY <1>4, <1>5, <1>2, HistoryTypes, AppendProperties DEF TypeOK
    <3>4. \A i \in 1 .. Len(xrcvd) : xrcvd[i] = xsent'[i]
      BY <2>1, <3>1, <3>2 DEF Backward
    <3> QED
      BY <1>3, <1>4, <1>5, <2>1, <3>1, <3>2, <3>3, <3>4, HistoryTypes DEF Backward, One
  <2>2. CASE ~Bidir
    BY <1>4, <2>2 DEF Backward
  <2> QED
    BY <2>1, <2>2
<1> QED
  BY <1>6, <1>7

LEMMA SendBlocksData ==
  ASSUME Control, Forward, Backward, NEW v \in Values, SendBlocks(v)
  PROVE  Forward' /\ Backward'
<1>1. "snd" \in End /\ "rcv" \in End /\ Other("snd") = "rcv"
  BY DEF End, Other
<1>2. /\ at["snd"] = "ready" /\ ~Woken("snd") /\ ~Blocked("snd") /\ ~Blocked("rcv")
      /\ at'["snd"] = "comm" /\ at'["rcv"] = at["rcv"]
      /\ Blocked("snd")' /\ ~Woken("snd")'
      /\ Woken("rcv")' <=> Woken("rcv")
      /\ ~Blocked("rcv")'
  BY <1>1, BlockEnds DEF SendBlocks
<1>3. /\ sent' = Append(sent, v) /\ rcvd' = rcvd /\ count' = count
      /\ data' = data /\ data2' = v /\ xsent' = xsent /\ xrcvd' = xrcvd
  BY <1>2 DEF SendBlocks, Issues, Leave
<1>4. Len(sent') = Len(sent) + 1 /\ sent'[Len(sent) + 1] = v
      /\ \A i \in 1 .. Len(sent) : sent'[i] = sent[i]
  BY <1>3, HistoryTypes, AppendProperties
<1>5. Forward'
  <2>1. Len(sent) = count /\ Len(rcvd) <= count
    BY <1>2, HistoryTypes DEF Forward, One
  <2>2. Woken("rcv") => Len(rcvd) + 1 = count
    BY <1>2, HistoryTypes DEF Forward, One
  <2> QED
    BY <1>2, <1>3, <1>4, <2>1, <2>2, HistoryTypes DEF Forward, One
<1>6. Backward'
  BY <1>2, <1>3 DEF Backward, One
<1> QED
  BY <1>5, <1>6

LEMMA RecvBlocksData ==
  ASSUME Control, Forward, Backward, NEW x \in Values, RecvBlocks(x)
  PROVE  Forward' /\ Backward'
<1>1. "snd" \in End /\ "rcv" \in End /\ Other("rcv") = "snd"
  BY DEF End, Other
<1>2. /\ at["rcv"] = "ready" /\ ~Woken("rcv") /\ ~Blocked("rcv") /\ ~Blocked("snd")
      /\ at'["rcv"] = "comm" /\ at'["snd"] = at["snd"]
      /\ Blocked("rcv")' /\ ~Woken("rcv")'
      /\ Woken("snd")' <=> Woken("snd")
      /\ ~Blocked("snd")'
  BY <1>1, BlockEnds DEF RecvBlocks
<1>3. /\ sent' = sent /\ rcvd' = rcvd /\ count' = count /\ xrcvd' = xrcvd
      /\ data' = data
      /\ Bidir => xsent' = Append(xsent, x) /\ data2' = x
      /\ ~Bidir => xsent' = xsent
  BY <1>2 DEF RecvBlocks, Issues, Leave
<1>4. Forward'
  BY <1>2, <1>3 DEF Forward, One
<1>5. Backward'
  <2>1. CASE Bidir
    <3>1. Len(xsent') = Len(xsent) + 1 /\ xsent'[Len(xsent) + 1] = x
          /\ \A i \in 1 .. Len(xsent) : xsent'[i] = xsent[i]
      <4>1. xsent' = Append(xsent, x)
        BY <1>3, <2>1
      <4> QED
        BY <4>1, HistoryTypes, AppendProperties
    <3>2. Len(xsent) = Len(rcvd) /\ Len(xrcvd) = count /\ count <= Len(rcvd)
          /\ (Woken("snd") => count + 1 = Len(rcvd))
      BY <1>2, <2>1, HistoryTypes DEF Forward, Backward, One
    <3>3. \A i \in 1 .. Len(xrcvd) : xrcvd[i] = xsent'[i]
      BY <2>1, <3>1, <3>2, HistoryTypes DEF Backward
    <3>4. Woken("snd") => data' = xsent'[count + 1]
      BY <1>3, <2>1, <3>1, <3>2, HistoryTypes DEF Backward
    <3> QED
      BY <1>2, <1>3, <2>1, <3>1, <3>2, <3>3, <3>4 DEF Backward, One
  <2>2. CASE ~Bidir
    BY <1>3, <2>2 DEF Backward
  <2> QED
    BY <2>1, <2>2
<1> QED
  BY <1>4, <1>5

LEMMA SendWakesData ==
  ASSUME Control, Forward, Backward, SendWakes
  PROVE  Forward' /\ Backward'
<1>1. "snd" \in End /\ "rcv" \in End /\ Other("snd") = "rcv"
  BY DEF End, Other
<1>2. /\ Woken("snd") /\ ~Blocked("snd") /\ ~Woken("rcv") /\ at["snd"] = "comm"
      /\ at'["snd"] # "comm" /\ at'["rcv"] = at["rcv"]
      /\ ~Woken("snd")' /\ ~Blocked("snd")' /\ ~Woken("rcv")'
      /\ Blocked("rcv")' <=> Blocked("rcv")
  BY <1>1, WakeEnds DEF SendWakes
<1>3. TypeOK /\ ~skip_action
  BY DEF Control
<1>4. /\ sent' = sent /\ rcvd' = rcvd /\ count' = count + 1 /\ xsent' = xsent
      /\ data' = data /\ data2' = data2
      /\ xrcvd' = IF Bidir THEN Append(xrcvd, data) ELSE xrcvd
  BY <1>3 DEF SendWakes, Completed
<1>5. Len(rcvd) = count + 1
  BY <1>2, HistoryTypes DEF Forward, One
<1>6. Forward'
  BY <1>2, <1>4, <1>5, HistoryTypes DEF Forward, One
<1>7. Backward'
  <2>1. CASE Bidir
    <3>1. Len(xrcvd') = Len(xrcvd) + 1 /\ xrcvd'[Len(xrcvd) + 1] = data
          /\ \A i \in 1 .. Len(xrcvd) : xrcvd'[i] = xrcvd[i]
      <4>1. data \in Values \cup {Dropped}
        BY <1>3 DEF TypeOK
      <4> QED
        BY <1>4, <2>1, <4>1, HistoryTypes, AppendProperties
    <3>2. Len(xrcvd) = count /\ data = xsent[count + 1]
      BY <1>2, <2>1 DEF Backward
    <3>3. \A i \in 1 .. count + 1 : xrcvd'[i] = xsent[i]
      <4> SUFFICES ASSUME NEW i \in 1 .. count + 1 PROVE xrcvd'[i] = xsent[i]
        OBVIOUS
      <4>1. i \in 1 .. count \/ i = count + 1
        BY HistoryTypes
      <4> QED
        BY <2>1, <3>1, <3>2, <4>1 DEF Backward
    <3> QED
      BY <1>2, <1>4, <2>1, <3>1, <3>2, <3>3 DEF Backward, One
  <2>2. CASE ~Bidir
    BY <1>4, <2>2 DEF Backward
  <2> QED
    BY <2>1, <2>2
<1> QED
  BY <1>6, <1>7

LEMMA RecvWakesData ==
  ASSUME Control, Forward, Backward, RecvWakes
  PROVE  Forward' /\ Backward'
<1>1. "snd" \in End /\ "rcv" \in End /\ Other("rcv") = "snd"
  BY DEF End, Other
<1>2. /\ Woken("rcv") /\ ~Blocked("rcv") /\ ~Woken("snd") /\ at["rcv"] = "comm"
      /\ at'["rcv"] # "comm" /\ at'["snd"] = at["snd"]
      /\ ~Woken("rcv")' /\ ~Blocked("rcv")' /\ ~Woken("snd")'
      /\ Blocked("snd")' <=> Blocked("snd")
  BY <1>1, WakeEnds DEF RecvWakes
<1>3. TypeOK /\ ~skip_action
  BY DEF Control
<1>4. /\ sent' = sent /\ rcvd' = Append(rcvd, data) /\ count' = count
      /\ data' = data /\ data2' = data2 /\ xsent' = xsent /\ xrcvd' = xrcvd
  BY <1>3 DEF RecvWakes, Completed
<1>5. Len(rcvd) + 1 = count /\ data = sent[count]
  BY <1>2, HistoryTypes DEF Forward, One
<1>6. Len(rcvd') = Len(rcvd) + 1 /\ rcvd'[Len(rcvd) + 1] = data
      /\ \A i \in 1 .. Len(rcvd) : rcvd'[i] = rcvd[i]
  <2>1. data \in Values \cup {Dropped}
    BY <1>3 DEF TypeOK
  <2> QED
    BY <1>4, <2>1, HistoryTypes, AppendProperties
<1>7. Forward'
  <2>1. \A i \in 1 .. Len(rcvd) + 1 : rcvd'[i] = sent[i]
    <3> SUFFICES ASSUME NEW i \in 1 .. Len(rcvd) + 1 PROVE rcvd'[i] = sent[i]
      OBVIOUS
    <3>1. i \in 1 .. Len(rcvd) \/ i = Len(rcvd) + 1
      BY HistoryTypes
    <3> QED
      BY <1>5, <1>6, <3>1 DEF Forward
  <2> QED
    BY <1>2, <1>4, <1>5, <1>6, <2>1, HistoryTypes DEF Forward, One
<1>8. Backward'
  BY <1>2, <1>4, <1>6, HistoryTypes DEF Backward, One
<1> QED
  BY <1>7, <1>8

LEMMA SameData ==
  ASSUME Forward, Backward,
         UNCHANGED <<data, data2, count, sent, rcvd, xsent, xrcvd>>,
         \A e \in End : /\ (at'[e] = "comm") <=> (at[e] = "comm")
                        /\ Blocked(e)' <=> Blocked(e)
                        /\ Woken(e)' <=> Woken(e)
  PROVE  Forward' /\ Backward'
<1>1. "snd" \in End /\ "rcv" \in End
  BY DEF End
<1> QED
  BY <1>1 DEF Forward, Backward, One

LEMMA SelectData ==
  ASSUME Control, Forward, Backward, NEW e \in End, Select(e)
  PROVE  Forward' /\ Backward'
<1>1. PICK undo \in BOOLEAN, s \in [End -> Nat] :
           /\ SelectPasses(e, undo, s) \/ SelectBlocks(e, undo, s)
           /\ e \in Probers /\ ~resetMode
           /\ s = [step EXCEPT ![e] = 0]
           /\ wake' = [wake EXCEPT ![e] = 0]
           /\ here[e] = 0 /\ ~probing[e]
           /\ \/ ~undo /\ at[e] = "ready"
              \/ undo /\ at[e] = "probe"
  BY SelectCases
<1>2. TypeOK
  BY DEF Control
<1>3. at[e] # "comm" /\ at'[e] # "comm"
      /\ \A f \in End : f # e => at'[f] = at[f] /\ here'[f] = here[f]
  <2>1. CASE SelectPasses(e, undo, s)
    BY <1>1, <1>2, <2>1 DEF SelectPasses, Undone, Proceed, TypeOK
  <2>2. CASE SelectBlocks(e, undo, s)
    BY <1>1, <1>2, <2>2 DEF SelectBlocks, TypeOK
  <2> QED
    BY <1>1, <2>1, <2>2
<1>4. UNCHANGED <<data, data2, count, sent, rcvd, xsent, xrcvd>>
  BY DEF Select
<1>5. \A f \in End : /\ (at'[f] = "comm") <=> (at[f] = "comm")
                     /\ Blocked(f)' <=> Blocked(f)
                     /\ Woken(f)' <=> Woken(f)
  BY <1>3 DEF Blocked, Woken
<1> QED
  BY <1>4, <1>5, SameData

LEMMA IInvInit ==
  ASSUME Init
  PROVE  IInv
<1>1. Control
  BY InitControl
<1>2. at["snd"] = "ready" /\ at["rcv"] = "ready"
  BY DEF Init, End
<1>3. Len(sent) = 0 /\ Len(rcvd) = 0 /\ Len(xsent) = 0 /\ Len(xrcvd) = 0
  BY DEF Init
<1> QED
  BY <1>1, <1>2, <1>3 DEF IInv, Forward, Backward, Blocked, Woken, One, Init

LEMMA IInvStep ==
  ASSUME IInv, [Next]_vars
  PROVE  IInv'
<1>1. Control /\ Forward /\ Backward /\ Control'
  BY ControlStep DEF IInv
<1>2. CASE Send
  BY <1>1, <1>2, SendMeetsData, SendBlocksData DEF Send, IInv
<1>3. CASE SendWakes
  BY <1>1, <1>3, SendWakesData DEF IInv
<1>4. CASE Recv
  BY <1>1, <1>4, RecvMeetsData, RecvBlocksData DEF Recv, IInv
<1>5. CASE RecvWakes
  BY <1>1, <1>5, RecvWakesData DEF IInv
<1>6. ASSUME NEW e \in End, Select(e) PROVE IInv'
  BY <1>1, <1>6, SelectData DEF IInv
<1>7. ASSUME UNCHANGED <<chan, at, hist>> PROVE IInv'
  <2>1. \A e \in End : /\ (at'[e] = "comm") <=> (at[e] = "comm")
                       /\ Blocked(e)' <=> Blocked(e)
                       /\ Woken(e)' <=> Woken(e)
    BY <1>7 DEF Blocked, Woken, chan
  <2> QED
    BY <1>1, <1>7, <2>1, SameData DEF IInv, chan, hist
<1>8. ASSUME NEW e \in End, Postpone(e) PROVE IInv'
  BY <1>7, <1>8 DEF Postpone
<1>9. CASE EndReset
  BY <1>7, <1>9 DEF EndReset
<1>10. CASE UNCHANGED vars
  BY <1>7, <1>10 DEF vars
<1> QED
  BY <1>2, <1>3, <1>4, <1>5, <1>6, <1>8, <1>9, <1>10 DEF Next

(* IInv holds in every state the simulation reaches. *)
THEOREM Invariance == Spec => []IInv
<1>1. Init => IInv
  BY IInvInit
<1>2. IInv /\ [Next]_vars => IInv'
  BY IInvStep
<1> QED
  BY <1>1, <1>2, PTL DEF Spec

-----------------------------------------------------------------------------
(* Every variable stays in its set: in particular pending events are       *)
(* counted by naturals, and only sent values and Dropped are received.     *)
THEOREM TypeCorrect == Spec => []TypeOK
<1>1. IInv => TypeOK
  BY DEF IInv, Control
<1> QED
  BY <1>1, Invariance, PTL

(* Values arrive in the order sent, in both directions: the two slots are  *)
(* never overwritten between a meeting and the wake-up that reads them.    *)
THEOREM ValuesInOrder == Spec => []Fifo
<1>1. IInv => Fifo
  <2> SUFFICES ASSUME IInv PROVE Fifo
    OBVIOUS
  <2>1. Control /\ Forward /\ Backward
    BY DEF IInv
  <2>2. IsPrefixOf(rcvd, sent)
    BY <2>1, HistoryTypes DEF Forward, One, IsPrefixOf, Woken
  <2>3. IsPrefixOf(xrcvd, xsent)
    <3>1. CASE Bidir
      BY <2>1, <3>1, HistoryTypes DEF Forward, Backward, One, IsPrefixOf, Woken
    <3>2. CASE ~Bidir
      BY <2>1, <3>2 DEF Backward, IsPrefixOf
    <3> QED
      BY <3>1, <3>2
  <2> QED
    BY <2>2, <2>3 DEF Fifo
<1> QED
  BY <1>1, Invariance, PTL

(* A completed action had a partner that was issued, and count is the      *)
(* number of sends completed.                                              *)
THEOREM NoSlack == Spec => []SlackZero
<1>1. IInv => SlackZero
  <2> SUFFICES ASSUME IInv PROVE SlackZero
    OBVIOUS
  <2>1. Control /\ Forward
    BY DEF IInv
  <2> QED
    BY <2>1, HistoryTypes DEF Forward, One, SlackZero, Requests, Woken
<1> QED
  BY <1>1, Invariance, PTL

(* The assertions and fatal errors of the channel operations are           *)
(* unreachable for two processes and one probing end, without console      *)
(* commands.                                                               *)
THEOREM NeverFails == Spec => []NoFailure
<1>1. IInv => NoFailure
  BY DEF IInv, Control, NoFailure
<1> QED
  BY <1>1, Invariance, PTL

(* Every process that is not done has one event pending or is registered   *)
(* and notifiable: no wake-up is lost or duplicated.                       *)
THEOREM NoLostWakeup == Spec => []WakeOnce
<1>1. IInv => WakeOnce
  <2> SUFFICES ASSUME IInv, NEW e \in End
               PROVE  WakeOnce!(e)
    BY DEF WakeOnce
  <2>1. EndOK(e) /\ TypeOK
    BY DEF IInv, Control
  <2>2. Blocked(e) => Proc[e] \in w
    BY DEF IInv, Control
  <2>3. probing[e] => Proc[e] \in probe_w
    BY DEF IInv, Control
  <2> QED
    BY <2>1, <2>2, <2>3, PcAssumption DEF EndOK, Blocked
<1> QED
  BY <1>1, Invariance, PTL

(* A probe that was seen true stays true until the process that saw it     *)
(* communicates.                                                           *)
THEOREM ProbeStaysTrue == Spec => []ProbeHonest
<1>1. IInv => ProbeHonest
  <2> SUFFICES ASSUME IInv, NEW e \in probed PROVE Waiting(Other(e))
    BY DEF ProbeHonest
  <2>1. Blocked(Other(e)) /\ Other(e) \in End
    BY DEF IInv, Control, Other, End
  <2>2. ~probing[Other(e)]
    BY <2>1 DEF IInv, Control, EndOK, Blocked
  <2> QED
    BY <2>1, <2>2 DEF Waiting, Blocked
<1> QED
  BY <1>1, Invariance, PTL

-----------------------------------------------------------------------------
(* Refinement: every step of the simulator is a step of the handshake or   *)
(* changes nothing that the handshake speaks of.                           *)
LEMMA HandshakeStep ==
  ASSUME IInv, [Next]_vars
  PROVE  [Abstract!Next]_(Abstract!vars)
<1> USE DEF Abstract!vars
<1>1. Control /\ Forward /\ TypeOK
  BY DEF IInv, Control
<1>2. "snd" \in End /\ "rcv" \in End /\ Other("snd") = "rcv" /\ Other("rcv") = "snd"
  BY DEF End, Other
<1>3. ~skip_action
  BY <1>1 DEF Control
<1>4. ASSUME NEW v \in Values, SendMeets(v) PROVE Abstract!Offer(v)
  <2>1. /\ at["snd"] = "ready" /\ Blocked("rcv") /\ ~Woken("snd") /\ ~Woken("rcv")
        /\ at["rcv"] = "comm" /\ at'["rcv"] = "comm"
    BY <1>1, <1>2, <1>4, MeetEnds DEF SendMeets, Blocked
  <2>2. count = Len(rcvd) /\ Len(sent) = count
    BY <1>1, <2>1, HistoryTypes DEF Forward, One
  <2>3. sent' = Append(sent, v) /\ rcvd' = rcvd /\ count' = count + 1
        /\ Len(sent) < MaxComms
    BY <1>4, <2>1 DEF SendMeets, Issues, Budget
  <2> QED
    BY <1>1, <2>1, <2>2, <2>3, HistoryTypes DEF Abstract!Offer, Requests
<1>5. ASSUME NEW v \in Values, SendBlocks(v) PROVE Abstract!Offer(v)
  <2>1. /\ at["snd"] = "ready" /\ ~Woken("snd") /\ at'["rcv"] = at["rcv"]
    BY <1>1, <1>2, <1>5, BlockEnds DEF SendBlocks
  <2>2. Len(sent) = count
    BY <1>1, <2>1, HistoryTypes DEF Forward, One
  <2>3. sent' = Append(sent, v) /\ rcvd' = rcvd /\ count' = count
        /\ Len(sent) < MaxComms
    BY <1>5, <2>1 DEF SendBlocks, Issues, Budget
  <2> QED
    BY <2>1, <2>2, <2>3 DEF Abstract!Offer, Requests
<1>6. ASSUME SendWakes PROVE Abstract!CompleteSend
  <2>1. /\ Woken("snd") /\ ~Woken("rcv") /\ at["snd"] = "comm"
        /\ at'["rcv"] = at["rcv"]
    BY <1>1, <1>2, <1>6, WakeEnds DEF SendWakes
  <2>2. Len(rcvd) = count + 1 /\ Len(sent) = count + 1
    BY <1>1, <2>1, HistoryTypes DEF Forward, One
  <2> QED
    BY <1>1, <1>6, <2>1, <2>2, HistoryTypes DEF Abstract!CompleteSend, Requests, SendWakes
<1>7. ASSUME NEW x \in Values, RecvMeets(x) PROVE Abstract!Request
  <2>1. /\ at["rcv"] = "ready" /\ Blocked("snd") /\ ~Woken("snd") /\ ~Woken("rcv")
        /\ at["snd"] = "comm" /\ at'["rcv"] # "comm"
    BY <1>1, <1>2, <1>7, MeetEnds DEF RecvMeets, Blocked
  <2>2. count = Len(rcvd) /\ Len(sent) = count + 1 /\ data2 = sent[count + 1]
    BY <1>1, <2>1, HistoryTypes DEF Forward, One
  <2>3. rcvd' = Append(rcvd, data2) /\ sent' = sent /\ count' = count
        /\ Len(rcvd) < MaxComms
    BY <1>3, <1>7, <2>1 DEF RecvMeets, Completed, Budget
  <2>4. Len(rcvd') = Len(rcvd) + 1
    BY <1>1, <2>3, HistoryTypes, AppendProperties DEF TypeOK
  <2>5. Requests' = Len(rcvd) + 1 /\ Requests = Len(rcvd)
    BY <1>1, <2>1, <2>4, HistoryTypes DEF Requests
  <2> QED
    BY <1>1, <2>2, <2>3, <2>5, HistoryTypes DEF Abstract!Request
<1>8. ASSUME NEW x \in Values, RecvBlocks(x) PROVE Abstract!Request
  <2>1. at["rcv"] = "ready" /\ at'["rcv"] = "comm"
    BY <1>1, <1>2, <1>8, BlockEnds DEF RecvBlocks
  <2>2. rcvd' = rcvd /\ sent' = sent /\ count' = count /\ Len(rcvd) < MaxComms
    BY <1>8, <2>1 DEF RecvBlocks, Budget
  <2> QED
    BY <1>1, <2>1, <2>2, HistoryTypes DEF Abstract!Request, Requests
<1>9. ASSUME RecvWakes PROVE Abstract!CompleteReceive
  <2>1. Woken("rcv") /\ ~Woken("snd") /\ at["rcv"] = "comm" /\ at'["rcv"] # "comm"
    BY <1>1, <1>2, <1>9, WakeEnds DEF RecvWakes
  <2>2. Len(rcvd) + 1 = count /\ count <= Len(sent) /\ data = sent[Len(rcvd) + 1]
    BY <1>1, <2>1, HistoryTypes DEF Forward, One
  <2>3. rcvd' = Append(rcvd, data) /\ sent' = sent /\ count' = count
    BY <1>3, <1>9 DEF RecvWakes, Completed
  <2>4. Len(rcvd') = Len(rcvd) + 1
    <3>1. data \in Values \cup {Dropped}
      BY <1>1 DEF TypeOK
    <3> QED
      BY <1>1, <2>3, <3>1, HistoryTypes, AppendProperties
  <2> QED
    BY <1>1, <2>1, <2>2, <2>3, <2>4, HistoryTypes DEF Abstract!CompleteReceive, Requests
<1>10. ASSUME NEW e \in End, Select(e) PROVE UNCHANGED Abstract!vars
  <2>1. at'["rcv"] = "comm" <=> at["rcv"] = "comm"
    <3>1. PICK undo \in BOOLEAN, s \in [End -> Nat] :
            SelectPasses(e, undo, s) \/ SelectBlocks(e, undo, s)
      BY <1>1, <1>10, SelectCases
    <3>2. at[e] # "comm"
      BY <1>10 DEF Select
    <3> QED
      BY <1>1, <1>2, <3>1, <3>2 DEF SelectPasses, SelectBlocks, Proceed, TypeOK
  <2> QED
    BY <1>10, <2>1 DEF Select, Requests
<1>11. ASSUME UNCHANGED <<chan, at, hist>> PROVE UNCHANGED Abstract!vars
  BY <1>11 DEF chan, hist, Requests
<1>12. ASSUME NEW e \in End, Postpone(e) PROVE UNCHANGED Abstract!vars
  BY <1>11, <1>12 DEF Postpone
<1>13. CASE EndReset
  BY <1>11, <1>13 DEF EndReset
<1>14. CASE UNCHANGED vars
  BY <1>11, <1>14 DEF vars
<1> QED
  BY <1>4, <1>5, <1>6, <1>7, <1>8, <1>9, <1>10, <1>12, <1>13, <1>14
     DEF Next, Send, Recv, Abstract!Next

(* The simulator's channel implements the slack-zero handshake, as far as  *)
(* safety goes: its initial states and every one of its steps.             *)
THEOREM RefinesRendezvous == Spec => Abstract!Init /\ [][Abstract!Next]_(Abstract!vars)
<1>1. Init => Abstract!Init
  BY DEF Init, Abstract!Init, Requests, End
<1>2. IInv /\ [Next]_vars => [Abstract!Next]_(Abstract!vars)
  BY HandshakeStep
<1> QED
  BY <1>1, <1>2, Invariance, PTL DEF Spec
-----------------------------------------------------------------------------
(* With a user at the console.  skip-comm wakes an end up without its      *)
(* partner, and a wake-up postponed in reset mode comes back as a plain    *)
(* event, so that a blocked statement is executed from its start.  An end  *)
(* that is blocked but not registered has one event, of either kind.       *)
Registration(e) ==
  /\ at[e] = "ready" => step[e] = 1 /\ wake[e] = 0 /\ here[e] = 0 /\ ~probing[e]
  /\ at[e] = "done" => step[e] = 0 /\ wake[e] = 0 /\ here[e] = 0 /\ ~probing[e]
  /\ at[e] \in {"comm", "probe"} =>
       \/ step[e] + wake[e] = 1 /\ here[e] = 0 /\ ~probing[e]
       \/ /\ step[e] = 0 /\ wake[e] = 0 /\ here[e] = Pc[e] + 1
          /\ probing[e] = (at[e] = "probe")
  /\ at[e] = "probe" => e \in Probers

(* Control without what the console can break: skip_action, the phase, and *)
(* that c->probe is set only while an end waits in a selection.  A user    *)
(* can reach a fatal_error, so ~failed is not part of it either.           *)
ConsoleInv ==
  /\ here \in [End -> Nat] /\ probing \in [End -> BOOLEAN]
  /\ step \in [End -> Nat] /\ wake \in [End -> Nat]
  /\ at \in [End -> {"ready", "comm", "probe", "done"}]
  /\ \A e \in End : Registration(e)
  /\ NotBothBlocked
  /\ w = {Proc[e] : e \in {f \in End : Blocked(f)}}
  /\ probe_w = {Proc[e] : e \in {f \in End : probing[f]}}

(* In these states, too, a notification reaches the one end it is for.     *)
LEMMA ConsoleNotified ==
  ASSUME ConsoleInv, NEW e \in End
  PROVE  Notified({Proc[e]}, Pc[e]) = [wake EXCEPT ![e] = @ + 1]
<1>1. \A f \in End : (Proc[f] \in {Proc[e]} /\ Pc[f] = Pc[e]) <=> f = e
  BY ProcAssumption DEF End
<1>2. \A f \in End : wake[f] + 0 = wake[f]
  BY DEF ConsoleInv
<1> QED
  BY <1>1, <1>2 DEF Notified, ConsoleInv

LEMMA ConsoleRelease ==
  ASSUME ConsoleInv, NEW e \in End, Waiting(e), Release(e)
  PROVE  /\ at[e] = "comm" /\ step[e] = 0 /\ wake[e] = 0 /\ ~probing[e]
         /\ here[Other(e)] = 0
         /\ wake' = [wake EXCEPT ![e] = 1]
         /\ here' = [here EXCEPT ![e] = 0]
         /\ w' = {}
<1>1. Registration(e) /\ NotBothBlocked
  BY DEF ConsoleInv
<1>2. at[e] = "comm" /\ step[e] = 0 /\ wake[e] = 0 /\ here[e] = Pc[e] + 1 /\ ~probing[e]
  BY <1>1 DEF Registration, Waiting, ConsoleInv
<1>3. here[e] - 1 = Pc[e]
  BY <1>2, PcAssumption
<1>4. here[Other(e)] = 0
  BY <1>1 DEF Waiting, NotBothBlocked, End, Other
<1>5. w = {Proc[e]}
  <2>1. \A f \in End : Blocked(f) <=> f = e
    BY <1>2, <1>4 DEF Blocked, End, Waiting, Other
  <2> QED
    BY <2>1 DEF ConsoleInv
<1>6. wake' = [wake EXCEPT ![e] = 1]
  <2>1. wake' = [wake EXCEPT ![e] = @ + 1]
    BY <1>3, <1>5, ConsoleNotified DEF Release
  <2> QED
    BY <1>2, <2>1
<1> QED
  BY <1>2, <1>4, <1>6 DEF Release

(* Two ends, one of which goes on: what a step has to establish. *)
LEMMA ConsoleEnds ==
  ASSUME NEW e \in End, Registration(e)', Registration(Other(e))',
         here' \in [End -> Nat], probing' \in [End -> BOOLEAN],
         step' \in [End -> Nat], wake' \in [End -> Nat],
         at' \in [End -> {"ready", "comm", "probe", "done"}],
         NotBothBlocked',
         w' = {Proc[f] : f \in {g \in End : Blocked(g)'}},
         probe_w' = {Proc[f] : f \in {g \in End : probing'[g]}}
  PROVE  ConsoleInv'
<1>1. End = {e, Other(e)}
  BY DEF End, Other
<1> QED
  BY <1>1 DEF ConsoleInv

LEMMA ProceedEnd ==
  ASSUME NEW e \in End, at \in [End -> {"ready", "comm", "probe", "done"}],
         NEW q \in [End -> Nat], q[e] = 0, Proceed(e, q)
  PROVE  /\ at' \in [End -> {"ready", "comm", "probe", "done"}]
         /\ step' \in [End -> Nat]
         /\ \/ at'[e] = "ready" /\ step'[e] = 1
            \/ at'[e] = "done" /\ step'[e] = 0
         /\ \A f \in End : f # e => at'[f] = at[f] /\ step'[f] = q[f]
BY DEF Proceed

(* The later of the two ends arrives, for the first time or again. *)
LEMMA ConsoleMeet ==
  ASSUME ConsoleInv, NEW e \in End, Reaches(e), Waiting(Other(e)),
         Release(Other(e)), Proceed(e, Deliver(step, e)),
         UNCHANGED <<probing, probe_w>>
  PROVE  ConsoleInv'
<1> DEFINE o == Other(e)
<1>1. o \in End /\ o # e /\ End = {e, o} /\ Other(o) = e
  BY DEF Other, End
<1>2. Registration(e) /\ Registration(o)
  BY <1>1 DEF ConsoleInv
<1>3. step[e] = 1 /\ wake[e] = 0 /\ here[e] = 0 /\ ~probing[e]
  BY <1>2 DEF Registration, Reaches, ConsoleInv
<1>4. /\ at[o] = "comm" /\ step[o] = 0 /\ ~probing[o]
      /\ wake' = [wake EXCEPT ![o] = 1] /\ here' = [here EXCEPT ![o] = 0] /\ w' = {}
  BY <1>1, ConsoleRelease
<1>5. Deliver(step, e) = [step EXCEPT ![e] = 0]
  BY <1>3 DEF Deliver, ConsoleInv
<1>6. /\ at' \in [End -> {"ready", "comm", "probe", "done"}]
      /\ step' \in [End -> Nat]
      /\ \/ at'[e] = "ready" /\ step'[e] = 1
         \/ at'[e] = "done" /\ step'[e] = 0
      /\ at'[o] = at[o] /\ step'[o] = step[o]
  <2>1. Deliver(step, e) \in [End -> Nat] /\ Deliver(step, e)[e] = 0
        /\ Deliver(step, e)[o] = step[o]
    BY <1>1, <1>5 DEF ConsoleInv
  <2> QED
    BY <1>1, <2>1, ProceedEnd DEF ConsoleInv
<1>7. /\ here' \in [End -> Nat] /\ wake' \in [End -> Nat] /\ probing' \in [End -> BOOLEAN]
      /\ here'[e] = 0 /\ here'[o] = 0 /\ wake'[e] = 0 /\ wake'[o] = 1
      /\ ~probing'[e] /\ ~probing'[o]
  BY <1>1, <1>3, <1>4 DEF ConsoleInv
<1>8. Registration(e)' /\ Registration(o)'
  BY <1>4, <1>6, <1>7 DEF Registration
<1>9. w' = {Proc[f] : f \in {g \in End : Blocked(g)'}} /\ NotBothBlocked'
  <2>1. \A f \in End : here'[f] = 0 /\ ~Blocked(f)'
    BY <1>1, <1>7 DEF Blocked
  <2> QED
    BY <1>4, <2>1 DEF NotBothBlocked, End
<1>10. probe_w' = {Proc[f] : f \in {g \in End : probing'[g]}}
  BY DEF ConsoleInv
<1> QED
  BY <1>6, <1>7, <1>8, <1>9, <1>10, ConsoleEnds

(* The earlier of the two ends arrives, for the first time or again. *)
LEMMA ConsoleBlock ==
  ASSUME ConsoleInv, NEW e \in End, Reaches(e), ~Waiting(Other(e)), Block(e)
  PROVE  ConsoleInv'
<1> DEFINE o == Other(e)
<1>1. o \in End /\ o # e /\ End = {e, o} /\ Other(o) = e
  BY DEF Other, End
<1>2. Registration(e) /\ Registration(o) /\ Pc[e] \in Nat /\ Pc[o] \in Nat
  BY <1>1, PcAssumption DEF ConsoleInv
<1>3. step[e] = 1 /\ wake[e] = 0 /\ here[e] = 0 /\ ~probing[e]
  BY <1>2 DEF Registration, Reaches, ConsoleInv
<1>4. /\ at' = [at EXCEPT ![e] = "comm"] /\ step' = [step EXCEPT ![e] = 0]
  BY <1>3 DEF Block, Deliver, ConsoleInv
<1>5. w' = {Proc[e]}
  <2>1. \A f \in End : ~Blocked(f)
    BY <1>1, <1>2, <1>3 DEF Registration, Blocked, Waiting
  <2>2. w = {}
    BY <2>1 DEF ConsoleInv
  <2> QED
    BY <2>2 DEF Block
<1>6. /\ here'[e] = Pc[e] + 1 /\ here'[o] = 0 /\ ~probing'[e] /\ ~probing'[o]
      /\ here' \in [End -> Nat] /\ probing' \in [End -> BOOLEAN]
      /\ wake' \in [End -> Nat]
      /\ probe_w' = {} /\ wake'[e] = 0 /\ Registration(o)'
  <2>1. CASE WaitingProbe(o)
    <3>1. at[o] = "probe" /\ step[o] = 0 /\ wake[o] = 0 /\ here[o] - 1 = Pc[o]
      <4>1. at[o] \in {"ready", "comm", "probe", "done"} /\ probing[o]
        BY <1>1, <2>1 DEF WaitingProbe, ConsoleInv
      <4>2. at[o] = "probe" /\ step[o] = 0 /\ wake[o] = 0 /\ here[o] = Pc[o] + 1
        BY <1>2, <4>1 DEF Registration
      <4> QED
        BY <1>2, <4>2
    <3>2. probe_w = {Proc[o]}
      <4>1. \A f \in End : probing[f] <=> f = o
        BY <1>1, <1>3, <2>1 DEF WaitingProbe
      <4> QED
        BY <1>1, <4>1 DEF ConsoleInv
    <3>3. wake' = [wake EXCEPT ![o] = 1]
      <4>1. wake' = [wake EXCEPT ![o] = @ + 1]
        BY <1>1, <2>1, <3>1, <3>2, ConsoleNotified DEF Block
      <4> QED
        BY <3>1, <4>1
    <3>4. probe_w' = {} /\ probing' = [probing EXCEPT ![o] = FALSE]
          /\ here' = [here EXCEPT ![o] = 0, ![e] = Pc[e] + 1]
      BY <2>1 DEF Block
    <3>5. /\ here'[e] = Pc[e] + 1 /\ here'[o] = 0 /\ ~probing'[e] /\ ~probing'[o]
          /\ here' \in [End -> Nat] /\ probing' \in [End -> BOOLEAN]
          /\ wake' \in [End -> Nat] /\ wake'[e] = 0 /\ wake'[o] = 1
          /\ at'[o] = "probe" /\ step'[o] = 0
      BY <1>1, <1>2, <1>3, <1>4, <3>1, <3>3, <3>4 DEF ConsoleInv
    <3>6. Registration(o)'
      BY <1>2, <3>1, <3>5 DEF Registration
    <3> QED
      BY <3>4, <3>5, <3>6
  <2>2. CASE ~WaitingProbe(o)
    <3>1. here[o] = 0
      BY <2>2 DEF Waiting, WaitingProbe
    <3>2. ~probing[o]
      BY <1>1, <1>2, <3>1 DEF Registration, ConsoleInv
    <3>3. here' = [here EXCEPT ![e] = Pc[e] + 1] /\ UNCHANGED <<wake, probe_w, probing>>
      BY <2>2 DEF Block
    <3>4. probe_w' = {}
      BY <1>1, <1>3, <3>2, <3>3 DEF ConsoleInv
    <3>5. /\ here'[e] = Pc[e] + 1 /\ here'[o] = 0 /\ ~probing'[e] /\ ~probing'[o]
          /\ here' \in [End -> Nat] /\ probing' \in [End -> BOOLEAN]
          /\ wake' \in [End -> Nat] /\ wake'[e] = 0
          /\ at'[o] = at[o] /\ step'[o] = step[o] /\ wake'[o] = wake[o]
      BY <1>1, <1>2, <1>3, <1>4, <3>1, <3>2, <3>3 DEF ConsoleInv
    <3>6. Registration(o)'
      BY <1>2, <3>1, <3>2, <3>5 DEF Registration
    <3> QED
      BY <3>4, <3>5, <3>6
  <2> QED
    BY <2>1, <2>2
<1>7. /\ at'[e] = "comm" /\ step'[e] = 0
      /\ at' \in [End -> {"ready", "comm", "probe", "done"}] /\ step' \in [End -> Nat]
  BY <1>4 DEF ConsoleInv
<1>8. Registration(e)'
  BY <1>6, <1>7 DEF Registration
<1>9. NotBothBlocked' /\ w' = {Proc[f] : f \in {g \in End : Blocked(g)'}}
  <2>1. \A f \in End : Blocked(f)' <=> f = e
    BY <1>1, <1>2, <1>6, <1>7 DEF Blocked
  <2> QED
    BY <1>1, <1>5, <1>6, <2>1 DEF NotBothBlocked, End
<1>10. probe_w' = {Proc[f] : f \in {g \in End : probing'[g]}}
  BY <1>1, <1>6
<1> QED
  BY <1>6, <1>7, <1>8, <1>9, <1>10, ConsoleEnds

(* A wake-up completes an action, whether the partner or the user sent it. *)
LEMMA ConsoleWake ==
  ASSUME ConsoleInv, NEW e \in End, wake[e] > 0, at[e] = "comm",
         wake' = Deliver(wake, e),
         here' = here \/ here' = [here EXCEPT ![e] = 0],
         Proceed(e, step), UNCHANGED <<probing, w, probe_w>>
  PROVE  ConsoleInv'
<1> DEFINE o == Other(e)
<1>1. o \in End /\ o # e /\ End = {e, o} /\ Other(o) = e
  BY DEF Other, End
<1>2. Registration(e) /\ Registration(o)
  BY <1>1 DEF ConsoleInv
<1>3. step[e] = 0 /\ wake[e] = 1 /\ here[e] = 0 /\ ~probing[e]
  <2>1. step[e] \in Nat /\ wake[e] \in Nat
    BY DEF ConsoleInv
  <2> QED
    BY <1>2, <2>1 DEF Registration
<1>4. here' = here /\ wake' = [wake EXCEPT ![e] = 0]
  BY <1>3 DEF Deliver, ConsoleInv
<1>5. /\ at' \in [End -> {"ready", "comm", "probe", "done"}]
      /\ step' \in [End -> Nat]
      /\ \/ at'[e] = "ready" /\ step'[e] = 1
         \/ at'[e] = "done" /\ step'[e] = 0
      /\ at'[o] = at[o] /\ step'[o] = step[o]
  BY <1>1, <1>3, ProceedEnd DEF ConsoleInv
<1>6. /\ here' \in [End -> Nat] /\ wake' \in [End -> Nat] /\ probing' \in [End -> BOOLEAN]
      /\ wake'[e] = 0 /\ wake'[o] = wake[o]
  BY <1>1, <1>4 DEF ConsoleInv
<1>7. Registration(e)' /\ Registration(o)'
  BY <1>2, <1>3, <1>4, <1>5, <1>6 DEF Registration
<1>8. \A f \in End : Blocked(f)' <=> Blocked(f)
  BY <1>1, <1>3, <1>4, <1>5 DEF Blocked
<1>9. w' = {Proc[f] : f \in {g \in End : Blocked(g)'}}
  <2>1. {g \in End : Blocked(g)'} = {g \in End : Blocked(g)}
    BY <1>8
  <2> QED
    BY <2>1 DEF ConsoleInv
<1>10. NotBothBlocked' /\ probe_w' = {Proc[f] : f \in {g \in End : probing'[g]}}
  BY <1>4 DEF ConsoleInv, NotBothBlocked
<1> QED
  BY <1>5, <1>6, <1>7, <1>9, <1>10, ConsoleEnds

(* A selection evaluates its probe, after a plain event or a wake-up.      *)
LEMMA ConsoleSelect ==
  ASSUME ConsoleInv, NEW e \in End, Select(e)
  PROVE  ConsoleInv'
<1> DEFINE o == Other(e)
<1>1. o \in End /\ o # e /\ End = {e, o} /\ Other(o) = e
  BY DEF Other, End
<1>2. Registration(e) /\ Registration(o) /\ Pc[e] \in Nat
  BY <1>1, PcAssumption DEF ConsoleInv
<1>3. e \in Probers /\ o \notin Probers /\ at[o] # "probe" /\ ~probing[o]
  BY <1>1, <1>2, ProbersAssumption DEF Select, Registration, ConsoleInv
<1>4. PICK undo \in BOOLEAN, s \in [End -> Nat] :
        /\ SelectPasses(e, undo, s) \/ SelectBlocks(e, undo, s)
        /\ s = [step EXCEPT ![e] = 0] /\ wake' = [wake EXCEPT ![e] = 0]
        /\ here[e] = 0 /\ ~probing[e] /\ at[e] \in {"ready", "probe"}
  <2>1. CASE /\ step[e] > 0 /\ at[e] \in {"ready", "probe"} /\ wake' = wake
             /\ \/ SelectPasses(e, FALSE, Deliver(step, e))
                \/ SelectBlocks(e, FALSE, Deliver(step, e))
    <3>1. step[e] = 1 /\ wake[e] = 0 /\ here[e] = 0 /\ ~probing[e]
      BY <1>2, <2>1 DEF Registration, ConsoleInv
    <3>2. /\ Deliver(step, e) = [step EXCEPT ![e] = 0] /\ Deliver(step, e) \in [End -> Nat]
          /\ wake' = [wake EXCEPT ![e] = 0]
      BY <2>1, <3>1 DEF Deliver, ConsoleInv
    <3> QED
      BY <2>1, <3>1, <3>2
  <2>2. CASE /\ wake[e] > 0 /\ at[e] = "probe" /\ wake' = Deliver(wake, e)
             /\ SelectPasses(e, TRUE, step) \/ SelectBlocks(e, TRUE, step)
    <3>1. step[e] = 0 /\ wake[e] = 1 /\ here[e] = 0 /\ ~probing[e]
      BY <1>2, <2>2 DEF Registration, ConsoleInv
    <3>2. /\ step = [step EXCEPT ![e] = 0] /\ step \in [End -> Nat]
          /\ wake' = [wake EXCEPT ![e] = 0]
      BY <2>2, <3>1 DEF Deliver, ConsoleInv
    <3> QED
      BY <2>2, <3>1, <3>2
  <2> QED
    BY <2>1, <2>2 DEF Select
<1>5. w' = w /\ wake' \in [End -> Nat] /\ wake'[e] = 0 /\ wake'[o] = wake[o]
      /\ s[e] = 0 /\ s[o] = step[o]
  BY <1>1, <1>4 DEF Select, ConsoleInv
<1>6. probe_w = {}
  BY <1>1, <1>3, <1>4 DEF ConsoleInv
<1>7. CASE SelectPasses(e, undo, s)
  <2>1. here' = here /\ probing' = probing /\ probe_w' = {}
    BY <1>4, <1>6, <1>7 DEF SelectPasses, Undone, ConsoleInv
  <2>2. /\ at' \in [End -> {"ready", "comm", "probe", "done"}]
        /\ step' \in [End -> Nat]
        /\ \/ at'[e] = "ready" /\ step'[e] = 1
           \/ at'[e] = "done" /\ step'[e] = 0
        /\ at'[o] = at[o] /\ step'[o] = step[o]
    BY <1>1, <1>5, <1>7, ProceedEnd DEF ConsoleInv, SelectPasses
  <2>3. Registration(e)' /\ Registration(o)'
    BY <1>2, <1>4, <1>5, <2>1, <2>2 DEF Registration
  <2>4. \A f \in End : Blocked(f)' <=> Blocked(f)
    BY <1>1, <1>4, <2>1, <2>2 DEF Blocked
  <2>5. w' = {Proc[f] : f \in {g \in End : Blocked(g)'}}
    <3>1. {g \in End : Blocked(g)'} = {g \in End : Blocked(g)}
      BY <2>4
    <3> QED
      BY <1>5, <3>1 DEF ConsoleInv
  <2>6. NotBothBlocked' /\ probe_w' = {Proc[f] : f \in {g \in End : probing'[g]}}
    BY <1>1, <1>3, <1>4, <2>1 DEF NotBothBlocked, ConsoleInv
  <2> QED
    BY <1>5, <2>1, <2>2, <2>3, <2>5, <2>6, ConsoleEnds DEF ConsoleInv
<1>8. CASE SelectBlocks(e, undo, s)
  <2>1. /\ here' = [here EXCEPT ![e] = Pc[e] + 1]
        /\ probing' = [probing EXCEPT ![e] = TRUE]
        /\ probe_w' = {Proc[e]} /\ at' = [at EXCEPT ![e] = "probe"] /\ step' = s
        /\ ~Waiting(o)
    BY <1>1, <1>8 DEF SelectBlocks, ProbeTrue, End
  <2>2. here[o] = 0
    BY <1>3, <2>1 DEF Waiting
  <2>3. /\ here' \in [End -> Nat] /\ probing' \in [End -> BOOLEAN]
        /\ at' \in [End -> {"ready", "comm", "probe", "done"}] /\ step' \in [End -> Nat]
        /\ here'[e] = Pc[e] + 1 /\ here'[o] = 0 /\ probing'[e] /\ ~probing'[o]
        /\ at'[e] = "probe" /\ at'[o] = at[o] /\ step'[e] = 0 /\ step'[o] = step[o]
    BY <1>1, <1>2, <1>3, <1>5, <2>1, <2>2 DEF ConsoleInv
  <2>4. Registration(e)' /\ Registration(o)'
    <3>1. Registration(e)'
      BY <1>3, <1>5, <2>3 DEF Registration
    <3>2. Registration(o)'
      BY <1>1, <1>2, <1>3, <1>5, <2>2, <2>3, PcAssumption DEF Registration
    <3> QED
      BY <3>1, <3>2
  <2>5. \A f \in End : ~Blocked(f) /\ ~Blocked(f)'
    BY <1>1, <1>4, <2>2, <2>3 DEF Blocked
  <2>6. w' = {Proc[f] : f \in {g \in End : Blocked(g)'}}
    BY <1>5, <2>5 DEF ConsoleInv
  <2>7. NotBothBlocked' /\ probe_w' = {Proc[f] : f \in {g \in End : probing'[g]}}
    BY <1>1, <2>1, <2>3 DEF NotBothBlocked, End
  <2> QED
    BY <1>5, <2>3, <2>4, <2>6, <2>7, ConsoleEnds
<1> QED
  BY <1>4, <1>7, <1>8

(* In reset mode an event goes back to the queue as a plain event.         *)
LEMMA ConsolePostpone ==
  ASSUME ConsoleInv, NEW e \in End, Postpone(e)
  PROVE  ConsoleInv'
<1> DEFINE o == Other(e)
<1>1. o \in End /\ o # e /\ End = {e, o} /\ Other(o) = e
  BY DEF Other, End
<1>2. Registration(e) /\ Registration(o)
  BY <1>1 DEF ConsoleInv
<1>3. here' = here /\ probing' = probing /\ w' = w /\ probe_w' = probe_w /\ at' = at
  BY DEF Postpone, chan
<1>4. /\ step' \in [End -> Nat] /\ wake' \in [End -> Nat]
      /\ step'[e] + wake'[e] = step[e] + wake[e]
      /\ at[e] \in {"ready", "done"} => step'[e] = step[e] /\ wake'[e] = wake[e]
      /\ step[e] + wake[e] # 0
      /\ step'[o] = step[o] /\ wake'[o] = wake[o]
  <2>1. CASE step[e] > 0 /\ UNCHANGED <<step, wake>>
    BY <2>1 DEF ConsoleInv
  <2>2. CASE /\ wake[e] > 0 /\ wake' = Deliver(wake, e)
             /\ step' = [step EXCEPT ![e] = @ + 1]
    BY <1>1, <1>2, <2>2 DEF ConsoleInv, Deliver, Registration
  <2> QED
    BY <2>1, <2>2 DEF Postpone
<1>5. Registration(e)' /\ Registration(o)'
  BY <1>2, <1>3, <1>4 DEF Registration, ConsoleInv
<1>6. \A f \in End : Blocked(f)' <=> Blocked(f)
  BY <1>3 DEF Blocked
<1>7. NotBothBlocked' /\ w' = {Proc[f] : f \in {g \in End : Blocked(g)'}}
  <2>1. {g \in End : Blocked(g)'} = {g \in End : Blocked(g)}
    BY <1>6
  <2> QED
    BY <1>3, <2>1 DEF ConsoleInv, NotBothBlocked
<1> QED
  BY <1>3, <1>4, <1>5, <1>7, ConsoleEnds DEF ConsoleInv

(* skip-comm completes an action without its partner. *)
LEMMA ConsoleSkip ==
  ASSUME ConsoleInv, NEW e \in End, SkipComm(e)
  PROVE  ConsoleInv'
<1> DEFINE o == Other(e)
<1>1. o \in End /\ o # e /\ End = {e, o} /\ Other(o) = e
  BY DEF Other, End
<1>2. Registration(o)
  BY <1>1 DEF ConsoleInv
<1>3. /\ at[e] = "comm" /\ step[e] = 0 /\ ~probing[e] /\ here[o] = 0
      /\ wake' = [wake EXCEPT ![e] = 1] /\ here' = [here EXCEPT ![e] = 0] /\ w' = {}
  BY ConsoleRelease DEF SkipComm
<1>4. probing' = probing /\ probe_w' = probe_w /\ at' = at /\ step' = step
  BY DEF SkipComm
<1>5. /\ here' \in [End -> Nat] /\ wake' \in [End -> Nat]
      /\ here'[e] = 0 /\ here'[o] = 0 /\ wake'[e] = 1 /\ wake'[o] = wake[o]
  BY <1>1, <1>3 DEF ConsoleInv
<1>6. Registration(e)' /\ Registration(o)'
  BY <1>2, <1>3, <1>4, <1>5 DEF Registration
<1>7. NotBothBlocked' /\ w' = {Proc[f] : f \in {g \in End : Blocked(g)'}}
  <2>1. \A f \in End : here'[f] = 0 /\ ~Blocked(f)'
    BY <1>1, <1>5 DEF Blocked
  <2> QED
    BY <1>3, <2>1 DEF NotBothBlocked, End
<1> QED
  BY <1>4, <1>5, <1>6, <1>7, ConsoleEnds DEF ConsoleInv

LEMMA ConsoleInit == Init => ConsoleInv
<1> SUFFICES ASSUME Init PROVE ConsoleInv
  OBVIOUS
<1>1. \A e \in End : Registration(e) /\ ~Blocked(e) /\ ~probing[e]
  BY DEF Init, Registration, Blocked
<1> QED
  BY <1>1 DEF ConsoleInv, Init, NotBothBlocked, End

LEMMA ConsoleStep ==
  ASSUME ConsoleInv, [Next \/ Console]_vars
  PROVE  ConsoleInv'
<1>1. "snd" \in End /\ "rcv" \in End /\ Other("snd") = "rcv" /\ Other("rcv") = "snd"
  BY DEF End, Other
<1>2. ASSUME NEW v \in Values, SendMeets(v) PROVE ConsoleInv'
  BY <1>1, <1>2, ConsoleMeet DEF SendMeets
<1>3. ASSUME NEW v \in Values, SendBlocks(v) PROVE ConsoleInv'
  BY <1>1, <1>3, ConsoleBlock DEF SendBlocks
<1>4. ASSUME SendWakes PROVE ConsoleInv'
  BY <1>1, <1>4, ConsoleWake DEF SendWakes
<1>5. ASSUME NEW x \in Values, RecvMeets(x) PROVE ConsoleInv'
  BY <1>1, <1>5, ConsoleMeet DEF RecvMeets
<1>6. ASSUME NEW x \in Values, RecvBlocks(x) PROVE ConsoleInv'
  BY <1>1, <1>6, ConsoleBlock DEF RecvBlocks
<1>7. ASSUME RecvWakes PROVE ConsoleInv'
  BY <1>1, <1>7, ConsoleWake DEF RecvWakes
<1>8. ASSUME UNCHANGED <<chan, at, step, wake>> PROVE ConsoleInv'
  BY <1>8 DEF chan, ConsoleInv, Registration, NotBothBlocked, Blocked
<1>9. ASSUME EndReset \/ ModeReset \/ UNCHANGED vars PROVE ConsoleInv'
  BY <1>8, <1>9 DEF EndReset, ModeReset, vars
<1> QED
  BY <1>2, <1>3, <1>4, <1>5, <1>6, <1>7, <1>9,
     ConsoleSelect, ConsolePostpone, ConsoleSkip DEF Next, Console, Send, Recv

(* Whatever is typed at the console (any number of skip-comm and mode      *)
(* commands, at any moment), and even after a fatal_error, a process that  *)
(* has not ended has an event pending or its partner will notify it.       *)
THEOREM ConsoleForgetsNobody == ConsoleSpec => []NeverForgotten
<1>1. ConsoleInv => NeverForgotten
  <2> SUFFICES ASSUME ConsoleInv, NEW e \in End PROVE NeverForgotten!(e)
    BY DEF NeverForgotten
  <2>1. Registration(e) /\ Pc[e] \in Nat
    BY PcAssumption DEF ConsoleInv
  <2>2. Blocked(e) => Proc[e] \in w
    BY DEF ConsoleInv
  <2>3. probing[e] => Proc[e] \in probe_w
    BY DEF ConsoleInv
  <2> QED
    BY <2>1, <2>2, <2>3 DEF Registration, Blocked, ConsoleInv
<1>2. ConsoleInv /\ [Next \/ Console]_vars => ConsoleInv'
  BY ConsoleStep
<1> QED
  BY <1>1, <1>2, ConsoleInit, PTL DEF ConsoleSpec
=============================================================================
