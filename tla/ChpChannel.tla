----------------------------- MODULE ChpChannel -----------------------------
(***************************************************************************)
(* One CHP channel (act_channel_state) and the two simulated processes     *)
(* (ChpSim objects) that send and receive on it, as the discrete-event     *)
(* simulator runs them.  A process does nothing until one of its events is *)
(* delivered to ChpSim::Step.  A plain event (flag 0) executes the         *)
(* statement its program counter stands at; a wake-up (flag 1) completes   *)
(* the statement it was blocked in.  A process that blocks on the channel  *)
(* leaves its program counter in the channel, joins the wait set w and has *)
(* no event left; its partner posts the wake-up when it arrives.           *)
(*                                                                         *)
(* The channel is not fragmented and its actions carry no +/- flavor.      *)
(* Events are delivered in any order: simulated time is left out, so every *)
(* choice of delays is covered.                                            *)
(***************************************************************************)
EXTENDS Naturals, Sequences

CONSTANTS
  Values,     \* what can be sent
  Bidir,      \* do the actions also exchange a value backwards?
  Proc,       \* the ChpSim object that executes each end
  Pc,         \* the slot of _pc[] each end runs in
  Probers,    \* the ends whose process probes the channel: at most one
  Dropped,    \* recorded for a receive whose value was not written
  MaxComms,   \* bound on the number of sends, and of receives
  Commands,   \* the console commands in use: "skip-snd", "skip-rcv", "mode"
  MaxCmds     \* bound on the number of console commands

End == {"snd", "rcv"}
Other(e) == IF e = "snd" THEN "rcv" ELSE "snd"

ASSUME BidirAssumption == Bidir \in BOOLEAN
ASSUME PcAssumption == Pc \in [End -> Nat]
ASSUME ProcAssumption ==       \* two threads never share a slot
  <<Proc["snd"], Pc["snd"]>> # <<Proc["rcv"], Pc["rcv"]>>
ASSUME ProbersAssumption ==    \* ACT lets one end of a channel be probed
  Probers \subseteq End /\ \A a, b \in Probers : a = b
ASSUME DroppedAssumption == Dropped \notin Values
ASSUME BoundsAssumption == MaxComms \in Nat /\ MaxCmds \in Nat

VARIABLES
  (* the channel *)
  here,         \* send_here, recv_here: 0, or 1 + the pc to wake
  probing,      \* sender_probe, receiver_probe: that pc waits in a selection
  data, data2,  \* the value slots
  count,        \* number of completed actions
  skip_action,  \* set by the skip-comm command
  w,            \* objects in the wait set of the channel
  probe,        \* is c->probe set?
  probe_w,      \* objects waiting in it
  (* the simulator *)
  step,         \* pending flag-0 events of each end
  wake,         \* pending flag-1 events of each end
  resetMode,    \* ActSimCore::_prs_sim_mode
  (* the processes *)
  at,           \* "ready" to execute a statement, blocked in one, or "done"
  failed,       \* an Assert or fatal_error was reached
  (* history *)
  sent, rcvd,   \* values of the sends issued, and of the receives completed
  xsent, xrcvd, \* the same for the values exchanged backwards
  probed,       \* ends that saw the probe true and have not communicated yet
  skipped,      \* ends whose action was skipped and has not completed yet
  cmds          \* console commands used so far

chan == <<here, probing, data, data2, count, skip_action, w, probe, probe_w>>
hist == <<sent, rcvd, xsent, xrcvd, probed, skipped>>
vars == <<chan, step, wake, resetMode, at, failed, hist, cmds>>

TypeOK ==
  /\ here \in [End -> Nat]
  /\ probing \in [End -> BOOLEAN]
  /\ data \in Values /\ data2 \in Values
  /\ count \in Nat
  /\ skip_action \in BOOLEAN
  /\ w \subseteq {Proc[e] : e \in End}
  /\ probe \in BOOLEAN
  /\ probe_w \subseteq {Proc[e] : e \in End}
  /\ step \in [End -> Nat] /\ wake \in [End -> Nat]
  /\ resetMode \in BOOLEAN
  /\ at \in [End -> {"ready", "comm", "probe", "done"}]
  /\ failed \in BOOLEAN
  /\ sent \in Seq(Values) /\ rcvd \in Seq(Values \cup {Dropped})
  /\ xsent \in Seq(Values) /\ xrcvd \in Seq(Values \cup {Dropped})
  /\ probed \subseteq End /\ skipped \subseteq End
  /\ cmds \in 0 .. MaxCmds

(* Before the first event of either process: each has one, at slot Pc, and *)
(* the simulator is in reset mode.                                         *)
Init ==
  /\ here = [e \in End |-> 0]
  /\ probing = [e \in End |-> FALSE]
  /\ data \in Values /\ data2 = data
  /\ count = 0
  /\ skip_action = FALSE
  /\ w = {}
  /\ probe = FALSE /\ probe_w = {}
  /\ step = [e \in End |-> 1] /\ wake = [e \in End |-> 0]
  /\ resetMode = TRUE
  /\ at = [e \in End |-> "ready"]
  /\ failed = FALSE
  /\ sent = <<>> /\ rcvd = <<>> /\ xsent = <<>> /\ xrcvd = <<>>
  /\ probed = {} /\ skipped = {}
  /\ cmds = 0

-----------------------------------------------------------------------------
(* WAITING_SENDER, WAITING_RECEIVER and their _PROBE variants. *)
WaitingAny(e) == here[e] # 0    \* mutant: a probe is taken for an action
Waiting(e) == here[e] # 0 /\ ~probing[e]
WaitingProbe(e) == here[e] # 0 /\ probing[e]

(* WaitForOne::Notify(pc) on a set of objects: each gets a wake-up for pc. *)
Notified(objs, pc) ==
  [e \in End |-> wake[e] + (IF Proc[e] \in objs /\ Pc[e] = pc THEN 1 ELSE 0)]

(* The events left when one of e's has been delivered. *)
Deliver(q, e) == [q EXCEPT ![e] = @ - 1]

(* _updatepc and _nextEvent at the end of a statement: the program goes on *)
(* to its next statement, whatever it is, or it ends.                      *)
Proceed(e, q) ==
  \/ at' = [at EXCEPT ![e] = "ready"] /\ step' = [q EXCEPT ![e] = @ + 1]
  \/ at' = [at EXCEPT ![e] = "done"] /\ step' = q

(* A plain event reached a communication: usually for the first time.      *)
(* Executing a statement again does not make it another communication.     *)
Reaches(e) ==
  /\ step[e] > 0
  /\ ~resetMode /\ ~failed
  /\ at[e] \in {"ready", "comm"}

Issues(hst, e, v) == IF at[e] = "ready" THEN Append(hst, v) ELSE hst
Budget(hst, e) == at[e] = "ready" => Len(hst) < MaxComms
SendValue(v) ==
  at["snd"] = "comm" /\ "snd" \notin skipped => v = sent[Len(sent)]

(* What a completing action records for the value it writes; one that was  *)
(* skipped, and that writes nothing, leaves no record.                     *)
Completed(hst, e, v) ==
  IF skip_action
    THEN IF e \in skipped THEN hst ELSE Append(hst, Dropped)
    ELSE Append(hst, v)
-----------------------------------------------------------------------------
(* The later of two processes completes the action of the earlier, e, that *)
(* is blocked: it wakes e up and clears its program counter.               *)
ReleaseLate(e) ==    \* mutant: the woken process will clear it
  wake' = Notified(w, here[e] - 1) /\ w' = {} /\ here' = here
ReleaseSilently(e) ==    \* mutant: nobody is notified
  wake' = wake /\ w' = w /\ here' = [here EXCEPT ![e] = 0]

Release(e) ==
  /\ wake' = Notified(w, here[e] - 1)
  /\ w' = {}
  /\ here' = [here EXCEPT ![e] = 0]

(* The earlier of two processes registers and blocks.  If the process at   *)
(* the other end waits in a selection for just that, it is woken up to     *)
(* evaluate its guards again.                                              *)
BlockQuietly(e) ==    \* mutant: the probing process is not notified
  /\ IF WaitingProbe(Other(e))
       THEN /\ probing' = [probing EXCEPT ![Other(e)] = FALSE]
            /\ here' = [here EXCEPT ![Other(e)] = 0, ![e] = Pc[e] + 1]
       ELSE here' = [here EXCEPT ![e] = Pc[e] + 1] /\ UNCHANGED probing
  /\ failed' = (here[e] # 0)
  /\ w' = w \cup {Proc[e]}
  /\ at' = [at EXCEPT ![e] = "comm"]
  /\ step' = Deliver(step, e)
  /\ UNCHANGED <<wake, probe, probe_w>>

Block(e) ==
  /\ IF WaitingProbe(Other(e))
       THEN /\ wake' = Notified(probe_w, here[Other(e)] - 1)
            /\ probe_w' = {}
            /\ probing' = [probing EXCEPT ![Other(e)] = FALSE]
            /\ here' = [here EXCEPT ![Other(e)] = 0, ![e] = Pc[e] + 1]
       ELSE /\ here' = [here EXCEPT ![e] = Pc[e] + 1]
            /\ UNCHANGED <<wake, probe_w, probing>>
  /\ failed' = (here[e] # 0)
  /\ w' = w \cup {Proc[e]}
  /\ at' = [at EXCEPT ![e] = "comm"]
  /\ step' = Deliver(step, e)
  /\ UNCHANGED probe

(* A value for a process that is blocked goes to data, the value of a      *)
(* process that blocks to data2.                                           *)
LeaveInData(v) == data' = v /\ data2' = data2    \* mutant: a single slot

HandOver(v) == data' = v /\ data2' = data2
Leave(v) == data2' = v /\ data' = data

(* varSend, the receiver is blocked: hand the value over, take the value   *)
(* exchanged, and wake the receiver up.                                    *)
SendMeets(v) ==
  /\ Reaches("snd") /\ Budget(sent, "snd") /\ SendValue(v)
  /\ Waiting("rcv")
  /\ sent' = Issues(sent, "snd", v)
  /\ HandOver(v)
  /\ IF Bidir
       THEN xrcvd' = Completed(xrcvd, "snd", data2) /\ skip_action' = FALSE
       ELSE UNCHANGED <<xrcvd, skip_action>>
  /\ Release("rcv")
  /\ failed' = (here["snd"] # 0 \/ probing["snd"] \/ probing["rcv"])
  /\ count' = count + 1
  /\ Proceed("snd", Deliver(step, "snd"))
  /\ probed' = probed \ {"snd"}
  /\ UNCHANGED <<probing, probe, probe_w, resetMode, rcvd, xsent, skipped, cmds>>

(* varSend, no receiver yet: leave the value and block. *)
SendBlocks(v) ==
  /\ Reaches("snd") /\ Budget(sent, "snd") /\ SendValue(v)
  /\ ~Waiting("rcv")
  /\ sent' = Issues(sent, "snd", v)
  /\ Leave(v)
  /\ Block("snd")
  /\ probed' = probed \ {"snd"}
  /\ UNCHANGED <<count, skip_action, resetMode, rcvd, xsent, xrcvd, skipped, cmds>>

(* varSend with wakeup set: the receive happened while the sender waited. *)
SendWakes ==
  /\ wake["snd"] > 0 /\ at["snd"] = "comm"
  /\ ~resetMode /\ ~failed
  /\ wake' = Deliver(wake, "snd")
  /\ here' = [here EXCEPT !["snd"] = 0]
  /\ failed' = probing["snd"]
  /\ IF Bidir
       THEN xrcvd' = Completed(xrcvd, "snd", data) /\ skip_action' = FALSE
       ELSE UNCHANGED <<xrcvd, skip_action>>
  /\ count' = count + 1
  /\ Proceed("snd", step)
  /\ skipped' = skipped \ {"snd"}
  /\ UNCHANGED <<probing, data, data2, w, probe, probe_w, resetMode, sent, rcvd,
                 xsent, probed, cmds>>

(* varRecv, the sender is blocked: take its value, hand over the value     *)
(* exchanged, and wake the sender up.                                      *)
RecvMeets(x) ==
  /\ Reaches("rcv") /\ Budget(rcvd, "rcv")
  /\ Waiting("snd")
  /\ rcvd' = Completed(rcvd, "rcv", data2)
  /\ skip_action' = FALSE
  /\ IF Bidir
       THEN xsent' = Issues(xsent, "rcv", x) /\ HandOver(x)
       ELSE UNCHANGED <<xsent, data, data2>>
  /\ Release("snd")
  /\ failed' = (here["rcv"] # 0 \/ probing["snd"] \/ probing["rcv"])
  /\ Proceed("rcv", Deliver(step, "rcv"))
  /\ probed' = probed \ {"rcv"}
  /\ UNCHANGED <<probing, count, probe, probe_w, resetMode, sent, xrcvd, skipped,
                 cmds>>

(* varRecv, no sender yet: block, leaving the value exchanged. *)
RecvBlocks(x) ==
  /\ Reaches("rcv") /\ Budget(rcvd, "rcv")
  /\ ~Waiting("snd")
  /\ IF Bidir
       THEN xsent' = Issues(xsent, "rcv", x) /\ Leave(x)
       ELSE UNCHANGED <<xsent, data, data2>>
  /\ Block("rcv")
  /\ probed' = probed \ {"rcv"}
  /\ UNCHANGED <<count, skip_action, resetMode, sent, rcvd, xrcvd, skipped, cmds>>

(* varRecv with wakeup set: the sender has left its value in data. *)
RecvWakes ==
  /\ wake["rcv"] > 0 /\ at["rcv"] = "comm"
  /\ ~resetMode /\ ~failed
  /\ wake' = Deliver(wake, "rcv")
  /\ rcvd' = Completed(rcvd, "rcv", data)
  /\ skip_action' = FALSE
  /\ failed' = (here["rcv"] # 0)
  /\ Proceed("rcv", step)
  /\ skipped' = skipped \ {"rcv"}
  /\ UNCHANGED <<here, probing, data, data2, count, w, probe, probe_w, resetMode,
                 sent, xsent, xrcvd, probed, cmds>>
-----------------------------------------------------------------------------
(* Step on a selection [ #c -> ... ] whose only guard probes the channel.  *)
(* A wake-up first takes the wait condition back (_add_waitcond, undo).    *)
UndoneButProbe(e, undo) ==    \* mutant: c->probe stays set
  /\ here' = IF undo /\ probing[e] THEN [here EXCEPT ![e] = 0] ELSE here
  /\ probing' = IF undo THEN [probing EXCEPT ![e] = FALSE] ELSE probing
  /\ probe' = probe
  /\ probe_w' = IF undo THEN {} ELSE probe_w

Undone(e, undo) ==
  /\ here' = IF undo /\ probing[e] THEN [here EXCEPT ![e] = 0] ELSE here
  /\ probing' = IF undo THEN [probing EXCEPT ![e] = FALSE] ELSE probing
  /\ probe' = (probe /\ ~undo)
  /\ probe_w' = IF undo THEN {} ELSE probe_w

(* varEval: a probe is true when someone waits at the channel. *)
ProbeTrue == Waiting("snd") \/ Waiting("rcv")

SelectPasses(e, undo, s) ==
  /\ ProbeTrue
  /\ Undone(e, undo)
  /\ Proceed(e, s)
  /\ probed' = probed \cup {e}
  /\ UNCHANGED failed

SelectBlocks(e, undo, s) ==
  /\ ~ProbeTrue
  /\ here' = [here EXCEPT ![e] = Pc[e] + 1]
  /\ probing' = [probing EXCEPT ![e] = TRUE]
  /\ probe' = TRUE
  /\ probe_w' = {Proc[e]}
  /\ failed' = (probe /\ ~undo)
  /\ at' = [at EXCEPT ![e] = "probe"]
  /\ step' = s
  /\ UNCHANGED probed

Select(e) ==
  /\ e \in Probers
  /\ ~resetMode /\ ~failed
  /\ \/ /\ step[e] > 0 /\ at[e] \in {"ready", "probe"}
        /\ wake' = wake
        /\ \/ SelectPasses(e, FALSE, Deliver(step, e))
           \/ SelectBlocks(e, FALSE, Deliver(step, e))
     \/ /\ wake[e] > 0 /\ at[e] = "probe"
        /\ wake' = Deliver(wake, e)
        /\ \/ SelectPasses(e, TRUE, step)
           \/ SelectBlocks(e, TRUE, step)
  /\ UNCHANGED <<data, data2, count, skip_action, w, resetMode, sent, rcvd, xsent,
                 xrcvd, skipped, cmds>>
-----------------------------------------------------------------------------
(* Reset mode: Step posts the event of a real process again, as a plain    *)
(* event, and leaves the process alone.                                    *)
PostponeNot(e) ==    \* mutant: the event is consumed and not posted again
  /\ resetMode
  /\ step[e] > 0 /\ step' = Deliver(step, e)
  /\ UNCHANGED <<chan, wake, resetMode, at, failed, hist, cmds>>
PostponeWake(e) ==    \* mutant: every postponed event is taken for a wake-up
  /\ resetMode
  /\ step[e] + wake[e] > 0
  /\ step' = [step EXCEPT ![e] = @ + 1] /\ wake' = Deliver(wake, e)
  /\ UNCHANGED <<chan, resetMode, at, failed, hist, cmds>>

Postpone(e) ==
  /\ resetMode
  /\ \/ step[e] > 0 /\ UNCHANGED <<step, wake>>
     \/ /\ wake[e] > 0
        /\ wake' = Deliver(wake, e)
        /\ step' = [step EXCEPT ![e] = @ + 1]
  /\ UNCHANGED <<chan, resetMode, at, failed, hist, cmds>>

(* runInit leaves reset mode when the reset protocol is over. *)
EndReset ==
  /\ resetMode
  /\ resetMode' = FALSE
  /\ UNCHANGED <<chan, step, wake, at, failed, hist, cmds>>

(* The console command "skip-comm": complete the action an end is blocked  *)
(* in without its partner.  The action no longer counts as issued.         *)
Withdrawn(hst) == SubSeq(hst, 1, Len(hst) - 1)

SkipComm(e) ==
  /\ (IF e = "snd" THEN "skip-snd" ELSE "skip-rcv") \in Commands
  /\ cmds < MaxCmds /\ ~failed
  /\ Waiting(e)
  /\ cmds' = cmds + 1
  /\ skip_action' = TRUE
  /\ Release(e)
  /\ skipped' = skipped \cup {e}
  /\ sent' = IF e = "snd" THEN Withdrawn(sent) ELSE sent
  /\ xsent' = IF e = "rcv" /\ Bidir THEN Withdrawn(xsent) ELSE xsent
  /\ UNCHANGED <<probing, data, data2, count, probe, probe_w, step, resetMode, at,
                 failed, rcvd, xrcvd, probed>>

(* The console command "mode reset"; EndReset is also "mode run". *)
ModeReset ==
  /\ "mode" \in Commands
  /\ cmds < MaxCmds /\ ~failed /\ ~resetMode
  /\ cmds' = cmds + 1
  /\ resetMode' = TRUE
  /\ UNCHANGED <<chan, step, wake, at, failed, hist>>
-----------------------------------------------------------------------------
Send == \E v \in Values : SendMeets(v) \/ SendBlocks(v)
Recv == \E x \in Values : RecvMeets(x) \/ RecvBlocks(x)

(* The simulation, and the same with a user at the console. *)
Next ==
  \/ Send \/ SendWakes
  \/ Recv \/ RecvWakes
  \/ \E e \in End : Select(e) \/ Postpone(e)
  \/ EndReset

Console == ModeReset \/ \E e \in End : SkipComm(e)

(* The event queue drains: a posted event is delivered, whatever statement *)
(* it finds, and the reset protocol ends.  Nothing obliges a program to    *)
(* send, to receive or to probe.                                           *)
StepEvent(e) == (IF e = "snd" THEN Send ELSE Recv) \/ Select(e)
WakeEvent(e) == (IF e = "snd" THEN SendWakes ELSE RecvWakes) \/ Select(e)

Fairness ==
  /\ WF_vars(EndReset)
  /\ \A e \in End : WF_vars(StepEvent(e)) /\ WF_vars(WakeEvent(e))

Spec == Init /\ [][Next]_vars /\ Fairness
ConsoleSpec == Init /\ [][Next \/ Console]_vars
-----------------------------------------------------------------------------
(* Receives issued so far. *)
Requests == Len(rcvd) + (IF at["rcv"] = "comm" THEN 1 ELSE 0)

IsPrefixOf(s, t) == Len(s) <= Len(t) /\ \A i \in 1 .. Len(s) : s[i] = t[i]

(* Values arrive in the order they were sent, none lost, repeated or       *)
(* overwritten between the moment two processes meet and the delayed       *)
(* wake-up that reads the channel; the same holds backwards.  (The code    *)
(* has one data and one data2 slot for both directions.)                   *)
Fifo == IsPrefixOf(rcvd, sent) /\ IsPrefixOf(xrcvd, xsent)

(* The channel has no slack, although completions are delayed by events:   *)
(* a send completes only if its receive was issued and the reverse, and    *)
(* count, which only varSend touches, counts communications.               *)
SlackZero ==
  /\ count <= Requests
  /\ Len(rcvd) <= Len(sent)
  /\ Len(sent) = count + (IF at["snd"] = "comm" THEN 1 ELSE 0)

(* No Assert and no fatal_error of varSend, varRecv and                    *)
(* _collect_sharedvars is reached by two processes that obey the ACT rules *)
(* (one sender, one receiver, one end probed).                             *)
NoFailure == ~failed

(* A blocked process is either registered at the channel, in the set its   *)
(* partner will notify, or its one wake-up is pending: it is never         *)
(* forgotten, and never woken twice.                                       *)
WakeOnce ==
  \A e \in End :
    /\ at[e] = "ready" => step[e] = 1 /\ wake[e] = 0 /\ here[e] = 0
    /\ at[e] = "done" => step[e] = 0 /\ wake[e] = 0 /\ here[e] = 0
    /\ at[e] \in {"comm", "probe"} =>
         /\ step[e] = 0
         /\ \/ wake[e] = 1 /\ here[e] = 0
            \/ /\ wake[e] = 0 /\ here[e] = Pc[e] + 1
               /\ Proc[e] \in (IF at[e] = "comm" THEN w ELSE probe_w)

(* Whatever the user types, a process that has not ended has an event      *)
(* pending or is registered where its partner will look for it.            *)
NeverForgotten ==
  \A e \in End :
    \/ at[e] = "done"
    \/ step[e] + wake[e] = 1
    \/ /\ here[e] = Pc[e] + 1
       /\ Proc[e] \in (IF at[e] = "comm" THEN w ELSE probe_w)

(* A process that saw the probe true finds its partner still there when it *)
(* gets to communicate, however many events lie in between.                *)
ProbeHonest == \A e \in probed : Waiting(Other(e))

(* Once the n-th send and the n-th receive have been issued both complete. *)
CommsComplete ==
  \A n \in 1 .. MaxComms :
    (Len(sent) >= n /\ Requests >= n) ~> (count >= n /\ Len(rcvd) >= n)

(* A selection blocked on the probe is left once the partner waits.        *)
ProbeWakes ==
  \A e \in Probers :
    (at[e] = "probe" /\ Waiting(Other(e))) ~> (at[e] # "probe")

(* skip-comm: one action is skipped, and once it is over the channel works *)
(* as before.  When a send has met its receive, has not gone on yet, and   *)
(* is not the one the user skipped, the receive has written its value.     *)
SkipIsLocal ==
  at["snd"] = "comm" /\ wake["snd"] > 0 /\ skipped = {} =>
    Len(rcvd) > 0 /\ rcvd[Len(rcvd)] = sent[Len(sent)]

(* mode reset: a process waits for run mode and then goes on from where it *)
(* was; the mode change itself communicates nothing.                       *)
ModeIsTransparent == Fifo

Abstract == INSTANCE Rendezvous WITH
  offered <- sent, sdone <- count, requests <- Requests, taken <- rcvd

(* The channel of the simulator is a slack-zero handshake. *)
ImplementsRendezvous == Abstract!Spec
=============================================================================
