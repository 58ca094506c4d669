# Formal models of actsim

actsim simulates hardware described in ACT: concurrent processes in CHP that
communicate over channels, and production rules that drive Booleans.  Both run
on one discrete-event engine.  This directory holds TLA+ modules of the parts of
the simulator that carry its protocols, TLC configurations that check them on
small instances, and TLAPS proofs of what holds for all instances.

Line numbers refer to the files of the repository.  `PROJECT.json` maps every
definition to the lines it models, and lists runs, mutants, hazards, findings
and theorems.

## 1. The system

### Components

| component | code | state it keeps | operations |
|---|---|---|---|
| event engine (`SimDES`, external library) | used everywhere | queue of `Event`s; wait sets `WaitForOne` | post, `Remove`, deliver to `Step`, `Notify` |
| CHP channel | `channel.h`, `chpsim.cc` `varSend`, `varRecv` | `send_here`, `recv_here`, probe flags, `data`, `data2`, `count`, wait sets `w`, `probe` | send, receive, exchange, block, wake up, probe |
| CHP threads | `chpsim.cc` `Step`, `_updatepc`, `_nextEvent` | `_pc[]`, `_holes[]`, `_pcused`, `_tot[]` | execute, fork, join, select, loop |
| CHP graph builder | `chpgraph.cc` | nodes, pending counters | translate each CHP construct; count program counters |
| selections | `chpsim.cc` `_add_waitcond`, `_collect_sharedvars` | `_stalled_pc`, `_shared`, `c->probe` | evaluate, register, withdraw, wake up by channel or by variable |
| production rules | `prssim.cc` | one value in {0, 1, X} per node; `flags`, `_pending` per object | `propagate`, `Step`, `setBool` |
| constraints | `constraints.cc` | groups; state of timing constraints | `safeChange`, `update` |
| simulation state | `state.cc` | arrays of Booleans, integers, channels | get, set; `setBool` consults exclusions, monitors and timing constraints |
| reset | `actsim.cc` `runInit` | `_prs_sim_mode` | run the Initialize block, end reset mode |
| fragmented channels | `channel.cc` `ChanMethods`, `chpsim.cc` 1655-1746, 1881-1969 | compiled methods; position in a method, `sfrag_st`, `rfrag_st`, flavours | set, up, rest, resumed at each wire change; probe |
| elaboration | `core.cc`, `computeFanout` of each object | instance table, port arrays, offsets, fanout tables, driver counts, fragmentation marks, registered checks | one walk over the instances, a second one for fanout |
| data | `chpsim.cc` `exprEval`, `funcEval`, `_run_chp`; `chpgraph.cc` | recorded widths; frames of functions (`_statestk`) | evaluate, assign, call |
| console | `main.cc` | - | `set`, `skip-comm`, `mode`, `gc-retry`, ... |
| analogue co-simulation, library, traces | `xycesim.cc`, `simlib`, `main.cc` | - | foreign simulators, files |

### How they interact

Nothing happens outside `Step`.  A `Step` may change shared state, call another
object directly (`setBool` calls `propagate` of every gate in the fanout of the
node; a blocked communication calls `Notify`), or post an event for later.  What
is decided before an event is delivered may no longer be true when it is.  That
is where the difficulty is: there are no threads in the C++ sense, but every
delay is a window in which the other objects run.

* CHP processes meet at a channel: the first to arrive registers and blocks, the
  second completes both and posts the wake-up of the first.
* A selection blocks on several channels and variables at once and must withdraw
  from all of them when one wakes it up.
* Threads of one process share `_pc[]`, and meet at joins through counters that
  are shared by the forks of the program that are not concurrent.
* A gate posts the change of its node; before it happens, its rules may be
  withdrawn, contradicted, excluded by another node, or overruled.
* A process at one end of a channel may meet a circuit at the other.  The process
  then drives the wires itself, through methods of the channel type that stop at
  every wire they wait for, and every change of a wire resumes whatever was stalled.
* Everything above goes through offsets and tables that elaboration has built: a
  wrong entry shows as a wire that is not connected or a gate that is not told.
* The mode (reset, run) and the console act on all of these at any moment.

### What has to be right

* Channel: slack zero, values in order, no wake-up lost or given twice, probes
  that stay true, none of the program's own assertions reached.
* Threads: no slot used twice, the number of slots computed in advance is
  enough, joins wait for all branches, statements in program order.
* Selections: woken up by whatever made a guard true; nothing left registered.
* Production rules: without hazards the simulator does what the rules say, in
  silence; with hazards it tells; exclusions hold always; when nothing is
  pending the rules are satisfied.
* Fragmented channels: the wires keep to the four-phase protocol, and what the
  process sees is a communication with another process.
* Elaboration: what the design connects shares a cell and nothing else does;
  whoever reads a node is told; drivers are all counted.
* Checks: reported when violated, and only then.
* Data: a text means the same as a process and as a function; widths are kept.

## 2. Modules

    Rendezvous        abstract: a slack-zero handshake
    ChpChannel        one channel and two processes      implements Rendezvous
    ChpChannelProofs
    ChpGraph          the graph builder (pure functions)
    ChpProgram        a graph as the threads find it, and the shape it has
    ChpThreads        threads of one process on such a graph
    ChpThreadsProofs  slots; forks, joins and their counters; the order of statements
    ChpSelect         selections on probes and shared variables
    ChpSelectProofs
    ProductionRules   abstract: rules that fire
    PrsGates          gates, events, exclusions          implements ProductionRules
    PrsGatesProofs    types, exclusion groups
    PrsEventsProofs   what becomes of pending changes; the refinement
    ChanMethods       methods of a channel type: compiler, interpreter (functions)
    ChpFragment       two fragmented channels and a circuit  implements Rendezvous
    ChpFragmentProofs
    SequenceLemmas    lists without duplicates, for the proofs
    Elaboration       the walks of ActSimCore over a hierarchical design
    Monitors          timing constraints and exclusion monitors (functions)
    Design            Elaboration, then writes that go through Monitors
    DesignProofs      the checks are exact
    ChpExpr           expressions, widths, functions (recursive operators)
    ChpData           the threads of ChpThreads with the data of ChpExpr
    MC*               instances for TLC

`ChpGraph` gives `MCChpThreads` and `MCChpData` the graphs that `ChpThreads` takes as
constants, by way of `ChpProgram`, which `ChpThreads` extends.
`ChpChannel` and `ChpSelect` each model one side of a selection: the first has
the whole life of one channel and a selection with one guard, the second has
selections with many guards and of each channel only that a sender waits.
`ChpData` conjoins each step of `ChpThreads` with what it does to the variables,
and guards decide which branch `ChpThreads` takes.
`ChpFragment` replaces the meeting of two processes by methods and wires and
refines the same abstract module as `ChpChannel`.

### Correspondence

**ChpChannel.** `here[e]`, `probing[e]`, `data`, `data2`, `count`, `w`, `probe`
are the fields of `act_channel_state`, for the end `e` ("snd" or "rcv").  `step[e]`
and `wake[e]` count the events of flag 0 and flag 1 in the queue, `at[e]` says
where the program counter stands.  `SendMeets`, `SendBlocks` and `SendWakes` are the
three ways through `varSend` (partner waiting, not waiting, wake-up), in
the case `CHPSIM_SEND` of `Step`; the same for receive.  `Select` is a selection
with a probe as its guard.  `Postpone` is the first test of `Step`, `EndReset`
the last lines of `runInit`, `SkipComm` and `ModeReset` two console commands.
`Proc` tells whether both ends belong to one object, which matters for wait sets.
`sent`, `rcvd` and their companions are history.

**ChpGraph, ChpThreads.** `Build` follows `_buildChpSimGraph` case by case, with
the pending counters; `BuildSemi`, `BuildComma` and `BuildGuarded` are the bodies of its
loops over sub-programs.  It is a recursive function over the parts of the programs
that `MCChpThreads` lists; `MaxProgramCounters` is `_max_program_counters`.
`Completed` is `ChpSimGraph::completed`, the recursive function `Settled` the loop of
`_nextEvent` over nodes without a statement, `Move` is `_updatepc`.  Actions are
the cases of `Step`.  A selection may take any branch.  `ChpProgram` names the parts of
the graph that the threads use and states as assumptions what the code takes for
granted of it (`WellBuilt`): forks nest, a branch is left only by way of its join,
forks that share a counter are never in progress together, nodes that can run at
once have room in different slots.

**ChpSelect.** `entries` counts the entries of the process in `_shared`, `stalled`
is `_stalled_pc`, `probe`, `inProbe` and `prober` are `c->probe`, its wait set, and
`recv_here` while `receiver_probe` is set.  `shared` counts the events of type
`MAX_LOCAL_PCS`, which name no thread.  `TakenBack` is `_add_waitcond` with undo and
`_remove_me`.

**PrsGates.** `val` is the array of Booleans, `ob[g]` one object: `flags`, the events
it has in the queue, and what `_pending` points to.  `Pull` computes `u_state` and
`u_weak` (or `d_state`, `d_weak`) over all drivers, as `MultiPrsSim` does, of
which one driver is the special case `OnePrsSim`.  `Propagated` is `propagate`;
`DoSetVal` and `MakeNodeX` are the macros of those names.  `Fires` and `Refused` are
`Step` with `setBool`, when `safeChange` accepts and when it does not; `EnvSet` is `set` at
the console or an action of an Initialize block.

**ChanMethods, ChpFragment.** `compile` is `_compile` with its patching of jumps,
`runMethod` the interpreter, from a position to the next wait or the end.
`Driven` is the loop of `varSend` and `varRecv` over `set`, `send_up`, `send_rest` (or
`get`, `recv_up`, `recv_rest`), unrolled, since each method is run once at most; `st`
and `micro` are the four fields in which it is suspended, `FlavorError` the checks
of `L!+` and `L!-`.  `PlainEvent` and `SharedEvent` are `Step` on
the event of a thread and on one of `MAX_LOCAL_PCS`.  `Gate` is a production
rule of the circuit that joins the two channels, with any delay.  Methods are
what the library of the design says; `FourPhaseType` states what those of a
four-phase channel do, method by method: which wires each leaves, and whether it
waits.  It is no part of the specification, only the hypothesis of theorems, and
`MCChpFragment` has TLC evaluate it on the methods of the instance.

**Elaboration, Design.** `Library` holds what the ACT passes report of each process.
`AddInst`, `Stepped`, `SecondLook` and `Return` are one iteration of `_add_all_inst`, up to
and after its recursive call, with `stack` for the C++ stack; `AddRoot` is
`_initSim`; `Visit`, `Enter` and `Leave` are `computeFanout`.  `reg` collects what `_add_spec`
registers.  `SetBool` of `Design` is `ActSimState::setBool`; the two functions of
`Monitors` are `ActTimingConstraint::update` and `ActExclMonitor::safeChange`.  The
properties never use offsets: they speak of nets, the closure of the
connections of the design, and of specifications as they are written.

**ChpExpr, ChpData.** A value is a `BigInt`, a width and a number; what the library
does with widths is written down as external operators (`Grown`, `Modulo`,
`setWidth`).  `applyBinary`, `applyUnary`, `applyConcat`, `applyBits` and `scalar` are the
cases of `exprEval`; `exprWidth` says which widths have been recorded and which
have not.  `runChp` is `_run_chp`, `funcEval` is `funcEval` and `funcStruct`, `assign` is
an assignment in either interpreter: what differs between the two is in
`assignCell`, `structAssign` and `varEval`.  `Perform`, `Spawn` and `Decide` of `ChpData` are
the cases of `Step`.

## 3. Runs

| run | instance | result |
|---|---|---|
| `channel` | bidirectional channel, 2 values, 3 communications each way, both ends in one process, receiver probes | passes: 6 invariants, 2 liveness properties, refinement of `Rendezvous` |
| `console` | 2 processes, sender probes, 2 communications, 2 commands out of skip-comm and mode | passes: `NeverForgotten` |
| `skip_send` | as above, skip-comm of a send | `SkipIsLocal` is violated |
| `mode_reset` | as above, mode | `ModeIsTransparent` is violated |
| `threads` | 6 programs, at most 3 loop turns | passes: 6 invariants |
| `select` | 3 threads, 3 channels, 1 variable, 3 writes and 3 sends | passes: 4 invariants, 1 liveness property |
| `prs` | source of `test/54.act` with random choice; arbiter, C-element with two drivers and keeper, OR | passes: 6 invariants, refinement of `ProductionRules` |
| `prs_hazards` | 3 gates of strong rules, inputs that change at any time to 0, 1, X | passes: `XIsCleared`, `NotSilentlyWrong` |
| `prs_weak` | a weak pull-up against a pull-down | `Settled` is violated |
| `fragment` | a dual-rail channel with acknowledge (as in `test/46.act`), 2 values, whole or halved, probed or not, CHP or HSE level | passes: 2 invariants, 1 action property, refinement of `Rendezvous` with its liveness |
| `design` | 4 designs of up to 6 objects on 3 levels; `chip` is elaborated and then written to, 4 writes | passes: 4 invariants |
| `data` | 6 texts, all arguments of 2 bits (3 arrays for the text with an array port) | passes: 2 invariants |

Each property has a mutant in `PROJECT.json`: a plausible error in one definition
that makes TLC find the property violated.

### Bounds, and why they are enough

* `MaxComms = 3`: the protocol of one communication leaves no trace except
  `data`, `data2` and `count`; the third one starts from a channel used by each end
  in both roles (first and second to arrive).  Two values tell an old value from a
  new one.  The proofs hold for any number.
* `MaxCmds = 2`: a command and one that meets its effects.
* `threads`: programs chosen so that counters are shared by consecutive forks,
  slots come back out of order, and branches are empty; three turns let a
  loop start again twice after its join.
* `select`: one thread with all kinds of guard, one with a probe and a variable,
  one with the variable only: three writes make the stalls of one round meet
  events of the previous one.
* `MaxQueue = 1`: in a circuit without hazards an object never has two events
  (`OneEvent`), and the environment is not restrained.  In `prs_hazards` it waits while
  an object has two: enough for an event without a handle next to one with.

* `fragment`: `MaxComms` communications per thread, each from idle wires to idle
  wires, so that the second one starts from what the first has left behind.  The
  bits of `Config` give every combination of halves, probe and level.
* `design`: `HighFanout = 2` and `Window = 2` stand for 8 and 10 in `incFanout`, so
  that a list grows beyond the entries that are searched for duplicates: in `bus` an
  object with several drivers is listed twice, which `Wired` permits and `ToldAgain`
  (section 4) shows to be harmless.  How the tables grow is left out.  A
  timing violation takes three writes, one more shows what it leaves behind;
  one X and one tick are enough to tell X from a value and late from early.
  The designs have Booleans, integers, channels, globals, an array element that
  is an alias, shared nodes and a level without a body.
* `data`: words of 2 and 3 bits overflow in every operation; arguments are
  exhaustive for scalars.  Indices reach one past the end of the array.

The designs of `design` avoid what the code is known to get wrong or leaves out
(section 5), the texts of `data` avoid what functions do not support; each is
listed as a hazard or below, so that the properties say what holds otherwise.

### Fairness

The engine runs until its queue is empty, so a posted event is delivered: weak
fairness of each event (`StepEvent`, `WakeEvent`, `SharedEvent`, `PlainEvent`, `Step(g)`), and
of each gate of the circuit in `ChpFragment`, whose events are in the same queue.  `runInit` goes
on to the end of reset: weak fairness of `EndReset`.  Programs, environments and
users owe nothing.  `ConsoleSpec` has no fairness and only safety is checked of
it.  `ProductionRules` promises that a rule that stays allowed fires.

### Findings

1. **skip-comm leaks** (`skip_send`).  `skip_action` is cleared by `varSend` only when
   the action is bidirectional.  In the run a send blocks, is skipped and goes on; the
   next send blocks, and the receive that meets it drops its value, though nobody skipped
   either.  On a bidirectional channel with one skip TLC finds `SkipIsLocal` true.  (A
   receive whose wake-up is still pending when a later send is skipped loses its
   value in the same way; `SkipIsLocal` does not speak of that order of events.)
2. **mode reset repeats a communication** (`mode_reset`).  An event met in reset
   mode is posted again without its flag, so a wake-up becomes a plain event.
3. **an overruled weak rule still fires** (`prs_weak`).  `DO_SET_VAL` does nothing
   when the node already has the value; the contrary event stays pending.

## 4. Proofs

All theorems hold for every value of the constants that satisfies the named
assumptions of the module; TLC evaluates those in every run.

* `ChpChannelProofs`.  `Invariance` proves the inductive invariant `IInv`, from
  which six theorems follow: `TypeCorrect`, `ValuesInOrder`, `NoSlack`, `NeverFails`,
  `NoLostWakeup`, `ProbeStaysTrue`.  None of those is inductive by itself: that a
  woken process finds its value needs to know that the slot was not written in
  between, which needs to know where the other process stands and who counts.
  `IInv` has three parts: `Control` (events, registrations and position of each
  process agree; of two blocked processes one has been woken), `Forward` (what was
  sent, what was received, and what `data` or `data2` holds, by the positions of
  both) and `Backward`, the same for exchanged values.  Each action has a lemma
  per part it can disturb.  `RefinesRendezvous`: initial states and steps map to
  those of `Rendezvous`.  `ConsoleForgetsNobody` is about `ConsoleSpec`, with any
  number of commands in any order, after a fatal_error too.  Commands break most
  of `Control` (events lose their flag, actions are skipped); `ConsoleInv` is what they
  leave of it: an end that is registered has no event, one that is not has
  exactly one, of either kind, and the wait sets hold the registered ends.
* `ChpThreadsProofs`, first part.  `SlotSafety`: `SlotsExclusive` with the part of the
  types that it needs is inductive for every graph.  `ReleaseIsSafe`: a thread that
  ends finds room on the stack.  Were `_pcused` 0, the stack would hold as many
  different free slots as there are slots, one of which is running: a counting
  argument.
* `ChpThreadsProofs`, second part.  `TypeCorrect`, `NeverOverflows` and `JoinsCount` follow
  from `ThreadInv`, whose heart is `Crew`: any two threads are in different branches
  of some fork (`Apart`); at a fork in progress, arrivals and occupied branches add
  up to what the join waits for (`Counted`); a counter that no fork in progress uses
  is 0 (`Cleared`).  `ForkJoin` alone is not inductive: that a fork finds its counter
  at 0 needs that no other fork with the same counter is in progress (`ForkIsFresh`,
  `OneBusy`), which needs to know that threads are apart; and when a thread reaches
  a join as the last one it must be alone inside the fork.  `NeverOverflows` maps
  threads to the different lanes of their nodes (`Lane`, `EnoughSlots`).  Passing over
  nodes without a statement is a recursive function of the node and the counters;
  `SettledIs` and `SettledKeeps` unfold it by induction on the node, because such a
  node leads back in the graph or to a statement.
  The assumption is that each program is `WellBuilt` and `Npc` as large as
  `_max_program_counters` says.  TLC evaluates it on the programs of `threads` and
  `data`, and (`BuilderShape` of `MCChpThreads`) on the graphs that `ChpGraph` builds of all
  programs of two levels over four statements and `skip`, more than 1600.  That
  `ChpGraph` builds such a graph of every program is an induction over programs,
  which is out of the prover's reach.
* `ChpThreadsProofs`, third part.  `InOrder` and `NothingIsStranded`: executions respect
  the text.  A line of control (`InLine` of `ChpProgram`) is a set of nodes from the
  statements it starts after to those it ends with.  No two of its nodes run at
  once; who has completed one of them goes on along it, or ends at a join on its
  behalf; nobody comes to it otherwise; at a fork one branch has it, and the
  join if that branch still has it at the end.  At any time the line is
  held (`OnLine`) by a thread on it, or by a join that its branch has reached and
  others have not (`Waits`); by one of them only (`AloneOnLine`, from `Apart`).  What a
  step does to a line is `LineStep`: it is held afterwards if the node completed goes
  on along it, or if it was held before and the node does not end it.  Lemmas show
  this for a fork, for a thread that moves on, ends at a join or is the last to
  reach it, and for settling.  `LinesInvariant` is then arithmetic: x is one ahead of y
  while the line between them is held, and a statement that must be executed
  has been, unless the line from the first node to it is held.
  The assumptions are that what `Order` and `Must` list are lines of the
  program (`OrderAssumption`, `MustAssumption`; `OrderLine` and `MustLine` compute the
  nodes).  TLC evaluates them for the pairs and statements that `Precedes` and `Mandatory`
  read off the text: of the programs of `threads`, and in `BuilderShape` of all those
  programs of two levels.
* `ChpSelectProofs`.  `SelectInv` says of each thread where it is registered.  A
  blocked one (`Waiting`) is in exactly the probes, the list and the wait set its
  guards call for; one that goes on (`Going`) is in none and has the only event.
  `NothingLeftBehind` follows from `Going`, `NoFailure` from `Waiting`: a channel that
  is claimed is claimed by the one thread that probes it.  `Waiting` has to say
  that a thread without probes has no wake-up on its way, or the entry in `inProbe`
  could outlive the selection.  The two properties of numbers (`WriteReachesAll`,
  `EveryStallCounts`) are inductive once `stalled` is known to hold no thread twice.
* `ChpFragmentProofs`.  `FragmentInvariant` holds for all methods: it uses nothing of
  what a method computes, only that a thread which stops is stalled and one which
  does not goes on.  `Alternates` is the part that is not about counting: a thread
  that is to begin a half finds the flavour of the other half, one that is
  suspended in a half finds its own, so the checks of `varSend` and `varRecv` are
  never failed.  `WakesMatch` follows.
* `ChpFragmentProofs`, second part: every channel type with `FourPhaseType`, whatever
  its wires and code.  Each method is specified where the protocol can enter it:
  at its beginning or at a position where it has waited, on wires that are in the
  phase.  Nothing is asked of it elsewhere, since a method is resumed by any wire of
  the channel, often before the one it waits for.  `PhaseInv` says that the
  data and the acknowledge at both ends go round a ring of eight phases (`Ring`); that
  each end is in the method, and at a position of it, that the phase allows
  (`Tally`); and that a thread resumed in mid-protocol has what it sent or
  received.  The phase is not a variable: it is found from the wires, and each step
  moves it by one or not at all.  During reset it is the first phase, with some
  wires still X.  From it follow `ProbeTellsTheTruth`, `KeepsFourPhase` and
  `RefinesRendezvous`.
* `PrsGatesProofs`.  `TypeCorrect`, by lemmas on each operation on an object, and
  `GroupsExclusive`: exclusion groups are respected in every circuit, hazards
  included.  It rests on types and on one fact: a node takes a value only if
  its rivals have the opposite one at that moment.
* `PrsEventsProofs`, first part.  `XResolved` needs of each object (`Tended`) that the
  flags name an event that is in the queue (`Listed`), that a pending X is justified by
  the rules (`Justified`), and that what the rules ask of a node that is X, and no
  exclusion forbids, has an event no exclusion can refuse (`Pursued`).  Hazards do
  not disturb it.  It does need
  that no weak rule drives a node which is excluded in one direction only: there
  the contrary event can be refused while the overruled one goes through.
* `PrsEventsProofs`, second part.  The properties of circuits without hazards are
  proved of every circuit, with the absence of each hazard as a hypothesis on the
  behaviour: nothing was reported (`~warned`), no X is pending (`NoXPending`; for some
  of them only in reset mode, `ResetWithoutX`, where it is withdrawn in silence), and
  no weak rule is overruled while its change is pending (`NotOverruled`, finding 3).
  `AllOrderly` is then invariant: one event that the flags name, that `_pending` points
  to and that the rules ask for.  From it `NeverSilentlyWrong` and `OneEventEach`;
  `PlainRules` has them without `NotOverruled` for circuits with no weak rule.
* `PrsEventsProofs`, third part.  `RefinesRules`: under these hypotheses and `NothingHidden`
  every change of a node is a rule of `ProductionRules` that fires.  `AllResolved`, which
  holds of every circuit without hypothesis, says that nothing is pending while the
  rules interfere; `NothingHidden` excludes the case that a node of several drivers
  has an opponent the last evaluation did not see.  `RefinesPlainRules` has
  neither of the two, for one driver and no weak rule.
* `PrsEventsProofs`, fourth part: circuits without exclusions.  `_pending` is not
  cleared when an event is taken back, only when one is delivered.  Without exclusions
  that does no harm, hazards or not (`HandlesInvariant`): the handle is stale only
  while the node is X and the flags are clear, and then nothing is taken back.  So
  Remove is called on a stale event (`NeverStale`) only where a change can be killed
  twice with none posted in between; that this does not happen in the circuit of
  `prs`, which has exclusions, is TLC's result.  `RulesSettle` is the second part for
  circuits without exclusions.
* `PrsEventsProofs`, fifth part: the hypotheses speak of the nodes and the rules
  alone.  A change is insisted on when a rule wins and the node is elsewhere, and is
  open when the exclusions allow it.  No rules interfere, but for unknown ones of
  a node that is X during reset (`AllQuiet`); a change that is insisted on and open
  stays so until it is made or an exclusion lets another node have it (`Firm`); no input
  of a gate changes while its change is closed (`Heard`); nothing is closed at the start
  (`Opening`).  Then (`CalmInvariant`) every object has no event, or the one its rules
  insist on and the exclusions leave open, and nothing is reported, exclusions and dice
  included: `NoAlarmIsFalse`, `OneEventWhenCalm` and, with `NothingHidden`,
  `RefinesRulesWhenCalm`.  `RulesSettleWithExclusions` needs that no dice are thrown and
  `Reopened`: what an exclusion closed is open again only with a change of an input,
  for nothing else makes the code look at the gate again (`constraints.cc` 196).
* `PrsEventsProofs`, last part: `ToldAgain`.  `incFanout` may list an object twice for a
  node of many readers, which is then told twice of one change.  The second `propagate`
  on the same values leaves the object as the first has left it, removes no event
  and warns of nothing the first did not.
* TLC finds that the hypotheses of the second and third part hold in every state
  and step of `prs`, and those of the fifth part too (`Reopened` with the dice and
  without), that `NotOverruled` also holds throughout `prs_hazards`, and that the
  circuit of `prs_weak` breaks it.
* `DesignProofs`.  `TimingIsExact` and `ExclIsExact`: whatever is written, in whatever
  order and at whatever times, a constraint reports the writes that violate it and
  no other.  The specification (`Violations`) looks at the whole history of the three
  nodes and is recursive, since a violation ends the search until the root fires
  again; the code keeps one of four states and a time.  `Tracks` relates the two: the
  constraint is active when some firing of the root is still open (`Opens`), and its
  state says which of a and b have come after that (`Summary`).  `ViolationsAre`
  unfolds the recursion and `SameViolations` shows that a longer history says the
  same of its earlier writes, both by a least counterexample.  `UpdateTracks` is the
  step, node by node.
  The hypothesis is `Registered`, what elaboration owes to the run: the constraints
  followed are those of the design, each about three different nodes; their nodes are
  marked, so that `setBool` consults the checks; two cells that are written are two
  nets; the lists of the monitors put the same nodes together as the design does.
  It is part of `Wired`, which the run `design` checks.  A constraint that names a net
  twice, or one that `isDup` takes for another (`constraints.cc` 507), breaks it.

Checked by TLC only:

* everything under fairness (`CommsComplete`, `ProbeWakes`, `GuardServed`, the liveness
  part of the refinements), which is out of the prover's reach;
* that the graph of a program has the shape, and its order of statements the lines,
  that the theorems on `ChpThreads` assume: `ChpGraph` builds it by recursion;
* where there are exclusions `NoStaleRemoval`, and `Settled` when the dice are thrown,
  which are true of the circuit of `prs` because of what it is; and that this circuit
  meets the hypotheses of the theorems;
* that the methods of a given channel type are four-phase, which is evaluated for
  that of `fragment`: the interpreter of `ChanMethods` is recursive over its program;
* of `Design`, that elaboration is right (`Wired`, `DriversCounted`), where nets are a
  closure of the connections; `ChpExpr`, which is recursive.

## 5. Not modelled

* Pass gates, the attribute `unstab`, delays and SDF: every order of events is
  covered instead of the one the delays give.
* A group with a node of several drivers: the program warns that it may not
  work.  Always-true rules of such a node.
* Fragmented channels: exchange in both directions, structures as data, the
  counter behind `chcount`, and channels fragmented at both ends.
* Elaboration: `ActStatePass` and `ActBooleanizePass`, which number variables,
  belong to the ACT library and are constants.  Booleans that only CHP bodies
  use, dataflow bodies, SDF annotation and `initState` are left out.  No design has:
  a local driver next to a sub-circuit that is itself two drivers of the same
  node (the local one is not counted, `core.cc` 2917); two timing constraints on
  the same nodes (the second is dropped whatever its edges, `constraints.cc` 507).
* Data: division and remainder, enumerations, values wider than a machine word,
  channel values, nested structures, arrays of structures, external functions,
  `log`.  Some of what functions do not support ends in a fatal error or an
  Assert and is outside the texts: an array passed on to another function
  (`chpsim.cc` 3364), a field of an array element on the left (2344), a whole
  structure from an array of them (3391 ignores the index).  A function that is
  called only by other functions is never visited by `process_func_body_exprs`
  (`chpgraph.cc` 1116): its complements and differences have the widths their
  operands happen to have.  `Recorded` models this, but in the instance every
  function is also called by a process.
* A selection in which no guard is true waits in a process and is fatal in a
  function; selections of the instance end in else.
* The rounds of `runInit` with `_match_hseprs`; random initial values.
* `inf_loop_opt`; `reStart`, which nothing calls.
* Analogue co-simulation: real-valued wave forms of a foreign simulator.
* `simlib`, traces, the command interpreter: files, printing, parsing.

## 6. Plan

1. Proofs: `NoStaleRemoval` in circuits where a node in a group is told of
   each change of its rivals; that `compile` and `runMethod` make four-phase methods of
   the texts the library has for each of its channel types.
2. `PrsGates`: pass gates, `unstab`; requests that are withdrawn under random
   choice (a stale `_pending` is counted as a competitor, so a change can be
   refused for ever); events that outlive their handle; always-true rules of
   several drivers at `initState`; nodes marked as hazards.
3. `ResetPhase`: `runInit` with its rounds and `_match_hseprs`; random initial values.
4. Dataflow bodies, built by `chpgraph.cc` from graphs of functions and channels.
