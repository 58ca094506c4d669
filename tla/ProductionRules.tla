-------------------------- MODULE ProductionRules --------------------------
(***************************************************************************)
(* What a set of production rules means, with no simulator behind it: a    *)
(* rule guard -> node := to fires, at some time after its guard has become *)
(* true, if it is not opposed and no exclusion forbids it.  There are no   *)
(* events, delays, or pending changes.  PrsGates is shown to implement     *)
(* this for circuits without hazards.                                      *)
(***************************************************************************)
EXTENDS Naturals, Sequences, Functions

CONSTANTS
  Node,           \* Booleans
  Rule,           \* [node, to, guard, weak]; a guard is an OR of ANDs of literals
  ExclHi, ExclLo, \* sequences of sets of nodes
  Stimuli         \* what the environment may do: [node, to, when]

VARIABLE val      \* node -> 0, 1 or 2, which is X
vars == val

Init == val = [n \in Node |-> 2]

On(r) == \E conj \in r.guard : \A l \in conj : val[l.node] = l.is
MayBeOn(r) == \E conj \in r.guard : \A l \in conj : val[l.node] # 1 - l.is

Opposed(r) ==
  \E q \in Rule : /\ q.node = r.node /\ q.to # r.to
                  /\ MayBeOn(q) /\ (r.weak \/ ~q.weak)

Excluded(n, to) ==
  \E S \in Range(IF to = 1 THEN ExclHi ELSE ExclLo) :
    n \in S /\ \E m \in S \ {n} : val[m] # 1 - to

Fire(r) ==
  /\ val[r.node] # r.to
  /\ On(r)
  /\ ~Opposed(r)
  /\ ~Excluded(r.node, r.to)
  /\ val' = [val EXCEPT ![r.node] = r.to]

Input(s) ==
  /\ val[s.node] # s.to
  /\ \A n \in DOMAIN s.when : val[n] = s.when[n]
  /\ val' = [val EXCEPT ![s.node] = s.to]

Next == (\E r \in Rule : Fire(r)) \/ (\E s \in Stimuli : Input(s))

(* A rule that goes on being allowed to fire does fire. *)
Spec == Init /\ [][Next]_vars /\ \A r \in Rule : WF_vars(Fire(r))
=============================================================================
