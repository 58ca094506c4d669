------------------------------ MODULE Monitors ------------------------------
(***************************************************************************)
(* The checks a change of a boolean goes through: exclusion constraints    *)
(* may refuse it; timing constraints root : a < b follow it; exclusion     *)
(* monitors warn of it.  A constraint c is [n, f, margin]: the three       *)
(* nodes, and the transitions of each that count: "both", "up", or "dn".   *)
(* Its state is [is, ts], and ts matters in PENDINGDELAY only.             *)
(***************************************************************************)
EXTENDS Naturals, Sequences, Functions

INACTIVE == "inactive"
START == "start"
PENDING == "pending"            \* b has come first
PENDINGDELAY == "pendingdelay"  \* a has come, at time ts

Idle == [is |-> INACTIVE, ts |-> 0]

Trigger(f, v) == (v = 1 /\ f \in {"both", "up"}) \/ (v = 0 /\ f \in {"both", "dn"})

(* ActTimingConstraint::update, node by node; each returns the state and   *)
(* whether a violation is reported.                                        *)
OnRoot(c, r, sig, v) ==
  IF c.n[1] # sig THEN r
  ELSE [r EXCEPT !.st = [Idle EXCEPT !.is = IF Trigger(c.f[1], v) THEN START ELSE INACTIVE]]

TimesOnce(c, r, sig, v, now) ==  \* mutant: the time is taken at the first a only
  IF c.n[2] # sig \/ r.st.is = INACTIVE \/ ~Trigger(c.f[2], v) THEN r
  ELSE CASE r.st.is = PENDING -> [st |-> Idle, warns |-> TRUE]
         [] r.st.is = START /\ c.margin = 0 -> r
         [] r.st.is = START /\ c.margin # 0 -> [r EXCEPT !.st = [is |-> PENDINGDELAY, ts |-> now]]
         [] OTHER -> r

OnFirst(c, r, sig, v, now) ==
  IF c.n[2] # sig \/ r.st.is = INACTIVE \/ ~Trigger(c.f[2], v) THEN r
  ELSE CASE r.st.is = PENDING -> [st |-> Idle, warns |-> TRUE]
         [] r.st.is = START /\ c.margin = 0 -> r
         [] OTHER -> [r EXCEPT !.st = [is |-> PENDINGDELAY, ts |-> now]]

OnSecond(c, r, sig, v, now) ==
  IF c.n[3] # sig \/ r.st.is = INACTIVE \/ ~Trigger(c.f[3], v) THEN r
  ELSE CASE r.st.is = PENDINGDELAY /\ r.st.ts + c.margin > now -> [st |-> Idle, warns |-> TRUE]
         [] r.st.is = PENDINGDELAY /\ r.st.ts + c.margin <= now -> r
         [] OTHER -> [r EXCEPT !.st = [is |-> PENDING, ts |-> 0]]

update(c, st, sig, v, now, resetMode) ==
  LET r == [st |-> st, warns |-> FALSE] IN
  IF resetMode THEN r
  ELSE OnSecond(c, OnFirst(c, OnRoot(c, r, sig, v), sig, v, now), sig, v, now)

(* safeChange of ActExclConstraint and of ActExclMonitor: no list with the *)
(* node has another node that is not at the opposite value, X included.    *)
UnsafeIfSame(lists, val, n, v) == \* mutant: an unknown node is taken to be safe
  \A l \in Range(lists) : n \in Range(l) =>
    \A m \in Range(l) \ {n} : val[m] # v
SafeChange(lists, val, n, v) ==
  \A l \in Range(lists) : n \in Range(l) =>
    \A m \in Range(l) \ {n} : val[m] = 1 - v
=============================================================================
