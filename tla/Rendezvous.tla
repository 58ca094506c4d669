----------------------------- MODULE Rendezvous -----------------------------
(***************************************************************************)
(* What a CHP channel promises to the two processes that share it, with    *)
(* no simulator behind it: a slack-zero handshake.  The n-th send and the  *)
(* n-th receive meet; neither of the two completes before the other has    *)
(* been issued; the receiver gets the value that was offered.              *)
(* ChpChannel is shown to implement this specification.                    *)
(***************************************************************************)
EXTENDS Naturals, Sequences

CONSTANTS Values,    \* what can be sent
          MaxComms   \* bound on the number of sends, and of receives

VARIABLES
  offered,    \* values of the sends issued so far, in order
  sdone,      \* number of sends that have completed
  requests,   \* number of receives issued so far
  taken       \* values of the receives that have completed, in order

vars == <<offered, sdone, requests, taken>>

TypeOK ==
  /\ offered \in Seq(Values)
  /\ sdone \in Nat
  /\ requests \in Nat
  /\ taken \in Seq(Values)

Init ==
  /\ offered = <<>>
  /\ sdone = 0
  /\ requests = 0
  /\ taken = <<>>

-----------------------------------------------------------------------------
(* The sender offers its next value.  If a receive is already waiting for  *)
(* it the send may complete at once; otherwise the sender waits.           *)
Offer(v) ==
  /\ sdone = Len(offered)
  /\ Len(offered) < MaxComms
  /\ offered' = Append(offered, v)
  /\ \/ sdone' = sdone
     \/ sdone < requests /\ sdone' = sdone + 1
  /\ UNCHANGED <<requests, taken>>

(* A waiting sender learns that its value has been accepted. *)
CompleteSend ==
  /\ sdone < Len(offered)
  /\ sdone < requests
  /\ sdone' = sdone + 1
  /\ UNCHANGED <<offered, requests, taken>>

(* The receiver asks for its next value; an offer already there may be     *)
(* taken at once.                                                          *)
Request ==
  /\ requests = Len(taken)
  /\ requests < MaxComms
  /\ requests' = requests + 1
  /\ \/ taken' = taken
     \/ Len(taken) < Len(offered) /\ taken' = Append(taken, offered[requests'])
  /\ UNCHANGED <<offered, sdone>>

(* A waiting receiver is handed the value of its partner. *)
CompleteReceive ==
  /\ Len(taken) < requests
  /\ Len(taken) < Len(offered)
  /\ taken' = Append(taken, offered[Len(taken) + 1])
  /\ UNCHANGED <<offered, sdone, requests>>

Next ==
  \/ \E v \in Values : Offer(v)
  \/ CompleteSend
  \/ Request
  \/ CompleteReceive

Spec ==
  /\ Init /\ [][Next]_vars
  /\ WF_vars(CompleteSend)
  /\ WF_vars(CompleteReceive)

-----------------------------------------------------------------------------
(* The receiver has taken the first values offered, in the order they were *)
(* offered: nothing is lost, repeated, reordered or invented.              *)
Fifo ==
  /\ Len(taken) <= Len(offered)
  /\ \A i \in 1 .. Len(taken) : taken[i] = offered[i]

(* Slack zero: no send completes before its receive has been issued, and   *)
(* no receive before its send.                                             *)
SlackZero ==
  /\ sdone <= requests
  /\ Len(taken) <= Len(offered)
=============================================================================
