------------------------------ MODULE WorkOffer ------------------------------
(***************************************************************************)
(* What WorkBroker::offer promises, with no polling, clock or network: an  *)
(* offer is called, may put tasks on the marketplace, and returns once.    *)
(* A definite result (completed, failed, refused) is the state of a task   *)
(* of that offer at the moment of the return; every other way to return    *)
(* (a deadline, an error, a dropped future) promises nothing about what    *)
(* the marketplace goes on to do.                                          *)
(***************************************************************************)
CONSTANTS Offers, Attempts

VARIABLES status, result

Tasks == Offers \X Attempts
Settled == {"completed", "failed", "cancelled"}

TypeOK ==
  /\ status \in [Tasks -> {"absent", "open"} \cup Settled]
  /\ result \in [Offers -> {"idle", "pending", "unknown"} \cup Settled]

Init ==
  /\ status = [t \in Tasks |-> "absent"]
  /\ result = [o \in Offers |-> "idle"]

Call(o) ==
  /\ result[o] = "idle"
  /\ result' = [result EXCEPT ![o] = "pending"]
  /\ UNCHANGED status

\* The marketplace takes a task of an offer that has been called.
Accept(o, n) ==
  /\ result[o] # "idle"
  /\ status[<<o, n>>] = "absent"
  /\ status' = [status EXCEPT ![<<o, n>>] = "open"]
  /\ UNCHANGED result

\* A task settles, once.
Settle(t, s) ==
  /\ status[t] = "open"
  /\ status' = [status EXCEPT ![t] = s]
  /\ UNCHANGED result

\* A definite return tells the truth about a task of this offer.
Report(o, n) ==
  /\ result[o] = "pending"
  /\ status[<<o, n>>] \in Settled
  /\ result' = [result EXCEPT ![o] = status[<<o, n>>]]
  /\ UNCHANGED status

GiveUp(o) ==
  /\ result[o] = "pending"
  /\ result' = [result EXCEPT ![o] = "unknown"]
  /\ UNCHANGED status

Next ==
  \/ \E o \in Offers : Call(o) \/ GiveUp(o)
  \/ \E o \in Offers, n \in Attempts : Accept(o, n) \/ Report(o, n)
  \/ \E t \in Tasks, s \in Settled : Settle(t, s)

vars == <<status, result>>

Spec == Init /\ [][Next]_vars

==============================================================================
