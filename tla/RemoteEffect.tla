----------------------------- MODULE RemoteEffect -----------------------------
(***************************************************************************)
(* What a call promises that has its effect on a remote node: abstract,    *)
(* without requests in flight, answers or errors.  The node is asked one or*)
(* more times, and each time the effect happens, once, or never will.  The *)
(* call returns once, and may claim something of the last time it was tried*)
(***************************************************************************)
EXTENDS Naturals

CONSTANTS Calls, MaxTries

VARIABLES
  phase,  \* of each call
  tries,  \* how many times the node was asked
  effect, \* what became of each
  claim   \* what the call says of the last of them

vars == <<phase, tries, effect, claim>>

Tries == 1..MaxTries

Begin(c, n) ==
  /\ phase[c] = "idle"
  /\ phase' = [phase EXCEPT ![c] = "called"]
  /\ tries' = [tries EXCEPT ![c] = n]
  /\ UNCHANGED <<effect, claim>>

Try(c) ==
  /\ phase[c] = "called"
  /\ tries[c] < MaxTries
  /\ tries' = [tries EXCEPT ![c] = @ + 1]
  /\ UNCHANGED <<phase, effect, claim>>

\* Also after the call has returned.
Settle(c, n, e) ==
  /\ n <= tries[c]
  /\ effect[<<c, n>>] = "open"
  /\ effect' = [effect EXCEPT ![<<c, n>>] = e]
  /\ UNCHANGED <<phase, tries, claim>>

True(c, k) ==
  /\ k = "done" => tries[c] > 0 /\ effect[<<c, tries[c]>>] = "done"
  /\ k = "undone" => tries[c] = 0 \/ effect[<<c, tries[c]>>] = "void"

Return(c, k) ==
  /\ phase[c] # "returned"
  /\ True(c, k)
  /\ phase' = [phase EXCEPT ![c] = "returned"]
  /\ claim' = [claim EXCEPT ![c] = k]
  /\ UNCHANGED <<tries, effect>>

Init ==
  /\ phase = [c \in Calls |-> "idle"]
  /\ tries = [c \in Calls |-> 0]
  /\ effect = [r \in Calls \X Tries |-> "open"]
  /\ claim = [c \in Calls |-> "none"]

Next ==
  \E c \in Calls :
    \/ Begin(c, 0) \/ Begin(c, 1) \/ Try(c)
    \/ \E n \in Tries, e \in {"done", "void"} : Settle(c, n, e)
    \/ \E k \in {"done", "undone", "unknown"} : Return(c, k)

Spec == Init /\ [][Next]_vars

==============================================================================
