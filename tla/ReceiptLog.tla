------------------------------ MODULE ReceiptLog ------------------------------
(***************************************************************************)
(* What a receipt sink promises to the one that keeps the receipts:        *)
(* abstract, without calls, requests, keys or restarts.  A receipt is      *)
(* handed over and recorded, once or again; it is acknowledged when it is  *)
(* on record, or given up because it can never be.  Both are final.        *)
(***************************************************************************)
CONSTANTS Receipts, Digest, Unserializable

VARIABLES
  state, \* of each receipt
  log    \* digests on record

vars == <<state, log>>

HandOver(r) ==
  /\ state[r] = "new"
  /\ r \notin Unserializable
  /\ state' = [state EXCEPT ![r] = "handed over"]
  /\ UNCHANGED log

\* Also when it has been recorded before, or acknowledged.
Record(r) ==
  /\ state[r] \in {"handed over", "acked"}
  /\ log' = log \cup {Digest[r]}
  /\ UNCHANGED state

Acknowledge(r) ==
  /\ state[r] = "handed over"
  /\ Digest[r] \in log
  /\ state' = [state EXCEPT ![r] = "acked"]
  /\ UNCHANGED log

GiveUp(r) ==
  /\ state[r] = "new"
  /\ r \in Unserializable
  /\ state' = [state EXCEPT ![r] = "given up"]
  /\ UNCHANGED log

Init ==
  /\ state = [r \in Receipts |-> "new"]
  /\ log = {}

Next == \E r \in Receipts : HandOver(r) \/ Record(r) \/ Acknowledge(r) \/ GiveUp(r)

Spec == Init /\ [][Next]_vars

==============================================================================
