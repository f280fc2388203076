----------------------------- MODULE ReceiptSink -----------------------------
(***************************************************************************)
(* TenzroReceiptSink (receipt_sink.rs) over DpopRpc, below a caller that   *)
(* keeps the receipts: `write' anchors one receipt by having its digest    *)
(* signed.  The sink keeps nothing between two calls, so everything about  *)
(* retries depends on which error `write' returns: the caller (external)   *)
(* writes a receipt again when that is Transient and gives it up when it   *)
(* is Rejected.  `flush' does nothing and has no action here.              *)
(***************************************************************************)
EXTENDS DpopRpc, Naturals

CONSTANTS
  Receipts,
  Digest,          \* blake3 of the canonical JSON of each receipt
  Unserializable,  \* receipts serde_json refuses
  NoReceipt,
  CallerReplays,   \* the caller writes again after Transient
  SeedKept,        \* the holder's seed survives a restart
  MaxRestarts      \* bound

ASSUME SinkAssumption ==
  /\ Digest \in [Receipts -> Messages]
  /\ Unserializable \subseteq Receipts
  /\ NoReceipt \notin Receipts
  /\ CallerReplays \in BOOLEAN
  /\ SeedKept \in BOOLEAN
  /\ MaxRestarts \in Nat

VARIABLES
  status,    \* the caller's record of each receipt
  job,       \* the receipt each caller is writing
  restarts

vars == <<rpcVars, status, job, restarts>>

\* The receipt is to be written: the first time, or again.
Due(r) == status[r] = "new" \/ (CallerReplays /\ status[r] = "failed")

------------------------------------------------------------------------------
(* write                                                                   *)

\* Canonicalisation fails: Rejected, before anything is sent.
WriteRejects(r) ==
  /\ Due(r)
  /\ r \in Unserializable
  /\ status' = [status EXCEPT ![r] = "dropped"]
  /\ UNCHANGED <<rpcVars, job, restarts>>

WriteSends(c, r) ==
  /\ Due(r)
  /\ r \notin Unserializable
  /\ CallSends(c, Digest[r])
  /\ job' = [job EXCEPT ![c] = r]
  /\ status' = [status EXCEPT ![r] = "writing"]
  /\ UNCHANGED restarts

\* Mutant: the caller goes on as if it were still writing.
WriteEndsHeld(c, result) ==
  /\ CallEnds(c)
  /\ status' = [status EXCEPT ![job[c]] = result]
  /\ UNCHANGED <<job, restarts>>

WriteEnds(c, result) ==
  /\ CallEnds(c)
  /\ status' = [status EXCEPT ![job[c]] = result]
  /\ job' = [job EXCEPT ![c] = NoReceipt]
  /\ UNCHANGED restarts

\* Mutant: what the node says no to is Rejected.
ErrorIsRejected(c) == IF call[c].answer.ok THEN "dropped" ELSE "failed"

\* Every error of the call, whatever its cause, is Transient.
ErrorIs(c) == "failed"

WriteReturns(c) ==
  /\ Answered(c)
  /\ IF Succeeds(call[c].answer) THEN WriteEnds(c, "acked")
                                 ELSE WriteEnds(c, ErrorIs(c))

\* The transport fails, or the caller drops the future; there is no timeout.
WriteFails(c) == WriteEnds(c, "failed")

------------------------------------------------------------------------------
(* The process stops and starts again.  The caller's queue is kept; the    *)
(* signer is made from the seed that was kept, or generated.               *)

\* Mutant: the signer is generated again, whatever was kept.
KeyGenerated == {k \in Keys : k # key}

KeyAfterRestart == IF SeedKept THEN {key} ELSE Keys

Restart ==
  /\ restarts < MaxRestarts
  /\ restarts' = restarts + 1
  /\ key' \in KeyAfterRestart
  /\ call' = [c \in Callers |-> NoCall]
  /\ job' = [c \in Callers |-> NoReceipt]
  /\ status' = [r \in Receipts |-> IF status[r] = "writing" THEN "failed" ELSE status[r]]
  /\ UNCHANGED <<net, seen, log>>

------------------------------------------------------------------------------
Init ==
  /\ RpcInit
  /\ status = [r \in Receipts |-> "new"]
  /\ job = [c \in Callers |-> NoReceipt]
  /\ restarts = 0

Next ==
  \/ \E r \in Receipts : WriteRejects(r)
  \/ \E c \in Callers, r \in Receipts : WriteSends(c, r)
  \/ \E c \in Callers : WriteReturns(c) \/ WriteFails(c)
  \/ Restart
  \/ Node /\ UNCHANGED <<status, job, restarts>>

Spec == Init /\ [][Next]_vars

\* The executor runs a `write' that is ready.  Nothing is asked of the network.
ClientFairness ==
  /\ \A r \in Receipts : WF_vars(WriteRejects(r))
  /\ \A c \in Callers : WF_vars(WriteReturns(c))

ClientFairSpec == Spec /\ ClientFairness

\* Time passes, and a write that gets no answer is given up by the transport or
\* by the caller.  The caller keeps writing and the link keeps coming back: of
\* the writes of a receipt, some request is signed and answered, and some such
\* answer is read before the transport fails.
SomeSend(r)   == \E c \in Callers : WriteSends(c, r)
SomeSigned(r) ==
  \E c \in Callers, q \in net :
    /\ job[c] = r /\ ~Answered(c) /\ call[c].jti = q.jti
    /\ NodeSigns(q, Signed)
    /\ UNCHANGED <<status, job, restarts>>
SomeAck(r) == \E c \in Callers : job[c] = r /\ WriteReturns(c) /\ status'[r] = "acked"

LinkFairness ==
  /\ WF_vars(ProofsExpire /\ UNCHANGED <<status, job, restarts>>)
  /\ \A c \in Callers : WF_vars(~Answered(c) /\ WriteFails(c))
  /\ \A r \in Receipts \ Unserializable :
       SF_vars(SomeSend(r)) /\ SF_vars(SomeSigned(r)) /\ SF_vars(SomeAck(r))

FairSpec == ClientFairSpec /\ LinkFairness

------------------------------------------------------------------------------
(* Properties                                                              *)

\* Every variable has its type, and a caller is in a call exactly while it
\* writes a receipt.
TypeOK ==
  /\ RpcTypeOK
  /\ status \in [Receipts -> {"new", "writing", "failed", "acked", "dropped"}]
  /\ job \in [Callers -> Receipts \cup {NoReceipt}]
  /\ restarts \in 0..MaxRestarts
  /\ \A c \in Callers : job[c] = NoReceipt <=> call[c] = NoCall

\* A receipt `write' has answered Ok for is in the audit log of the node under
\* its own digest, whatever was lost, duplicated, delayed past the proof's
\* window or answered by the proxy, and however many writes were under way.
AckedIsLogged ==
  \A r \in Receipts : status[r] = "acked" => Digest[r] \in log

\* The caller gives a receipt up only when no write of it could ever succeed:
\* a refusal, a malformed answer or a broken link never costs a receipt.
OnlyUnsendableDropped ==
  \A r \in Receipts : status[r] = "dropped" => r \in Unserializable

\* The node has no reason to refuse the request of a write under way: its proof is
\* of the bound key, also after a restart, and its nonce has not been used by an
\* earlier attempt or another caller.  If it has been used, then by this very
\* write, whose digest is then on record.
RetryIsAccepted ==
  SeedKept =>
    \A q \in net, c \in Callers :
      call[c] # NoCall /\ call[c].jti = q.jti => Acceptable(q) \/ Digest[job[c]] \in log

\* While the link keeps coming back, every receipt that can be sent is in the
\* end acknowledged, across restarts and expired proofs: a retry is never
\* refused for the sake of an earlier attempt.
EventuallyAnchored ==
  \A r \in Receipts \ Unserializable : <>(status[r] = "acked")

\* README.md:131: a receipt whose write failed is queued and flushed when the
\* link is back.
QueuedAndFlushed ==
  \A r \in Receipts : status[r] = "failed" ~> status[r] = "acked"

\* client.rs:38, 46: there is a per-request timeout.  A write that has been
\* sent returns, answered or not.
WriteTimesOut ==
  \A c \in Callers : job[c] # NoReceipt ~> job[c] = NoReceipt

------------------------------------------------------------------------------
(* The sink and its caller implement ReceiptLog: nothing is on record that *)
(* was not handed over, what is acknowledged is on record, and no failure, *)
(* retry or restart takes an acknowledgement back.                         *)

State(r) ==
  CASE status[r] = "new"                   -> "new"
    [] status[r] \in {"writing", "failed"} -> "handed over"
    [] status[r] = "acked"                 -> "acked"
    [] status[r] = "dropped"               -> "given up"

Promise == INSTANCE ReceiptLog WITH state <- [r \in Receipts |-> State(r)]

ImplementsReceiptLog == Promise!Spec

==============================================================================
