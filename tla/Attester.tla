------------------------------- MODULE Attester -------------------------------
(***************************************************************************)
(* TenzroAttester (attester.rs): the node signs a digest with the key of   *)
(* the environment, and checks a signature under the key that comes with   *)
(* it.  Attestations travel between the two calls: their parts may be      *)
(* altered or put together anew, and some come from holders of other keys. *)
(* A signature is whose key made it, and the digest it was made for.       *)
(***************************************************************************)
EXTENDS SdkCall

CONSTANTS
  Receipts,
  Digest,          \* blake3 of the canonical JSON of each receipt
  Unserializable,  \* receipts serde_json refuses
  Unreadable,      \* a proof that is not the JSON of a TenzroProof
  PublicKeys,
  OwnKey           \* that of the signing key of the environment

Digests == {Digest[r] : r \in Receipts}
Signatures == PublicKeys \X Digests
TenzroProof == [signature : Signatures, public_key : PublicKeys]

ASSUME AttesterAssumption ==
  /\ Unserializable \subseteq Receipts
  /\ Unreadable \notin TenzroProof
  /\ OwnKey \in PublicKeys

Attestation ==
  [kind : {"tenzro", "other"}, digest : Digests, proof : TenzroProof \cup {Unreadable}]

------------------------------------------------------------------------------
\* TenzroAttester::new needs a signing key.
MayAttest(c, op) == Ready(c, op) /\ env.signing_key # Unset

SignDigest(c, d) == MayAttest(c, "sign") /\ Send(c, "sign", d)

SignReceipt(c, r) ==
  \/ r \notin Unserializable /\ SignDigest(c, Digest[r])
  \/ r \in Unserializable /\ MayAttest(c, "sign") /\ Return(c, "Failed", "none")

SignReturns(c) ==
  /\ Replied(c, {"sign"})
  /\ Return(c, "Ok", [kind |-> "tenzro", digest |-> Arg(c), proof |-> answer[c][2]])

Verify(c, att) ==
  IF att.kind # "tenzro" \/ att.proof = Unreadable
    THEN Return(c, "Failed", "none")
    ELSE Send(c, "verify", att)

\* Mutant: an answer is taken for a confirmation.
VerifyAnswered(c) == Replied(c, {"verify"}) /\ Return(c, "Ok", "none")

VerifyReturns(c) ==
  /\ Replied(c, {"verify"})
  /\ Return(c, IF answer[c][2] THEN "Ok" ELSE "Invalid", "none")

\* Attestations that a sign has returned.
Attested == {result[s][2] : s \in {q \in Calls : Op(q) = "sign" /\ result[q][1] = "Ok"}}

\* What may be presented: anything that holds no signature of this node's key but
\* those that a sign has returned.  Other holders sign what they like.
Presented ==
  {att \in Attestation :
     \/ att.proof = Unreadable
     \/ att.proof.signature[1] # OwnKey
     \/ \E own \in Attested : att.proof.signature = own.proof.signature}

AttesterCall(c) ==
  \/ \E r \in Receipts : SignReceipt(c, r)
  \/ \E d \in Digests : SignDigest(c, d)
  \/ MayAttest(c, "verify") /\ \E att \in Presented : Verify(c, att)
  \/ SignReturns(c) \/ VerifyReturns(c)

------------------------------------------------------------------------------
(* The node                                                                *)

SignServed(c, n) ==
  /\ Op(c) = "sign"
  /\ Serve(c, n, {[signature |-> <<OwnKey, Arg(c)>>, public_key |-> OwnKey]})

\* A signature holds for the key it is checked under, whosever that is.
Holds(att) == att.proof.signature = <<att.proof.public_key, att.digest>>

VerifyServed(c, n) == Op(c) = "verify" /\ Serve(c, n, {Holds(Arg(c))})

==============================================================================
