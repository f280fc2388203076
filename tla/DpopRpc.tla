------------------------------- MODULE DpopRpc -------------------------------
(***************************************************************************)
(* DpopRpc::call (dpop_rpc.rs) with the proofs DpopSigner mints for it     *)
(* (auth.rs), against a node that signs the messages it is sent and keeps  *)
(* them in its audit log.  The node, its reverse proxy and the network     *)
(* are external: a request may be delivered late, twice or never, also     *)
(* after its caller is gone; an answer may be lost, and the proxy may      *)
(* answer in the place of the node.                                        *)
(*                                                                         *)
(* request_id is left out: it labels a request and nothing reads it back,  *)
(* because an answer comes on the connection of its request.               *)
(***************************************************************************)
CONSTANTS
  Callers,    \* tasks that share clones of one DpopRpc
  Messages,   \* receipt digests
  Jtis,       \* nonces that can be live at once
  Keys,       \* Ed25519 holder keys
  BoundKey,   \* the key whose thumbprint the bearer JWT is bound to
  NoCall      \* a caller that is in no call

VARIABLES
  key,    \* the signer's holder key
  call,   \* the call each caller is in
  net,    \* requests that may still reach the node
  seen,   \* the node: nonces of the proofs it has accepted and still remembers
  log     \* the node: its audit log, keyed by message digest

rpcVars == <<key, call, net, seen, log>>

------------------------------------------------------------------------------
(* Answers                                                                 *)

Answer(json, ok, error, result) ==
  [json |-> json, ok |-> ok, error |-> error, result |-> result]

NoAnswer    == Answer(FALSE, FALSE, "absent", "none")
Signed      == Answer(TRUE, TRUE, "absent", "signed")
NullError   == Answer(TRUE, TRUE, "null", "signed")
OtherShape  == Answer(TRUE, TRUE, "absent", "other")  \* or no result at all
RpcError    == Answer(TRUE, TRUE, "set", "absent")
HttpError   == Answer(TRUE, FALSE, "absent", "absent")
ProxyPage   == Answer(FALSE, FALSE, "absent", "absent")

\* What may come back when the node has signed, and when it has not.
SignedAnswers  == {Signed, NullError, OtherShape, ProxyPage, NoAnswer}
RefusalAnswers == {RpcError, HttpError, OtherShape, ProxyPage}

Answers == SignedAnswers \cup RefusalAnswers
InCall == [message : Messages, jti : Jtis, answer : Answers]

ASSUME RpcAssumption == BoundKey \in Keys /\ NoCall \notin InCall

\* Mutant: an error member of a JSON-RPC answer is not looked for.
SucceedsUnlessHttpError(a) == a.json /\ a.ok

\* Mutant: whatever has no error member is a success.
SucceedsAnyResult(a) == a.json /\ a.ok /\ a.error = "absent"

\* The checks of `call' after send: the body decodes, the status is 2xx, there
\* is no error member (not even a null one), and the result has the shape of
\* a SignMessageResult.
Succeeds(a) ==
  /\ a.json
  /\ a.ok
  /\ a.error = "absent"
  /\ a.result = "signed"

------------------------------------------------------------------------------
(* The client                                                              *)

Requests == [message : Messages, jti : Jtis, key : Keys]

\* Mutant: a nonce is told from those of the calls under way only.
JtisNotInUse ==
  Jtis \ {call[c].jti : c \in {d \in Callers : call[d] # NoCall}}

\* A random nonce is none of those that still mean something to anybody.
FreshJtis ==
  Jtis \ (seen \cup {q.jti : q \in net}
               \cup {call[c].jti : c \in {d \in Callers : call[d] # NoCall}})

\* mint_proof and send, up to the await of the answer.
CallSends(c, m) ==
  /\ call[c] = NoCall
  /\ \E j \in FreshJtis :
       /\ call' = [call EXCEPT ![c] = [message |-> m, jti |-> j, answer |-> NoAnswer]]
       /\ net' = net \cup {[message |-> m, jti |-> j, key |-> key]}
  /\ UNCHANGED <<key, seen, log>>

\* `call' returns, or is dropped: its request is not taken back.
CallEnds(c) ==
  /\ call[c] # NoCall
  /\ call' = [call EXCEPT ![c] = NoCall]
  /\ UNCHANGED <<key, net, seen, log>>

Answered(c) == call[c] # NoCall /\ call[c].answer # NoAnswer

------------------------------------------------------------------------------
(* The node and the network                                                *)

\* An answer reaches the call its request was sent for, if that one waits;
\* NoAnswer is one that was lost on the way.
Deliver(q, answer) ==
  call' = [c \in Callers |->
             IF call[c] # NoCall /\ call[c].jti = q.jti /\ call[c].answer = NoAnswer
               THEN [call[c] EXCEPT !.answer = answer] ELSE call[c]]

Acceptable(q) == q.key = BoundKey /\ q.jti \notin seen

\* The node has a duplicate of the request still to come, or not.
Consume(q) == net' \in {net, net \ {q}}

NodeSigns(q, answer) ==
  /\ q \in net
  /\ Acceptable(q)
  /\ seen' = seen \cup {q.jti}
  /\ log' = log \cup {q.message}
  /\ Consume(q)
  /\ Deliver(q, answer)
  /\ UNCHANGED key

\* A proof that does not hold is refused; a good one may be, by a node that is
\* overloaded, or whose clock or configured URL does not fit the client's.
NodeRefuses(q) ==
  /\ q \in net
  /\ \E answer \in RefusalAnswers : Deliver(q, answer)
  /\ Consume(q)
  /\ UNCHANGED <<key, seen, log>>

Lose(q) ==
  /\ q \in net
  /\ net' = net \ {q}
  /\ UNCHANGED <<key, call, seen, log>>

\* The window in which the node accepts an iat has passed for every proof
\* there is.  It need not remember their nonces any more, and a request that
\* comes later still can only be refused: to its caller it is lost.
ProofsExpire ==
  /\ net # {} \/ seen # {}
  /\ net' = {}
  /\ seen' = {}
  /\ UNCHANGED <<key, call, log>>

Node ==
  \/ \E q \in net, answer \in SignedAnswers : NodeSigns(q, answer)
  \/ \E q \in net : NodeRefuses(q) \/ Lose(q)
  \/ ProofsExpire

------------------------------------------------------------------------------
RpcInit ==
  /\ key = BoundKey
  /\ call = [c \in Callers |-> NoCall]
  /\ net = {}
  /\ seen = {}
  /\ log = {}

RpcTypeOK ==
  /\ key \in Keys
  /\ call \in [Callers -> InCall \cup {NoCall}]
  /\ net \subseteq Requests
  /\ seen \subseteq Jtis
  /\ log \subseteq Messages

==============================================================================
