-------------------------- MODULE ReceiptSinkProofs --------------------------
(***************************************************************************)
(* Theorems about ReceiptSink, for any callers, receipts, digests and      *)
(* nonces, with and without a caller that replays or a seed that is kept.  *)
(***************************************************************************)
EXTENDS ReceiptSink, TLAPS

\* A call carries the digest of the receipt its caller writes, and a result of
\* the right shape comes only from a node that has logged that digest.
CallInv(c) ==
  call[c] # NoCall =>
    /\ call[c].message = Digest[job[c]]
    /\ call[c].answer.result = "signed" => call[c].message \in log

\* A request in the network has left the call of its nonce, if that one is
\* still waiting, with the same message.
NetInv ==
  \A q \in net, c \in Callers :
    call[c] # NoCall /\ call[c].jti = q.jti => call[c].message = q.message

IInv ==
  /\ TypeOK
  /\ \A c \in Callers : CallInv(c)
  /\ NetInv
  /\ AckedIsLogged
  /\ OnlyUnsendableDropped

------------------------------------------------------------------------------
(* Facts about answers and calls                                           *)

\* Only a result of the right shape counts as a success.
LEMMA SuccessIsSigned ==
  ASSUME NEW a, Succeeds(a) PROVE a.result = "signed"
BY DEF Succeeds

\* A call in progress is a record, so it is not NoCall.
LEMMA InCallIsCall == \A x \in InCall : x # NoCall
BY RpcAssumption

LEMMA NoAnswerType == NoAnswer \in Answers /\ NoAnswer.result = "none"
BY DEF NoAnswer, Answer, Answers, SignedAnswers

\* A refusal never has a result of the right shape.
LEMMA RefusalHasNoResult ==
  \A a \in RefusalAnswers : a \in Answers /\ a.result # "signed"
BY DEF RefusalAnswers, RpcError, HttpError, OtherShape, ProxyPage, Answer, Answers

\* What Deliver does to one call.
LEMMA Delivered ==
  ASSUME RpcTypeOK, NEW q \in net, NEW a \in Answers, Deliver(q, a), NEW c \in Callers
  PROVE  \/ call'[c] = call[c]
         \/ /\ call[c] # NoCall
            /\ call[c].jti = q.jti
            /\ call'[c] \in InCall
            /\ call'[c].message = call[c].message
            /\ call'[c].jti = call[c].jti
            /\ call'[c].answer = a
<1>1. call[c] # NoCall => call[c] \in InCall
  BY DEF RpcTypeOK
<1>2. CASE call[c] # NoCall /\ call[c].jti = q.jti /\ call[c].answer = NoAnswer
  <2>1. call'[c] = [call[c] EXCEPT !.answer = a]
    BY <1>2 DEF Deliver
  <2>2. call'[c] = [message |-> call[c].message, jti |-> call[c].jti, answer |-> a]
    BY <1>1, <1>2, <2>1 DEF InCall
  <2> QED BY <1>1, <1>2, <2>2 DEF InCall
<1>3. CASE ~(call[c] # NoCall /\ call[c].jti = q.jti /\ call[c].answer = NoAnswer)
  BY <1>3 DEF Deliver
<1> QED BY <1>2, <1>3

------------------------------------------------------------------------------
(* One lemma for each kind of step                                         *)

LEMMA InvInitial == Init => IInv
BY RpcAssumption, SinkAssumption
  DEF Init, RpcInit, IInv, TypeOK, RpcTypeOK, CallInv, NetInv, AckedIsLogged,
      OnlyUnsendableDropped

\* The node's steps: an answer that will count comes with its log entry.
LEMMA NodeKeepsInv ==
  IInv /\ Node /\ UNCHANGED <<status, job, restarts>> => IInv'
<1> SUFFICES ASSUME IInv, Node, UNCHANGED <<status, job, restarts>> PROVE IInv'
  OBVIOUS
<1>1. ASSUME NEW q \in net, NEW a \in Answers, Deliver(q, a),
             net' \subseteq net, key' = key, seen' \subseteq Jtis,
             log \subseteq log', log' \subseteq Messages,
             a.result = "signed" => q.message \in log'
      PROVE  IInv'
  <2>1. RpcTypeOK
    BY DEF IInv, TypeOK
  <2>2. \A c \in Callers :
          /\ call'[c] \in InCall \cup {NoCall}
          /\ call'[c] = NoCall <=> call[c] = NoCall
          /\ call'[c] # NoCall =>
               /\ call'[c].message = call[c].message
               /\ call'[c].jti = call[c].jti
               /\ call'[c].answer = call[c].answer
                    \/ (call[c].jti = q.jti /\ call'[c].answer = a)
    BY <1>1, <2>1, Delivered, InCallIsCall DEF RpcTypeOK
  <2>3. call' \in [Callers -> InCall \cup {NoCall}]
    BY <1>1, <2>2 DEF Deliver
  <2>4. TypeOK'
    BY <1>1, <2>1, <2>2, <2>3 DEF IInv, TypeOK, RpcTypeOK
  <2>5. \A c \in Callers : CallInv(c)'
    BY <1>1, <2>2 DEF IInv, CallInv, NetInv
  <2>6. NetInv'
    BY <1>1, <2>2 DEF IInv, NetInv
  <2>7. AckedIsLogged' /\ OnlyUnsendableDropped'
    BY <1>1 DEF IInv, AckedIsLogged, OnlyUnsendableDropped
  <2> QED BY <2>4, <2>5, <2>6, <2>7 DEF IInv
<1>2. ASSUME NEW q \in net, NEW a \in SignedAnswers, NodeSigns(q, a) PROVE IInv'
  <2>1. a \in Answers /\ q \in Requests
    BY DEF Answers, IInv, TypeOK, RpcTypeOK
  <2>2. net' \subseteq net /\ seen' \subseteq Jtis /\ log' = log \cup {q.message}
    BY <1>2, <2>1 DEF NodeSigns, Consume, IInv, TypeOK, RpcTypeOK, Requests
  <2>3. log' \subseteq Messages
    BY <2>1, <2>2 DEF IInv, TypeOK, RpcTypeOK, Requests
  <2> QED BY <1>1, <1>2, <2>1, <2>2, <2>3 DEF NodeSigns
<1>3. ASSUME NEW q \in net, NodeRefuses(q) PROVE IInv'
  <2>1. PICK a \in RefusalAnswers : Deliver(q, a)
    BY <1>3 DEF NodeRefuses
  <2>2. net' \subseteq net /\ key' = key /\ seen' = seen /\ log' = log
    BY <1>3 DEF NodeRefuses, Consume
  <2> QED BY <1>1, <2>1, <2>2, RefusalHasNoResult DEF IInv, TypeOK, RpcTypeOK
<1>4. ASSUME (\E q \in net : Lose(q)) \/ ProofsExpire PROVE IInv'
  BY <1>4 DEF Lose, ProofsExpire, IInv, TypeOK, RpcTypeOK, CallInv, NetInv,
    AckedIsLogged, OnlyUnsendableDropped
<1> QED BY <1>2, <1>3, <1>4 DEF Node

\* A call is sent with a nonce that no other call and no request has.
LEMMA SendKeepsInv ==
  ASSUME IInv, NEW c \in Callers, NEW r \in Receipts, WriteSends(c, r)
  PROVE  IInv'
<1>1. PICK j \in FreshJtis :
        /\ call' = [call EXCEPT ![c] =
                     [message |-> Digest[r], jti |-> j, answer |-> NoAnswer]]
        /\ net' = net \cup {[message |-> Digest[r], jti |-> j, key |-> key]}
  BY DEF WriteSends, CallSends
<1> DEFINE new == [message |-> Digest[r], jti |-> j, answer |-> NoAnswer]
           req == [message |-> Digest[r], jti |-> j, key |-> key]
<1>2. /\ new \in InCall /\ new # NoCall /\ req \in Requests
      /\ new.message = Digest[r] /\ new.jti = j /\ new.answer.result = "none"
      /\ req.message = Digest[r] /\ req.jti = j
  BY SinkAssumption, NoAnswerType, InCallIsCall
    DEF InCall, Requests, FreshJtis, IInv, TypeOK, RpcTypeOK
<1>3. /\ \A q \in net : q.jti # j
      /\ \A d \in Callers : call[d] # NoCall => call[d].jti # j
  BY DEF FreshJtis
<1>4. UNCHANGED <<key, seen, log, restarts>>
  BY DEF WriteSends, CallSends
<1>5. job' = [job EXCEPT ![c] = r] /\ status' = [status EXCEPT ![r] = "writing"]
  BY DEF WriteSends
<1> HIDE DEF new, req
<1>6. TypeOK'
  BY <1>1, <1>2, <1>4, <1>5, SinkAssumption DEF IInv, TypeOK, RpcTypeOK, new, req
<1>7. \A d \in Callers : call'[d] = IF d = c THEN new ELSE call[d]
  BY <1>1 DEF IInv, TypeOK, RpcTypeOK, new
<1>8. \A d \in Callers : CallInv(d)'
  BY <1>2, <1>4, <1>5, <1>7 DEF IInv, TypeOK, CallInv
<1>9. NetInv'
  BY <1>1, <1>2, <1>3, <1>7 DEF IInv, NetInv, req
<1>10. AckedIsLogged' /\ OnlyUnsendableDropped'
  BY <1>4, <1>5 DEF IInv, TypeOK, AckedIsLogged, OnlyUnsendableDropped
<1> QED BY <1>6, <1>8, <1>9, <1>10 DEF IInv

\* The end of a write is an acknowledgement only if the node has the digest.
LEMMA EndKeepsInv ==
  ASSUME IInv, NEW c \in Callers, NEW result \in {"acked", "failed"},
         WriteEnds(c, result), result = "acked" => Succeeds(call[c].answer)
  PROVE  IInv'
<1>1. /\ call[c] # NoCall
      /\ call' = [call EXCEPT ![c] = NoCall]
      /\ job' = [job EXCEPT ![c] = NoReceipt]
      /\ status' = [status EXCEPT ![job[c]] = result]
      /\ UNCHANGED <<key, net, seen, log, restarts>>
  BY DEF WriteEnds, CallEnds
<1>2. job[c] \in Receipts
  BY <1>1 DEF IInv, TypeOK
<1>3. result = "acked" => Digest[job[c]] \in log
  BY <1>1, SuccessIsSigned DEF IInv, CallInv
<1>4. TypeOK'
  BY <1>1, <1>2 DEF IInv, TypeOK, RpcTypeOK
<1>5. \A d \in Callers : CallInv(d)'
  BY <1>1 DEF IInv, TypeOK, RpcTypeOK, CallInv
<1>6. NetInv'
  BY <1>1 DEF IInv, TypeOK, RpcTypeOK, NetInv
<1>7. AckedIsLogged' /\ OnlyUnsendableDropped'
  BY <1>1, <1>2, <1>3 DEF IInv, TypeOK, AckedIsLogged, OnlyUnsendableDropped
<1> QED BY <1>4, <1>5, <1>6, <1>7 DEF IInv

\* A restart forgets every call; what the node holds, it keeps.
LEMMA RestartKeepsInv == IInv /\ Restart => IInv'
<1> SUFFICES ASSUME IInv, Restart PROVE IInv'
  OBVIOUS
<1>1. KeyAfterRestart \subseteq Keys
  BY DEF KeyAfterRestart, IInv, TypeOK, RpcTypeOK
<1>2. TypeOK'
  BY <1>1, SinkAssumption DEF Restart, IInv, TypeOK, RpcTypeOK
<1>3. (\A c \in Callers : CallInv(c)') /\ NetInv'
  BY DEF Restart, CallInv, NetInv
<1>4. AckedIsLogged' /\ OnlyUnsendableDropped'
  BY DEF Restart, IInv, TypeOK, AckedIsLogged, OnlyUnsendableDropped
<1> QED BY <1>2, <1>3, <1>4 DEF IInv

LEMMA InvInductive == IInv /\ [Next]_vars => IInv'
<1> SUFFICES ASSUME IInv, [Next]_vars PROVE IInv'
  OBVIOUS
<1>1. ASSUME NEW r \in Receipts, WriteRejects(r) PROVE IInv'
  BY <1>1 DEF WriteRejects, rpcVars, IInv, TypeOK, RpcTypeOK, CallInv, NetInv,
    AckedIsLogged, OnlyUnsendableDropped
<1>2. ASSUME NEW c \in Callers, NEW r \in Receipts, WriteSends(c, r) PROVE IInv'
  BY <1>2, SendKeepsInv
<1>3. ASSUME NEW c \in Callers, WriteReturns(c) \/ WriteFails(c) PROVE IInv'
  BY <1>3, EndKeepsInv DEF WriteReturns, WriteFails, ErrorIs
<1>4. CASE Restart
  BY <1>4, RestartKeepsInv
<1>5. CASE Node /\ UNCHANGED <<status, job, restarts>>
  BY <1>5, NodeKeepsInv
<1>6. CASE UNCHANGED vars
  BY <1>6 DEF vars, rpcVars, IInv, TypeOK, RpcTypeOK, CallInv, NetInv, AckedIsLogged,
    OnlyUnsendableDropped
<1> QED BY <1>1, <1>2, <1>3, <1>4, <1>5, <1>6 DEF Next

------------------------------------------------------------------------------
(* Theorems                                                                *)

\* IInv is an inductive invariant of the sink.
THEOREM Invariance == Spec => []IInv
BY InvInitial, InvInductive, PTL DEF Spec

\* Every variable keeps its type, and a caller is in a call while it writes.
THEOREM TypeCorrect == Spec => []TypeOK
<1>1. IInv => TypeOK
  BY DEF IInv
<1> QED BY Invariance, <1>1, PTL

\* A write that returned Ok has left the digest in the node's audit log.
THEOREM AcknowledgedIsLogged == Spec => []AckedIsLogged
<1>1. IInv => AckedIsLogged
  BY DEF IInv
<1> QED BY Invariance, <1>1, PTL

\* No failure of the link or the node makes the caller give a receipt up.
THEOREM NothingSendableIsDropped == Spec => []OnlyUnsendableDropped
<1>1. IInv => OnlyUnsendableDropped
  BY DEF IInv
<1> QED BY Invariance, <1>1, PTL

------------------------------------------------------------------------------
(* Retries                                                                 *)

\* With the seed, every proof is of the bound key; and a nonce that a call uses has
\* been seen by the node only on a request of that call, whose message it logged.
RetryInv ==
  /\ SeedKept => key = BoundKey /\ \A q \in net : q.key = BoundKey
  /\ \A c \in Callers : call[c] # NoCall /\ call[c].jti \in seen => call[c].message \in log

LEMMA RetryInductive == IInv /\ RetryInv /\ [Next]_vars => RetryInv'
<1> SUFFICES ASSUME IInv, RetryInv, [Next]_vars PROVE RetryInv'
  OBVIOUS
<1>0. RpcTypeOK
  BY DEF IInv, TypeOK
<1>1. ASSUME NEW r \in Receipts, WriteRejects(r) PROVE RetryInv'
  BY <1>1 DEF WriteRejects, rpcVars, RetryInv
<1>2. ASSUME NEW c \in Callers, NEW r \in Receipts, WriteSends(c, r) PROVE RetryInv'
  <2>1. PICK j \in FreshJtis :
          /\ call' = [call EXCEPT ![c] =
                       [message |-> Digest[r], jti |-> j, answer |-> NoAnswer]]
          /\ net' = net \cup {[message |-> Digest[r], jti |-> j, key |-> key]}
    BY <1>2 DEF WriteSends, CallSends
  <2>2. UNCHANGED <<key, seen, log>> /\ j \notin seen
    BY <1>2 DEF WriteSends, CallSends, FreshJtis
  <2>3. \A d \in Callers : call'[d] = call[d] \/ call'[d].jti = j
    BY <1>0, <2>1 DEF RpcTypeOK
  <2>4. \A q \in net' : q \in net \/ q.key = key
    BY <2>1
  <2> QED BY <2>2, <2>3, <2>4 DEF RetryInv
<1>3. ASSUME NEW c \in Callers, WriteReturns(c) \/ WriteFails(c) PROVE RetryInv'
  <2>1. UNCHANGED <<key, net, seen, log>> /\ call' = [call EXCEPT ![c] = NoCall]
    BY <1>3 DEF WriteReturns, WriteFails, WriteEnds, CallEnds
  <2>2. \A d \in Callers : call'[d] = call[d] \/ call'[d] = NoCall
    BY <1>0, <2>1 DEF RpcTypeOK
  <2> QED BY <2>1, <2>2 DEF RetryInv
<1>4. CASE Restart
  BY <1>4 DEF Restart, KeyAfterRestart, RetryInv
<1>5. CASE Node /\ UNCHANGED <<status, job, restarts>>
  <2>1. ASSUME NEW q \in net, NEW a \in Answers, Deliver(q, a), key' = key, net' \subseteq net,
               \/ seen' = seen /\ log' = log
               \/ seen' = seen \cup {q.jti} /\ log' = log \cup {q.message}
        PROVE  RetryInv'
    <3>1. \A d \in Callers :
            call'[d] # NoCall =>
              call[d] # NoCall /\ call'[d].jti = call[d].jti /\ call'[d].message = call[d].message
      BY <1>0, <2>1, Delivered
    <3>2. \A d \in Callers :
            call'[d] # NoCall /\ call'[d].jti \in seen' => call'[d].message \in log'
      BY <2>1, <3>1 DEF RetryInv, IInv, NetInv
    <3> QED BY <2>1, <3>2 DEF RetryInv
  <2>2. ASSUME NEW q \in net, NEW a \in SignedAnswers, NodeSigns(q, a) PROVE RetryInv'
    BY <2>1, <2>2 DEF NodeSigns, Consume, Answers
  <2>3. ASSUME NEW q \in net, NodeRefuses(q) PROVE RetryInv'
    <3>1. PICK a \in RefusalAnswers : Deliver(q, a)
      BY <2>3 DEF NodeRefuses
    <3> QED BY <2>1, <2>3, <3>1 DEF NodeRefuses, Consume, Answers
  <2>4. ASSUME (\E q \in net : Lose(q)) \/ ProofsExpire PROVE RetryInv'
    BY <2>4 DEF Lose, ProofsExpire, RetryInv
  <2> QED BY <1>5, <2>2, <2>3, <2>4 DEF Node
<1>6. CASE UNCHANGED vars
  BY <1>6 DEF vars, rpcVars, RetryInv
<1> QED BY <1>1, <1>2, <1>3, <1>4, <1>5, <1>6 DEF Next

\* No earlier attempt and no restart makes the node refuse a write: for any number of
\* callers, retries and restarts.
THEOREM RetriesAreAccepted == Spec => []RetryIsAccepted
<1>1. Init => RetryInv
  BY DEF Init, RpcInit, RetryInv
<1>2. IInv /\ RetryInv => RetryIsAccepted
  BY DEF IInv, CallInv, RetryInv, RetryIsAccepted, Acceptable
<1> QED BY <1>1, <1>2, RetryInductive, Invariance, PTL DEF Spec

------------------------------------------------------------------------------
(* Refinement                                                              *)

\* A receipt is written by one caller at a time and by no other step changed, one
\* that cannot be sent never is, and what is in the network was handed over.
HandedInv ==
  /\ \A c \in Callers : job[c] # NoReceipt => status[job[c]] = "writing"
  /\ \A c, d \in Callers : c # d /\ job[c] # NoReceipt => job[c] # job[d]
  /\ \A r \in Unserializable : status[r] \in {"new", "dropped"}
  /\ \A q \in net : \E r \in Receipts \ Unserializable :
       status[r] # "new" /\ q.message = Digest[r]

LEMMA HandedInductive == IInv /\ HandedInv /\ [Next]_vars => HandedInv'
<1> SUFFICES ASSUME IInv, HandedInv, [Next]_vars PROVE HandedInv'
  OBVIOUS
<1>0. /\ status \in [Receipts -> {"new", "writing", "failed", "acked", "dropped"}]
      /\ job \in [Callers -> Receipts \cup {NoReceipt}]
      /\ NoReceipt \notin Receipts /\ Unserializable \subseteq Receipts
  BY SinkAssumption DEF IInv, TypeOK
<1>1. ASSUME NEW r \in Receipts, WriteRejects(r) PROVE HandedInv'
  <2>1. /\ status' = [status EXCEPT ![r] = "dropped"] /\ job' = job /\ net' = net
        /\ status[r] # "writing"
    BY <1>1 DEF WriteRejects, Due, rpcVars
  <2> QED BY <1>0, <2>1 DEF HandedInv
<1>2. ASSUME NEW c \in Callers, NEW r \in Receipts, WriteSends(c, r) PROVE HandedInv'
  <2>1. PICK j \in FreshJtis : net' = net \cup {[message |-> Digest[r], jti |-> j, key |-> key]}
    BY <1>2 DEF WriteSends, CallSends
  <2>2. /\ status' = [status EXCEPT ![r] = "writing"] /\ job' = [job EXCEPT ![c] = r]
        /\ status[r] # "writing" /\ r \notin Unserializable
    BY <1>2 DEF WriteSends, Due
  <2>3. \A d \in Callers : job[d] # r
    BY <1>0, <2>2 DEF HandedInv
  <2>4. /\ \A d \in Callers : job'[d] # NoReceipt => status'[job'[d]] = "writing"
        /\ \A d, e \in Callers : d # e /\ job'[d] # NoReceipt => job'[d] # job'[e]
        /\ \A s \in Unserializable : status'[s] \in {"new", "dropped"}
    BY <1>0, <2>2, <2>3 DEF HandedInv
  <2>5. ASSUME NEW q \in net'
        PROVE  \E s \in Receipts \ Unserializable : status'[s] # "new" /\ q.message = Digest[s]
    <3>1. CASE q \in net
      BY <1>0, <2>2, <3>1 DEF HandedInv
    <3>2. CASE q.message = Digest[r]
      BY <1>0, <2>2, <3>2
    <3> QED BY <2>1, <3>1, <3>2
  <2> QED BY <2>4, <2>5 DEF HandedInv
<1>3. ASSUME NEW c \in Callers, NEW result \in {"acked", "failed"}, WriteEnds(c, result)
      PROVE  HandedInv'
  <2>1. /\ status' = [status EXCEPT ![job[c]] = result] /\ job' = [job EXCEPT ![c] = NoReceipt]
        /\ net' = net /\ job[c] # NoReceipt
    BY <1>3 DEF WriteEnds, CallEnds, IInv, TypeOK
  <2>2. job[c] \in Receipts \ Unserializable
    BY <1>0, <2>1 DEF HandedInv
  <2> QED BY <1>0, <2>1, <2>2 DEF HandedInv
<1>4. CASE Restart
  BY <1>0, <1>4 DEF Restart, HandedInv
<1>5. CASE Node /\ UNCHANGED <<status, job, restarts>>
  <2>1. net' \subseteq net
    BY <1>5 DEF Node, NodeSigns, NodeRefuses, Consume, Lose, ProofsExpire
  <2> QED BY <1>5, <2>1 DEF HandedInv
<1>6. CASE UNCHANGED vars
  BY <1>6 DEF vars, rpcVars, HandedInv
<1> QED BY <1>1, <1>2, <1>3, <1>4, <1>5, <1>6 DEF Next, WriteReturns, WriteFails, ErrorIs

states == [r \in Receipts |-> State(r)]

LEMMA StepRefines ==
  ASSUME IInv, HandedInv, [Next]_vars
  PROVE  [Promise!Next]_(Promise!vars)
<1>0. /\ status \in [Receipts -> {"new", "writing", "failed", "acked", "dropped"}]
      /\ job \in [Callers -> Receipts \cup {NoReceipt}]
  BY DEF IInv, TypeOK
<1>1. ASSUME status' = status PROVE states' = states
  BY <1>1 DEF states, State
<1>2. ASSUME NEW r \in Receipts, NEW s, status' = [status EXCEPT ![r] = s]
      PROVE  states' = [states EXCEPT ![r] = State(r)']
  <2>1. \A d \in Receipts \ {r} : State(d)' = State(d)
    BY <1>0, <1>2 DEF State
  <2> QED BY <2>1 DEF states
<1>3. ASSUME NEW r \in Receipts, WriteRejects(r) PROVE Promise!GiveUp(r)
  <2>1. /\ status' = [status EXCEPT ![r] = "dropped"] /\ log' = log
        /\ r \in Unserializable /\ status[r] = "new"
    BY <1>3 DEF WriteRejects, Due, rpcVars, HandedInv
  <2>2. State(r) = "new" /\ State(r)' = "given up"
    BY <1>0, <2>1 DEF State
  <2> QED BY <1>2, <2>1, <2>2 DEF Promise!GiveUp, states
<1>4. ASSUME NEW c \in Callers, NEW r \in Receipts, WriteSends(c, r)
      PROVE  Promise!HandOver(r) \/ UNCHANGED Promise!vars
  <2>1. /\ status' = [status EXCEPT ![r] = "writing"] /\ log' = log
        /\ r \notin Unserializable /\ status[r] \in {"new", "failed"}
    BY <1>4 DEF WriteSends, CallSends, Due
  <2>2. State(r)' = "handed over" /\ State(r) \in {"new", "handed over"}
    BY <1>0, <2>1 DEF State
  <2>3. states' = [states EXCEPT ![r] = "handed over"]
    BY <1>2, <2>1, <2>2
  <2> QED BY <2>1, <2>2, <2>3 DEF Promise!HandOver, Promise!vars, states
<1>5. ASSUME NEW c \in Callers, NEW result \in {"acked", "failed"}, WriteEnds(c, result),
             result = "acked" => Succeeds(call[c].answer)
      PROVE  (\E r \in Receipts : Promise!Acknowledge(r)) \/ UNCHANGED Promise!vars
  <2>1. PICK r \in Receipts :
          /\ job[c] = r /\ call[c] # NoCall /\ status[r] = "writing"
          /\ status' = [status EXCEPT ![r] = result] /\ log' = log
    BY <1>0, <1>5 DEF WriteEnds, CallEnds, HandedInv, IInv, TypeOK
  <2>2. result = "acked" => Digest[r] \in log
    BY <1>5, <2>1, SuccessIsSigned DEF IInv, CallInv
  <2>3. status'[r] = result
    BY <1>0, <2>1
  <2>4. State(r) = "handed over" /\ State(r)' = IF result = "acked" THEN "acked" ELSE "handed over"
    BY <2>1, <2>3 DEF State
  <2>5. states' = [states EXCEPT ![r] = State(r)']
    BY <1>2, <2>1
  <2>6. CASE result = "acked"
    BY <2>1, <2>2, <2>4, <2>5, <2>6 DEF Promise!Acknowledge, states
  <2>7. CASE result = "failed"
    BY <2>1, <2>4, <2>5, <2>7 DEF Promise!vars, states
  <2> QED BY <2>6, <2>7
<1>6. CASE Restart
  <2>1. \A r \in Receipts : State(r)' = State(r)
    BY <1>0, <1>6 DEF Restart, State
  <2> QED BY <1>6, <2>1 DEF Restart, Promise!vars
<1>7. CASE Node /\ UNCHANGED <<status, job, restarts>>
  <2>1. states' = states
    BY <1>1, <1>7
  <2>2. CASE log' = log
    BY <2>1, <2>2 DEF Promise!vars, states
  <2>3. ASSUME NEW q \in net, NEW a, NodeSigns(q, a) PROVE Promise!Next
    <3>1. PICK r \in Receipts \ Unserializable : status[r] # "new" /\ q.message = Digest[r]
      BY DEF HandedInv
    <3>2. log' = log \cup {Digest[r]}
      BY <2>3, <3>1 DEF NodeSigns
    <3>3. status[r] # "dropped"
      BY <3>1 DEF IInv, OnlyUnsendableDropped
    <3>4. State(r) \in {"handed over", "acked"}
      BY <1>0, <3>1, <3>3 DEF State
    <3> QED BY <2>1, <3>2, <3>4 DEF Promise!Next, Promise!Record, states
  <2> QED BY <1>7, <2>2, <2>3 DEF Node, NodeRefuses, Lose, ProofsExpire
<1>8. CASE UNCHANGED vars
  BY <1>1, <1>8 DEF vars, rpcVars, Promise!vars, states
<1>9. ASSUME NEW c \in Callers, WriteReturns(c) \/ WriteFails(c)
      PROVE  [Promise!Next]_(Promise!vars)
  <2>1. \E result \in {"acked", "failed"} :
          WriteEnds(c, result) /\ (result = "acked" => Succeeds(call[c].answer))
    BY <1>9 DEF WriteReturns, WriteFails, ErrorIs
  <2> QED BY <1>5, <2>1 DEF Promise!Next
<1> QED BY <1>3, <1>4, <1>6, <1>7, <1>8, <1>9 DEF Next, Promise!Next

\* The sink implements ReceiptLog, whatever the callers, the network and the
\* restarts do.
THEOREM Implementation == Spec => ImplementsReceiptLog
<1>1. Init => Promise!Init
  BY DEF Init, RpcInit, Promise!Init, State
<1>2. Init => HandedInv
  BY SinkAssumption DEF Init, RpcInit, HandedInv
<1>3. IInv /\ HandedInv /\ [Next]_vars => [Promise!Next]_(Promise!vars)
  BY StepRefines
<1> QED BY <1>1, <1>2, <1>3, HandedInductive, Invariance, PTL
        DEF Spec, ImplementsReceiptLog, Promise!Spec

==============================================================================
