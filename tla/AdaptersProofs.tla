---------------------------- MODULE AdaptersProofs ----------------------------
(***************************************************************************)
(* Theorems about Adapters, for any calls, plans, environments, streams,   *)
(* token counts, receipts, agents and number of requests.                  *)
(***************************************************************************)
EXTENDS Adapters, Integers, TLAPS

Last(c) == fate[<<c, sent[c]>>]

\* Where a call stands, and what it holds there.
StandInv(c) ==
  /\ pc[c] = "idle" => request[c] = Nothing /\ sent[c] = 0
  /\ pc[c] = "reading" => Op(c) = "put" /\ sent[c] = 0 /\ config # NoConfig
  /\ pc[c] = "waiting" => sent[c] > 0
  /\ pc[c] # "waiting" => answer[c] = Nothing
  /\ pc[c] # "done" => result[c] = Nothing

\* What the SDK has sent: under a configuration, as often as that allows, and a
\* put not before its stream has ended.
SentInv(c) ==
  /\ \A n \in Attempts : n > sent[c] => fate[<<c, n>>] = "open"
  /\ sent[c] > 0 => /\ Op(c) \in Operations \ {"delete"}
                    /\ config # NoConfig
                    /\ sent[c] <= 1 + config.max_retries
                    /\ Op(c) = "put" => Arg(c)[2] = Length

\* What the node has told of the request it has answered.
Reply(c, v) ==
  CASE Op(c) = "put"                -> v.blob = Arg(c)
    [] Op(c) \in {"get", "head"}    -> v = Arg(c)
    [] Op(c) = "infer"              -> v \in Nat /\ (sent[c] = 1 => v = used[c])
    [] Op(c) = "sign"               -> v = [signature |-> <<OwnKey, Arg(c)>>, public_key |-> OwnKey]
    [] Op(c) = "verify"             -> v = Holds(Arg(c))
    [] Op(c) \in {"list", "resolve"} -> v \subseteq Dids
    [] Op(c) = "search"             -> v \subseteq Skills
    [] OTHER                        -> TRUE

AnswerInv(c) ==
  /\ answer[c][1] \in {"none", "ok", "error"}
  /\ answer[c][1] = "ok" => Last(c) = "done" /\ Reply(c, answer[c][2])
  /\ answer[c][1] = "error" =>
       /\ answer[c][2] \in SdkError
       /\ answer[c][2] \in LinkError \cup {"Timeout", "Other"} \/ Last(c) = "void"
       /\ answer[c][2] \in LinkError \cup {"Timeout"} \/ Last(c) # "open"

\* The attestation of a digest with this node's key.
Own(d) ==
  [kind |-> "tenzro", digest |-> d,
   proof |-> [signature |-> <<OwnKey, d>>, public_key |-> OwnKey]]

\* What a result made of it says.
Value(c, v) ==
  CASE Op(c) \in {"put", "head"}              -> v = Meta(Arg(c), Arg(c))
    [] Op(c) = "get"                          -> v = Arg(c)
    [] Op(c) = "infer"                        -> sent[c] = 1 => v \in {used[c], U32Max}
    [] Op(c) = "sign"                         -> v = Own(Arg(c))
    [] Op(c) = "verify"                       -> Holds(Arg(c))
    [] Op(c) \in {"list", "search", "resolve"} -> \A d \in v : d.did \in Dids
    [] OTHER                                  -> TRUE

ResultFits(c, variant, v) ==
  /\ variant = "Ok" => /\ Op(c) # "none" => sent[c] > 0 /\ Last(c) = "done"
                       /\ Value(c, v)
  /\ variant \in Refused => sent[c] = 0 \/ Last(c) = "void"
  /\ variant = "Invalid" /\ Op(c) = "verify" => ~Holds(Arg(c))
  /\ variant # "none" /\ sent[c] > 0 /\ Last(c) = "open" => variant \in {"Transient", "Dropped"}

ResultInv(c) ==
  /\ ResultFits(c, result[c][1], result[c][2])
  /\ pc[c] = "done" => result[c][1] # "none"

\* An attestation that a sign has returned.
Attests(att) == \E s \in Calls : Is(s, "sign", "Ok") /\ result[s][2] = att

\* One that is verified and holds for this node's key is what a sign has returned.
IsOwn(att) == att.proof.public_key = OwnKey /\ Holds(att)

VerifyInv(c) ==
  Op(c) = "verify" => Arg(c).kind = "tenzro" /\ (IsOwn(Arg(c)) => Attests(Arg(c)))

\* Tokens are used by an inference that was served.
UsedInv(c) == sent[c] = 0 \/ (sent[c] = 1 /\ Last(c) # "done") => used[c] = 0

CallInv(c) ==
  StandInv(c) /\ SentInv(c) /\ AnswerInv(c) /\ ResultInv(c) /\ VerifyInv(c) /\ UsedInv(c)

IInv ==
  /\ CallTypes
  /\ \A b \in store : b[2] = Length
  /\ \A c \in Calls : CallInv(c)

------------------------------------------------------------------------------
(* What the definitions say                                                *)

\* A link that is down is Transient in every adapter; what the node says no with
\* never becomes an Ok, and only what is no gateway's error becomes a refusal.
LEMMA ErrorsAreTranslated ==
  ASSUME NEW op \in Operations, op # "delete", NEW e \in SdkError
  PROVE  /\ e \in LinkError \cup {"Timeout"} => TraitError(op, e) = "Transient"
         /\ TraitError(op, e) \in {"Transient", "Failed", "Lookup", "Remote"} \cup Refused
         /\ TraitError(op, e) \in Refused => e \notin LinkError \cup {"Timeout", "Other"}
         /\ TraitError(op, e) = "Unreachable" => e = "NotFound"
BY DEF Operations, SdkError, LinkError, Refused, TraitError, StorageError, InferenceError,
       AttesterError, RegistryError, InvokerError

\* A configuration has a number of retries: that of the environment, if it has one.
LEMMA ConfigIsNumeric ==
  ASSUME NEW e \in Environment, NEW k \in FromEnv(e)
  PROVE  /\ k.max_retries \in Nat
         /\ e.max_retries \in Nat => k.max_retries = e.max_retries
         /\ e.rpc_url # Unset
         /\ Garbage \notin {e.chain_id, e.timeout_ms, e.max_retries}
<1>1. /\ e.max_retries \in NumericText /\ e.chain_id \in NumericText
      /\ e.timeout_ms \in NumericText
  BY DEF Environment
<1>2. /\ k.max_retries \in Number(e.max_retries, DefaultRetries)
      /\ k.chain_id \in Number(e.chain_id, 1)
      /\ k.timeout_ms \in Number(e.timeout_ms, 30000)
      /\ k.endpoint \in {e.rpc_url} \ {Unset}
  BY DEF FromEnv
<1> QED BY <1>1, <1>2, ConfigAssumption DEF NumericText, Number

------------------------------------------------------------------------------
(* Steps of one call                                                       *)

LEMMA InvInitial == Init => IInv
<1> SUFFICES ASSUME Init PROVE IInv
  OBVIOUS
<1>1. CallTypes
  BY CallAssumption DEF Init, CallInit, CallTypes, Op, Arg, Nothing, Arguments
<1>2. ASSUME NEW c \in Calls PROVE CallInv(c)
  BY <1>2 DEF Init, CallInit, CallInv, StandInv, SentInv, AnswerInv, ResultInv, ResultFits,
              VerifyInv, UsedInv, Op, Nothing, Attempts, Refused
<1> QED BY <1>1, <1>2 DEF IInv, Init

\* A step about one call leaves the others alone.
LEMMA OneCall ==
  ASSUME IInv, NEW c \in Calls, CallTypes', \A b \in store' : b[2] = Length,
         UNCHANGED config,
         \A d \in Calls \ {c} :
           /\ pc'[d] = pc[d] /\ request'[d] = request[d] /\ sent'[d] = sent[d]
           /\ answer'[d] = answer[d] /\ result'[d] = result[d] /\ used'[d] = used[d]
           /\ \A n \in Attempts : fate'[<<d, n>>] = fate[<<d, n>>],
         Is(c, "sign", "Ok") => request'[c] = request[c] /\ result'[c] = result[c],
         CallInv(c)'
  PROVE  IInv'
<1>1. ASSUME NEW d \in Calls, d # c PROVE CallInv(d)'
  <2>1. CallInv(d) /\ sent[d] \in 0..MaxSends
    BY DEF IInv, CallTypes
  <2>2. sent[d] > 0 => sent[d] \in Attempts /\ Last(d)' = Last(d)
    BY <1>1, <2>1, CallAssumption DEF Attempts, Last
  <2>3. Op(d)' = Op(d) /\ Arg(d)' = Arg(d)
    BY <1>1 DEF Op, Arg
  <2>4. StandInv(d)' /\ SentInv(d)' /\ UsedInv(d)'
    BY <1>1, <2>1, <2>2, <2>3 DEF CallInv, StandInv, SentInv, UsedInv
  <2>5. answer[d][1] \in {"ok", "error"} => sent[d] > 0
    BY <2>1 DEF CallInv, StandInv, Nothing
  <2>6. \A v : Reply(d, v) => Reply(d, v)'
    BY <1>1, <2>3 DEF Reply
  <2>7. AnswerInv(d)'
    BY <1>1, <2>1, <2>2, <2>3, <2>5, <2>6 DEF CallInv, AnswerInv
  <2>8. \A v : Value(d, v) => Value(d, v)'
    BY <1>1, <2>3 DEF Value
  <2>9. sent[d] = 0 => Op(d) = "none" \/ result[d][1] # "Ok"
    BY <2>1 DEF CallInv, ResultInv, ResultFits
  <2>10. ResultInv(d)'
    BY <1>1, <2>1, <2>2, <2>3, <2>8, <2>9 DEF CallInv, ResultInv, ResultFits
  <2>11. \A att : Attests(att) => Attests(att)'
    BY DEF Attests, Is, Op
  <2>12. VerifyInv(d)'
    BY <2>1, <2>3, <2>11 DEF CallInv, VerifyInv
  <2> QED BY <2>4, <2>7, <2>10, <2>12 DEF CallInv
<1> QED BY <1>1 DEF IInv

\* What a call holds when it begins.
LEMMA Fresh ==
  ASSUME IInv, NEW c \in Calls, pc[c] \in {"idle", "reading"}
  PROVE  /\ sent[c] = 0 /\ used[c] = 0
         /\ result[c] = Nothing /\ answer[c] = Nothing
         /\ \A n \in Attempts : fate[<<c, n>>] = "open"
<1>1. CallInv(c)
  BY DEF IInv
<1>2. sent[c] = 0
  BY <1>1 DEF CallInv, StandInv
<1>3. \A n \in Attempts : n > 0
  BY DEF Attempts
<1> QED BY <1>1, <1>2, <1>3 DEF CallInv, StandInv, SentInv, UsedInv

\* The configuration in force is one that the environment allows.
LEMMA InForce ==
  ASSUME IInv, config # NoConfig
  PROVE  config \in FromEnv(env) /\ env \in Environment /\ config.max_retries \in Nat
<1>1. config \in FromEnv(env) /\ env \in Environment
  BY CallAssumption DEF IInv, CallTypes
<1> QED BY <1>1, ConfigIsNumeric

\* A request is sent for the first time.
LEMMA SendKeepsInv ==
  ASSUME IInv, NEW c \in Calls, pc[c] \in {"idle", "reading"}, config # NoConfig,
         NEW op \in Operations, op # "delete", NEW arg \in Arguments(op),
         op = "put" => arg[2] = Length,
         op = "verify" => arg.kind = "tenzro" /\ (IsOwn(arg) => Attests(arg)),
         Send(c, op, arg), UNCHANGED <<store, used>>
  PROVE  IInv'
<1>1. /\ sent[c] = 0 /\ used[c] = 0 /\ result[c] = Nothing /\ answer[c] = Nothing
      /\ \A n \in Attempts : fate[<<c, n>>] = "open"
  BY Fresh
<1>2. /\ pc'[c] = "waiting" /\ request'[c] = <<op, arg>> /\ sent'[c] = 1
      /\ Op(c)' = op /\ Arg(c)' = arg
      /\ UNCHANGED <<plan, env, config, answer, result, fate>>
  BY DEF IInv, CallTypes, Send, Op, Arg
<1>3. \A d \in Calls \ {c} : /\ pc'[d] = pc[d] /\ request'[d] = request[d] /\ sent'[d] = sent[d]
                             /\ Op(d)' = Op(d) /\ Arg(d)' = Arg(d)
  BY DEF IInv, CallTypes, Send, Op, Arg
<1>4. CallTypes'
  <2>1. \A d \in Calls : Op(d)' \in Operations \cup {"none"} /\ Arg(d)' \in Arguments(Op(d)')
    BY <1>2, <1>3 DEF IInv, CallTypes
  <2> QED BY <1>2, <2>1, CallAssumption DEF IInv, CallTypes, Send
<1>5. Last(c)' = "open"
  BY <1>1, <1>2, CallAssumption DEF Last, Attempts
<1>6. StandInv(c)' /\ UsedInv(c)'
  BY <1>1, <1>2 DEF StandInv, UsedInv
<1>7. SentInv(c)'
  <2>1. 1 <= 1 + config.max_retries
    BY InForce
  <2> QED BY <1>1, <1>2, <2>1 DEF SentInv, Attempts
<1>8. AnswerInv(c)' /\ ResultInv(c)'
  BY <1>1, <1>2 DEF AnswerInv, ResultInv, ResultFits, Nothing, Refused
<1>9. VerifyInv(c)'
  <2>1. \A att : Attests(att) => Attests(att)'
    BY <1>1, <1>2, <1>3 DEF Attests, Is, Nothing
  <2> QED BY <1>2, <2>1 DEF VerifyInv
<1> QED BY OneCall, <1>1, <1>2, <1>3, <1>4, <1>6, <1>7, <1>8, <1>9 DEF IInv, CallInv, Is, Nothing

\* A call returns something that fits.
LEMMA ReturnKeepsInv ==
  ASSUME IInv, NEW c \in Calls, pc[c] # "done", NEW variant, NEW v,
         variant # "none", ResultFits(c, variant, v),
         Return(c, variant, v), UNCHANGED <<store, used>>
  PROVE  IInv'
<1>1. /\ CallInv(c) /\ result[c] = Nothing
  BY DEF IInv, CallInv, StandInv
<1>2. /\ pc'[c] = "done" /\ result'[c] = <<variant, v>> /\ answer'[c] = Nothing
      /\ UNCHANGED <<plan, env, config, request, sent, fate>>
      /\ Op(c)' = Op(c) /\ Arg(c)' = Arg(c) /\ Last(c)' = Last(c)
  BY DEF IInv, CallTypes, Return, Op, Arg, Last, Nothing
<1>3. \A d \in Calls \ {c} :
        pc'[d] = pc[d] /\ result'[d] = result[d] /\ answer'[d] = answer[d]
  BY DEF IInv, CallTypes, Return
<1>4. CallTypes'
  BY <1>2 DEF IInv, CallTypes, Return, Op, Arg
<1>5. StandInv(c)' /\ SentInv(c)' /\ UsedInv(c)'
  BY <1>1, <1>2 DEF CallInv, StandInv, SentInv, UsedInv, Attempts
<1>6. AnswerInv(c)'
  BY <1>2 DEF AnswerInv, Nothing
<1>7. ResultInv(c)'
  <2>1. Value(c, v) => Value(c, v)'
    BY <1>2 DEF Value
  <2> QED BY <1>2, <2>1 DEF ResultInv, ResultFits
<1>8. VerifyInv(c)'
  <2>1. \A att : Attests(att) => Attests(att)'
    BY <1>1, <1>2, <1>3 DEF Attests, Is, Nothing, Op
  <2> QED BY <1>1, <1>2, <2>1 DEF CallInv, VerifyInv
<1> QED BY OneCall, <1>1, <1>2, <1>3, <1>4, <1>5, <1>6, <1>7, <1>8 DEF IInv, CallInv, Is, Nothing

------------------------------------------------------------------------------
(* The handle, the stream of a put and the SDK                             *)

LEMMA ConnectKeepsInv ==
  ASSUME IInv, Connect, UNCHANGED <<store, used>>
  PROVE  IInv'
<1>1. \A c \in Calls : CallInv(c) /\ sent[c] = 0
  BY DEF IInv, CallInv, SentInv, Connect, CallTypes
<1>2. CallTypes'
  BY DEF IInv, CallTypes, Connect, Op, Arg
<1>3. ASSUME NEW c \in Calls PROVE CallInv(c)'
  <2>1. \A att : Attests(att) <=> Attests(att)'
    BY DEF Connect, Attests, Is, Op
  <2>2. Reply(c, answer[c][2]) => Reply(c, answer[c][2])'
    BY DEF Connect, Reply, Op, Arg
  <2>3. Value(c, result[c][2]) => Value(c, result[c][2])'
    BY DEF Connect, Value, Op, Arg
  <2> QED BY <1>1, <2>1, <2>2, <2>3 DEF Connect, CallInv, StandInv, SentInv, AnswerInv, ResultInv,
             ResultFits, VerifyInv, UsedInv, Op, Arg, Last
<1> QED BY <1>2, <1>3 DEF IInv, Connect

\* A put begins to read, or has read a chunk.
LEMMA ReadingKeepsInv ==
  ASSUME IInv, NEW c \in Calls, pc[c] \in {"idle", "reading"}, config # NoConfig,
         NEW blob \in Blobs,
         pc' = [pc EXCEPT ![c] = "reading"],
         request' = [request EXCEPT ![c] = <<"put", blob>>],
         UNCHANGED <<plan, env, config, sent, answer, result, fate, store, used>>
  PROVE  IInv'
<1>1. /\ sent[c] = 0 /\ used[c] = 0 /\ result[c] = Nothing /\ answer[c] = Nothing
      /\ \A n \in Attempts : fate[<<c, n>>] = "open"
  BY Fresh
<1>2. pc'[c] = "reading" /\ Op(c)' = "put" /\ Arg(c)' = blob
  BY DEF IInv, CallTypes, Op, Arg
<1>3. \A d \in Calls \ {c} : /\ pc'[d] = pc[d] /\ request'[d] = request[d]
                             /\ Op(d)' = Op(d) /\ Arg(d)' = Arg(d)
  BY DEF IInv, CallTypes, Op, Arg
<1>4. CallTypes'
  <2>1. \A d \in Calls : Op(d)' \in Operations \cup {"none"} /\ Arg(d)' \in Arguments(Op(d)')
    <3>1. "put" \in Operations /\ blob \in Arguments("put")
      BY DEF Operations, Arguments
    <3> QED BY <1>2, <1>3, <3>1 DEF IInv, CallTypes
  <2> QED BY <2>1 DEF IInv, CallTypes
<1>5. CallInv(c)'
  BY <1>1, <1>2 DEF CallInv, StandInv, SentInv, AnswerInv, ResultInv, ResultFits, VerifyInv,
                    UsedInv, Nothing, Refused
<1> QED BY OneCall, <1>1, <1>2, <1>3, <1>4, <1>5 DEF IInv, Is, Nothing

\* The SDK sends a request again: what the node does with it is open.
LEMMA ResendKeepsInv ==
  ASSUME IInv, NEW c \in Calls, Resend(c), UNCHANGED <<store, used>>
  PROVE  IInv'
<1>1. CallInv(c) /\ sent[c] \in Attempts /\ pc[c] = "waiting" /\ answer[c] = Nothing
  BY DEF IInv, CallTypes, CallInv, StandInv, Resend, Unanswered, Attempts
<1>2. sent[c] + 1 \in Attempts /\ sent[c] + 1 <= 1 + config.max_retries
  <2>1. sent[c] <= config.max_retries /\ sent[c] < MaxSends /\ config.max_retries \in Nat
    BY <1>1, InForce DEF Resend, CallInv, SentInv, Attempts
  <2> QED BY <1>1, <2>1, CallAssumption DEF Attempts
<1>3. /\ sent'[c] = sent[c] + 1 /\ Op(c)' = Op(c) /\ Arg(c)' = Arg(c)
      /\ UNCHANGED <<plan, env, config, pc, request, answer, result, fate>>
  BY DEF IInv, CallTypes, Resend, Op, Arg
<1>4. \A d \in Calls \ {c} : sent'[d] = sent[d]
  BY DEF IInv, CallTypes, Resend
<1>5. CallTypes'
  BY <1>2 DEF IInv, CallTypes, Resend, Op, Arg, Attempts
<1>6. StandInv(c)' /\ SentInv(c)'
  BY <1>1, <1>2, <1>3 DEF CallInv, StandInv, SentInv, Attempts
<1>7. UsedInv(c)'
  BY <1>1, <1>3 DEF CallInv, UsedInv, Attempts, Last
<1>8. AnswerInv(c)' /\ ResultInv(c)'
  BY <1>1, <1>3 DEF CallInv, StandInv, AnswerInv, ResultInv, ResultFits, Nothing, Refused
<1>9. VerifyInv(c)'
  BY <1>1, <1>3 DEF CallInv, VerifyInv, Attests, Is, Op
<1> QED BY OneCall, <1>1, <1>3, <1>4, <1>5, <1>6, <1>7, <1>8, <1>9 DEF IInv, CallInv

LEMMA GivesUpKeepsInv ==
  ASSUME IInv, NEW c \in Calls, GivesUp(c), UNCHANGED <<store, used>>
  PROVE  IInv'
<1>1. PICK e \in LinkError \cup {"Timeout"} : answer' = [answer EXCEPT ![c] = <<"error", e>>]
  BY DEF GivesUp
<1>2. CallInv(c) /\ pc[c] = "waiting" /\ answer'[c] = <<"error", e>>
  BY <1>1 DEF IInv, CallTypes, GivesUp, Unanswered
<1>3. /\ UNCHANGED <<plan, env, config, pc, request, sent, result, fate>>
      /\ \A d \in Calls \ {c} : answer'[d] = answer[d]
  BY <1>1 DEF IInv, CallTypes, GivesUp
<1>4. CallTypes'
  BY <1>1, <1>3 DEF IInv, CallTypes, Op, Arg
<1>5. StandInv(c)' /\ SentInv(c)' /\ UsedInv(c)' /\ VerifyInv(c)'
  BY <1>2, <1>3 DEF CallInv, StandInv, SentInv, UsedInv, VerifyInv, Last, Op, Arg, Attests, Is
<1>6. AnswerInv(c)'
  BY <1>2 DEF AnswerInv, SdkError, LinkError
<1>7. ResultInv(c)'
  BY <1>2, <1>3 DEF CallInv, ResultInv, ResultFits, Value, Last, Op, Arg
<1> QED BY OneCall, <1>3, <1>4, <1>5, <1>6, <1>7 DEF IInv, CallInv

------------------------------------------------------------------------------
(* The node                                                                *)

\* What was handled before stays, and the last request of c is settled as f when
\* it is the one handled.
LEMMA HandleSettles ==
  ASSUME IInv, NEW c \in Calls, NEW n \in Attempts, NEW f \in {"done", "void"},
         Handle(c, n, f)
  PROVE  /\ sent[c] \in Attempts /\ n <= sent[c] /\ pc[c] \in {"waiting", "done"}
         /\ \A d \in Calls, m \in Attempts :
              fate'[<<d, m>>] = IF d = c /\ m = n THEN f ELSE fate[<<d, m>>]
         /\ fate[<<c, n>>] = "open"
         /\ fate' \in [Calls \X Attempts -> {"open", "done", "void"}]
         /\ UNCHANGED <<plan, env, config, pc, request, sent, result>>
<1>1. sent[c] \in Attempts /\ n <= sent[c]
  BY DEF Handle, IInv, CallTypes, Attempts
<1>2. pc[c] \in {"waiting", "done"}
  BY <1>1 DEF IInv, CallTypes, CallInv, StandInv, Attempts
<1>3. <<c, n>> \in Calls \X Attempts /\ fate \in [Calls \X Attempts -> {"open", "done", "void"}]
  BY DEF IInv, CallTypes
<1>4. \A d \in Calls, m \in Attempts :
        fate'[<<d, m>>] = IF d = c /\ m = n THEN f ELSE fate[<<d, m>>]
  BY <1>3 DEF Handle
<1> QED BY <1>1, <1>2, <1>3, <1>4 DEF Handle

\* An answer reaches the call, or not.
LEMMA AnswerReaches ==
  ASSUME IInv, NEW c \in Calls, NEW n \in Attempts, NEW answers, Answer(c, n, answers)
  PROVE  /\ DOMAIN answer' = Calls
         /\ \A d \in Calls \ {c} : answer'[d] = answer[d]
         /\ \/ answer'[c] = answer[c]
            \/ answer[c] = Nothing /\ pc[c] = "waiting" /\ sent[c] = n /\ answer'[c] \in answers
BY DEF IInv, CallTypes, Answer, Unanswered

\* A request is handled: what a late one leaves behind a call that has returned,
\* and what its answer brings to one that waits.
LEMMA NodeKeepsInv ==
  ASSUME IInv, NEW c \in Calls, NEW n \in Attempts, NEW f \in {"done", "void"},
         NEW answers, Handle(c, n, f), Answer(c, n, answers),
         store' \subseteq Blobs, \A b \in store' : b[2] = Length,
         used' \in [Calls -> Nat],
         \A d \in Calls \ {c} : used'[d] = used[d],
         f = "void" \/ Op(c) # "infer" => used'[c] = used[c],
         \A a \in answers : sent[c] = n =>
           \/ a[1] = "ok" /\ f = "done" /\ Reply(c, a[2])'
           \/ /\ a[1] = "error" /\ a[2] \in SdkError
              /\ f = "done" => a[2] \in {"RpcError", "Other"}
  PROVE  IInv'
<1>1. /\ sent[c] \in Attempts /\ n <= sent[c] /\ pc[c] \in {"waiting", "done"}
      /\ \A d \in Calls, m \in Attempts :
           fate'[<<d, m>>] = IF d = c /\ m = n THEN f ELSE fate[<<d, m>>]
      /\ fate[<<c, n>>] = "open"
      /\ fate' \in [Calls \X Attempts -> {"open", "done", "void"}]
      /\ UNCHANGED <<plan, env, config, pc, request, sent, result>>
  BY HandleSettles
<1>2. /\ DOMAIN answer' = Calls
      /\ \A d \in Calls \ {c} : answer'[d] = answer[d]
      /\ \/ answer'[c] = answer[c]
         \/ answer[c] = Nothing /\ pc[c] = "waiting" /\ sent[c] = n /\ answer'[c] \in answers
  BY AnswerReaches
<1>3. CallInv(c) /\ sent[c] > 0 /\ Op(c)' = Op(c) /\ Arg(c)' = Arg(c)
  BY <1>1 DEF IInv, Attempts, Op, Arg
<1>4. CallTypes'
  BY <1>1, <1>2 DEF IInv, CallTypes, Op, Arg
<1>5. Last(c)' = IF sent[c] = n THEN f ELSE Last(c)
  BY <1>1 DEF Last
<1>6. sent[c] = n => Last(c) = "open" /\ (sent[c] = 1 => used[c] = 0)
  BY <1>1, <1>3 DEF Last, CallInv, UsedInv
<1>7. sent[c] = 1 => sent[c] = n
  BY <1>1 DEF Attempts
<1>8. SentInv(c)' /\ VerifyInv(c)'
  BY <1>1, <1>3 DEF CallInv, SentInv, VerifyInv, Attempts, Attests, Is, Op
<1>9. StandInv(c)'
  BY <1>1, <1>2, <1>3 DEF CallInv, StandInv
<1>10. UsedInv(c)'
  BY <1>1, <1>3, <1>5, <1>6, <1>7 DEF CallInv, UsedInv
<1>11. AnswerInv(c)'
  <2>1. CASE answer'[c] = answer[c] /\ sent[c] # n
    <3>1. \A v : Reply(c, v) => Reply(c, v)'
      BY <1>1, <1>3, <1>7, <2>1 DEF Reply
    <3> QED BY <1>1, <1>3, <1>5, <2>1, <3>1 DEF CallInv, AnswerInv
  <2>2. CASE answer'[c] = answer[c] /\ sent[c] = n
    BY <1>1, <1>3, <1>5, <1>6, <2>2 DEF CallInv, AnswerInv
  <2>3. CASE sent[c] = n /\ answer'[c] \in answers
    BY <1>1, <1>3, <1>5, <2>3 DEF AnswerInv, LinkError
  <2> QED BY <1>2, <2>1, <2>2, <2>3
<1>12. ResultInv(c)'
  <2>1. CASE sent[c] # n
    <3>1. \A v : Value(c, v) => Value(c, v)'
      BY <1>1, <1>3, <1>7, <2>1 DEF Value
    <3> QED BY <1>1, <1>3, <1>5, <2>1, <3>1 DEF CallInv, ResultInv, ResultFits
  <2>2. CASE sent[c] = n
    <3>1. result[c][1] \in {"Transient", "Dropped", "none"}
      BY <1>3, <1>6, <2>2 DEF CallInv, ResultInv, ResultFits
    <3> QED BY <1>1, <1>3, <3>1 DEF CallInv, ResultInv, ResultFits, Refused
  <2> QED BY <2>1, <2>2
<1> QED BY OneCall, <1>1, <1>2, <1>4, <1>8, <1>9, <1>10, <1>11, <1>12 DEF IInv, CallInv

\* What the node may say no with.
LEMMA RefuseKeepsInv ==
  ASSUME IInv, NEW c \in Calls, NEW n \in Attempts, Refuse(c, n, Refusals(c)),
         UNCHANGED <<store, used>>
  PROVE  IInv'
<1>1. Handle(c, n, "void") /\ Answer(c, n, {"error"} \X Refusals(c))
  BY DEF Refuse
<1>2. \A e \in Refusals(c) : e \in SdkError
  BY DEF Refusals, Refusal
<1> QED BY NodeKeepsInv, <1>1, <1>2 DEF IInv, CallTypes

\* A request is served with a reply that fits it.
LEMMA ServeKeepsInv ==
  ASSUME IInv, NEW c \in Calls, NEW n \in Attempts, NEW replies, Serve(c, n, replies),
         store' \subseteq Blobs, \A b \in store' : b[2] = Length,
         used' \in [Calls -> Nat],
         \A d \in Calls \ {c} : used'[d] = used[d],
         Op(c) # "infer" => used'[c] = used[c],
         \A v \in replies : sent[c] = n => Reply(c, v)'
  PROVE  IInv'
<1> DEFINE answers == ({"ok"} \X replies) \cup ({"error"} \X {"RpcError", "Other"})
<1>1. Handle(c, n, "done") /\ Answer(c, n, answers)
  BY DEF Serve
<1>2. \A a \in answers : \/ a[1] = "ok" /\ a[2] \in replies
                         \/ a[1] = "error" /\ a[2] \in {"RpcError", "Other"}
  OBVIOUS
<1>3. {"RpcError", "Other"} \subseteq SdkError
  BY DEF SdkError
<1> HIDE DEF answers
<1> QED BY NodeKeepsInv, <1>1, <1>2, <1>3

LEMMA StorageNodeKeepsInv ==
  ASSUME IInv, NEW c \in Calls, NEW n \in Attempts,
         PublishServed(c, n) \/ FetchServed(c, n), UNCHANGED used
  PROVE  IInv'
<1>0. Op(c)' = Op(c) /\ Arg(c)' = Arg(c) /\ used \in [Calls -> Nat]
  BY DEF IInv, CallTypes, PublishServed, FetchServed, Serve, Handle, Op, Arg
<1>1. CASE PublishServed(c, n)
  <2>1. Arg(c) \in Blobs /\ Arg(c)[2] = Length
    <3>1. sent[c] > 0
      BY <1>1 DEF PublishServed, Serve, Handle, Attempts, IInv, CallTypes
    <3> QED BY <1>1, <3>1 DEF PublishServed, IInv, CallTypes, CallInv, SentInv, Arguments
  <2>2. store' \subseteq Blobs /\ \A b \in store' : b[2] = Length
    BY <1>1, <2>1 DEF PublishServed, IInv, CallTypes
  <2>3. \A v \in [blob : {Arg(c)}, hex : BOOLEAN] : Reply(c, v)'
    BY <1>0, <1>1 DEF PublishServed, Reply
  <2> QED BY ServeKeepsInv, <1>0, <1>1, <2>2, <2>3 DEF PublishServed
<1>2. CASE FetchServed(c, n)
  <2>1. \A v \in {Arg(c)} : Reply(c, v)'
    BY <1>0, <1>2 DEF FetchServed, Reply
  <2>2. store' \subseteq Blobs /\ \A b \in store' : b[2] = Length
    BY <1>2 DEF FetchServed, IInv, CallTypes
  <2> QED BY ServeKeepsInv, <1>0, <1>2, <2>1, <2>2 DEF FetchServed
<1> QED BY <1>1, <1>2

LEMMA InferServedKeepsInv ==
  ASSUME IInv, NEW c \in Calls, NEW n \in Attempts, InferServed(c, n),
         UNCHANGED store
  PROVE  IInv'
<1>1. PICK tokens \in Usages : /\ Serve(c, n, {tokens})
                               /\ used' = [used EXCEPT ![c] = @ + tokens]
  BY DEF InferServed
<1>2. tokens \in Nat /\ used \in [Calls -> Nat]
  BY InferenceAssumption DEF IInv, CallTypes
<1>3. /\ used' \in [Calls -> Nat] /\ used'[c] = used[c] + tokens
      /\ \A d \in Calls \ {c} : used'[d] = used[d]
  BY <1>1, <1>2
<1>4. Op(c)' = "infer" /\ sent' = sent
  BY <1>1 DEF InferServed, Serve, Handle, Op
<1>5. sent[c] = n /\ sent[c] = 1 => used[c] = 0
  BY <1>1 DEF Serve, Handle, IInv, CallInv, UsedInv, Last
<1>6. sent[c] = n => Reply(c, tokens)'
  BY <1>2, <1>3, <1>4, <1>5 DEF Reply
<1> QED BY ServeKeepsInv, <1>1, <1>3, <1>6 DEF InferServed, IInv, CallTypes

LEMMA AttesterNodeKeepsInv ==
  ASSUME IInv, NEW c \in Calls, NEW n \in Attempts,
         SignServed(c, n) \/ VerifyServed(c, n), UNCHANGED <<store, used>>
  PROVE  IInv'
<1>0. /\ Op(c)' = Op(c) /\ Arg(c)' = Arg(c) /\ used \in [Calls -> Nat] /\ store \subseteq Blobs
      /\ \A b \in store : b[2] = Length
  BY DEF IInv, CallTypes, SignServed, VerifyServed, Serve, Handle, Op, Arg
<1>1. CASE SignServed(c, n)
  <2>1. Reply(c, [signature |-> <<OwnKey, Arg(c)>>, public_key |-> OwnKey])'
    BY <1>0, <1>1 DEF SignServed, Reply
  <2> QED BY ServeKeepsInv, <1>0, <1>1, <2>1 DEF SignServed
<1>2. CASE VerifyServed(c, n)
  <2>1. \A v \in {Holds(Arg(c))} : Reply(c, v)'
    BY <1>0, <1>2 DEF VerifyServed, Reply
  <2> QED BY ServeKeepsInv, <1>0, <1>2, <2>1 DEF VerifyServed
<1> QED BY <1>1, <1>2

LEMMA AgentsNodeKeepsInv ==
  ASSUME IInv, AgentTypes, NEW c \in Calls, NEW n \in Attempts,
         LookupServed(c, n) \/ InvokeServed(c, n), UNCHANGED <<store, used>>
  PROVE  IInv'
<1>1. PICK replies : Serve(c, n, replies) /\ Op(c) # "infer" /\ \A v \in replies : Reply(c, v)
  <2>1. CASE Op(c) = "list" /\ Serve(c, n, SUBSET agents)
    BY <2>1 DEF Reply, AgentTypes
  <2>2. CASE Op(c) = "search" /\ Serve(c, n, SUBSET Skills)
    BY <2>2 DEF Reply
  <2>3. CASE Op(c) = "resolve" /\ Serve(c, n, {{Arg(c)}})
    <3>1. Arg(c) \in Dids
      BY <2>3 DEF IInv, CallTypes, Arguments
    <3> QED BY <2>3, <3>1 DEF Reply
  <2>4. CASE InvokeServed(c, n)
    BY <2>4 DEF InvokeServed, Reply
  <2> QED BY <2>1, <2>2, <2>3, <2>4 DEF LookupServed
<1>2. Op(c)' = Op(c) /\ Arg(c)' = Arg(c) /\ UNCHANGED <<sent, used>>
  BY <1>1 DEF Serve, Handle, Op, Arg
<1>3. \A v \in replies : Reply(c, v)'
  BY <1>1, <1>2 DEF Reply
<1> QED BY ServeKeepsInv, <1>1, <1>2, <1>3 DEF IInv, CallTypes

------------------------------------------------------------------------------
(* The callers                                                             *)

\* A reply that came is to the last request, and fits it.
LEMMA RepliedFits ==
  ASSUME IInv, NEW c \in Calls, NEW ops, Replied(c, ops)
  PROVE  /\ pc[c] = "waiting" /\ Op(c) \in ops /\ sent[c] > 0 /\ Last(c) = "done"
         /\ Reply(c, answer[c][2]) /\ Arg(c) \in Arguments(Op(c))
BY DEF Replied, IInv, CallTypes, CallInv, StandInv, AnswerInv

LEMMA OkKeepsInv ==
  ASSUME IInv, NEW c \in Calls, NEW ops, Replied(c, ops), NEW v,
         Reply(c, answer[c][2]) => Value(c, v),
         Return(c, "Ok", v), UNCHANGED <<store, used>>
  PROVE  IInv'
<1>1. pc[c] = "waiting" /\ sent[c] > 0 /\ Last(c) = "done" /\ Value(c, v)
  BY RepliedFits
<1>2. ResultFits(c, "Ok", v)
  BY <1>1 DEF ResultFits, Refused
<1> QED BY ReturnKeepsInv, <1>1, <1>2

\* What is returned when nothing has been sent, or the future is dropped.
LEMMA UnsentKeepsInv ==
  ASSUME IInv, NEW c \in Calls, pc[c] \in {"idle", "reading", "waiting"}, NEW variant,
         \/ variant = "Dropped"
         \/ variant \in {"Failed", "Declined"} /\ pc[c] \in {"idle", "reading"},
         Return(c, variant, "none"), UNCHANGED <<store, used>>
  PROVE  IInv'
<1>1. pc[c] \in {"idle", "reading"} => sent[c] = 0
  BY Fresh
<1>2. ResultFits(c, variant, "none")
  BY <1>1 DEF ResultFits, Refused
<1> QED BY ReturnKeepsInv, <1>2

\* A key that a put has returned is that of a whole blob.
LEMMA KeysAreWhole ==
  ASSUME IInv
  PROVE  Keys \subseteq Streams \X {Length}
<1> SUFFICES ASSUME NEW p \in Calls, Is(p, "put", "Ok")
             PROVE  result[p][2].key \in Streams \X {Length}
  BY DEF Keys, Is
<1>1. CallInv(p) /\ Arg(p) \in Blobs
  BY DEF IInv, CallTypes, Is, Arguments
<1>2. sent[p] > 0 /\ result[p][2] = Meta(Arg(p), Arg(p))
  BY <1>1 DEF CallInv, ResultInv, ResultFits, Value, Is
<1>3. Arg(p)[2] = Length /\ result[p][2].key = Arg(p)
  BY <1>1, <1>2 DEF CallInv, SentInv, Is, Meta
<1> QED BY <1>1, <1>3 DEF Blobs

LEMMA StorageKeepsInv ==
  ASSUME IInv, NEW c \in Calls, StorageCall(c), UNCHANGED <<store, used>>
  PROVE  IInv'
<1>0. {"put", "get", "head"} \subseteq Operations
  BY DEF Operations
<1>1. ASSUME NEW s \in Streams, Put(c, s) PROVE IInv'
  <2>1. <<s, 0>> \in Blobs
    BY StorageAssumption DEF Blobs
  <2> QED BY ReadingKeepsInv, <1>1, <2>1 DEF Put, Ready
<1>2. ASSUME NEW key \in Keys, Get(c, key) \/ Head(c, key) PROVE IInv'
  <2>1. PICK op \in {"get", "head"} : Ready(c, op) /\ Send(c, op, key)
    BY <1>2 DEF Get, Head
  <2>2. key \in Arguments(op)
    BY KeysAreWhole DEF Arguments
  <2> QED BY SendKeepsInv, <1>0, <2>1, <2>2 DEF Ready
<1>3. CASE ReadsChunk(c)
  <2>1. Arg(c) \in Blobs
    BY <1>3 DEF ReadsChunk, IInv, CallTypes, CallInv, StandInv, Arguments
  <2>2. <<Arg(c)[1], Arg(c)[2] + 1>> \in Blobs
    BY <1>3, <2>1, StorageAssumption DEF ReadsChunk, Blobs
  <2>3. pc' = [pc EXCEPT ![c] = "reading"] /\ config # NoConfig
    BY <1>3 DEF ReadsChunk, IInv, CallTypes, CallInv, StandInv
  <2> QED BY ReadingKeepsInv, <1>3, <2>2, <2>3 DEF ReadsChunk
<1>4. CASE ReadFails(c)
  BY UnsentKeepsInv, <1>4 DEF ReadFails
<1>5. CASE Publishes(c)
  <2>1. pc[c] = "reading" /\ Arg(c)[2] = Length /\ Send(c, "put", Arg(c))
    BY <1>5 DEF Publishes
  <2>2. Arg(c) \in Arguments("put") /\ config # NoConfig
    BY <2>1 DEF IInv, CallTypes, CallInv, StandInv
  <2> QED BY SendKeepsInv, <1>0, <2>1, <2>2
<1>6. CASE PutReturns(c)
  <2>1. Replied(c, {"put"})
    BY <1>6 DEF PutReturns
  <2>2. CASE Return(c, "Ok", Meta(answer[c][2].blob, answer[c][2].blob))
    <3>1. Reply(c, answer[c][2]) => Value(c, Meta(answer[c][2].blob, answer[c][2].blob))
      BY <2>1, RepliedFits DEF Reply, Value
    <3> QED BY OkKeepsInv, <2>1, <2>2, <3>1
  <2>3. CASE Return(c, "Failed", "none")
    <3>1. pc[c] = "waiting" /\ Last(c) = "done"
      BY <2>1, RepliedFits
    <3> QED BY ReturnKeepsInv, <2>3, <3>1 DEF ResultFits, Refused
  <2> QED BY <1>6, <2>2, <2>3 DEF PutReturns
<1>7. CASE GetReturns(c)
  <2>1. Reply(c, answer[c][2]) => Value(c, answer[c][2])
    BY <1>7, RepliedFits DEF GetReturns, Reply, Value
  <2> QED BY OkKeepsInv, <1>7, <2>1 DEF GetReturns
<1>8. CASE HeadReturns(c)
  <2>1. Reply(c, answer[c][2]) => Value(c, Meta(Arg(c), answer[c][2]))
    BY <1>8, RepliedFits DEF HeadReturns, Reply, Value
  <2> QED BY OkKeepsInv, <1>8, <2>1 DEF HeadReturns
<1>9. CASE Delete(c)
  <2>1. pc[c] = "idle" /\ Op(c) = "none" /\ Return(c, "Ok", "none")
    BY <1>9 DEF Delete, Ready, IInv, CallInv, StandInv, Nothing, Op
  <2>2. ResultFits(c, "Ok", "none")
    BY <2>1 DEF ResultFits, Value, Refused, IInv, CallInv, StandInv
  <2> QED BY ReturnKeepsInv, <2>1, <2>2
<1> QED BY <1>1, <1>2, <1>3, <1>4, <1>5, <1>6, <1>7, <1>8, <1>9 DEF StorageCall

LEMMA InferenceKeepsInv ==
  ASSUME IInv, NEW c \in Calls, InferenceCall(c), UNCHANGED <<store, used>>
  PROVE  IInv'
<1>1. ASSUME NEW kind \in {"text", "tensor"}, Infer(c, kind) PROVE IInv'
  <2>1. pc[c] = "idle" /\ config # NoConfig
    BY <1>1 DEF Infer, Ready
  <2>2. CASE kind = "text" /\ Send(c, "infer", kind)
    <3>1. kind \in Arguments("infer") /\ "infer" \in Operations
      BY <2>2 DEF Arguments, Operations
    <3> QED BY SendKeepsInv, <2>1, <2>2, <3>1
  <2>3. CASE Return(c, "Declined", "none")
    BY UnsentKeepsInv, <2>1, <2>3
  <2> QED BY <1>1, <2>2, <2>3 DEF Infer
<1>2. CASE InferReturns(c)
  <2>1. Replied(c, {"infer"}) /\ Return(c, "Ok", CompletionTokens(answer[c][2]))
    BY <1>2 DEF InferReturns
  <2>2. Reply(c, answer[c][2]) => Value(c, CompletionTokens(answer[c][2]))
    BY <2>1, RepliedFits DEF Reply, Value, CompletionTokens
  <2> QED BY OkKeepsInv, <2>1, <2>2
<1> QED BY <1>1, <1>2 DEF InferenceCall

\* Nobody else makes a signature of this node's key, so that one which is put
\* together anew and holds is the attestation of a sign again.
LEMMA PresentedIsOwn ==
  ASSUME IInv, NEW att \in Presented, att.kind = "tenzro", att.proof # Unreadable,
         IsOwn(att)
  PROVE  Attests(att)
<1>1. att \in [kind : {"tenzro", "other"}, digest : Digests, proof : TenzroProof]
      /\ att.proof.signature = <<OwnKey, att.digest>> /\ att.proof.public_key = OwnKey
  BY DEF Presented, Attestation, IsOwn, Holds
<1>2. PICK s \in Calls : /\ Is(s, "sign", "Ok")
                         /\ att.proof.signature = result[s][2].proof.signature
  BY <1>1 DEF Presented, Attested, Is
<1>3. result[s][2] = Own(Arg(s))
  BY <1>2 DEF IInv, CallInv, ResultInv, ResultFits, Value, Is
<1>4. Arg(s) = att.digest
  BY <1>1, <1>2, <1>3 DEF Own
<1>5. att.proof = [signature |-> <<OwnKey, Arg(s)>>, public_key |-> OwnKey]
  BY <1>1, <1>4 DEF TenzroProof
<1>6. att = Own(Arg(s))
  BY <1>1, <1>4, <1>5 DEF Own
<1> QED BY <1>2, <1>3, <1>6 DEF Attests

LEMMA AttesterKeepsInv ==
  ASSUME IInv, NEW c \in Calls, AttesterCall(c), UNCHANGED <<store, used>>
  PROVE  IInv'
<1>0. {"sign", "verify"} \subseteq Operations
  BY DEF Operations
<1>1. ASSUME NEW d \in Digests, SignDigest(c, d) PROVE IInv'
  <2>1. pc[c] = "idle" /\ config # NoConfig /\ Send(c, "sign", d) /\ d \in Arguments("sign")
    BY <1>1 DEF SignDigest, MayAttest, Ready, Arguments
  <2> QED BY SendKeepsInv, <1>0, <2>1
<1>2. ASSUME NEW r \in Receipts, SignReceipt(c, r) PROVE IInv'
  <2>1. CASE SignDigest(c, Digest[r])
    BY <1>1, <2>1 DEF Digests
  <2>2. CASE MayAttest(c, "sign") /\ Return(c, "Failed", "none")
    BY UnsentKeepsInv, <2>2 DEF MayAttest, Ready
  <2> QED BY <1>2, <2>1, <2>2 DEF SignReceipt
<1>3. ASSUME MayAttest(c, "verify"), NEW att \in Presented, Verify(c, att)
      PROVE  IInv'
  <2>1. pc[c] = "idle" /\ config # NoConfig
    BY <1>3 DEF MayAttest, Ready
  <2>2. CASE att.kind = "tenzro" /\ att.proof # Unreadable /\ Send(c, "verify", att)
    <3>1. att \in Arguments("verify") /\ (IsOwn(att) => Attests(att))
      BY PresentedIsOwn, <1>3, <2>2 DEF Arguments, Presented
    <3> QED BY SendKeepsInv, <1>0, <2>1, <2>2, <3>1
  <2>3. CASE Return(c, "Failed", "none")
    BY UnsentKeepsInv, <2>1, <2>3
  <2> QED BY <1>3, <2>2, <2>3 DEF Verify
<1>4. CASE SignReturns(c)
  <2>1. Reply(c, answer[c][2]) =>
          Value(c, [kind |-> "tenzro", digest |-> Arg(c), proof |-> answer[c][2]])
    BY <1>4, RepliedFits DEF SignReturns, Reply, Value, Own
  <2> QED BY OkKeepsInv, <1>4, <2>1 DEF SignReturns
<1>5. CASE VerifyReturns(c)
  <2>1. Replied(c, {"verify"}) /\ Return(c, IF answer[c][2] THEN "Ok" ELSE "Invalid", "none")
    BY <1>5 DEF VerifyReturns
  <2>2. Op(c) = "verify" /\ answer[c][2] = Holds(Arg(c))
    <3>1. Op(c) = "verify" /\ Reply(c, answer[c][2])
      BY <2>1, RepliedFits
    <3> QED BY <3>1 DEF Reply
  <2>3. CASE answer[c][2]
    BY OkKeepsInv, <2>1, <2>2, <2>3 DEF Value
  <2>4. CASE ~answer[c][2]
    <3>1. pc[c] = "waiting" /\ Last(c) = "done"
      BY <2>1, RepliedFits
    <3>2. ResultFits(c, "Invalid", "none")
      BY <2>2, <2>4, <3>1 DEF ResultFits, Refused
    <3> QED BY ReturnKeepsInv, <2>1, <2>4, <3>1, <3>2
  <2> QED BY <2>3, <2>4
<1> QED BY <1>1, <1>2, <1>3, <1>4, <1>5 DEF AttesterCall

\* A descriptor that was found names an identity.
LEMMA FoundAreIdentities ==
  ASSUME IInv, NEW d \in Found
  PROVE  d.did \in Dids
<1>1. PICK l \in Calls : /\ Op(l) \in {"list", "search", "resolve"}
                         /\ result[l][1] = "Ok" /\ d \in result[l][2]
  BY DEF Found
<1>2. Value(l, result[l][2])
  BY <1>1 DEF IInv, CallInv, ResultInv, ResultFits
<1> QED BY <1>1, <1>2 DEF Value

LEMMA AgentsKeepsInv ==
  ASSUME IInv, NEW c \in Calls, AgentsCall(c), UNCHANGED <<store, used>>
  PROVE  IInv'
<1>0. {"list", "search", "resolve", "invoke"} \subseteq Operations
  BY DEF Operations
<1>1. CASE List(c) \/ Search(c)
  <2>1. PICK op \in {"list", "search"} : Ready(c, op) /\ Send(c, op, "none")
    BY <1>1 DEF List, Search
  <2>2. "none" \in Arguments(op)
    BY DEF Arguments
  <2> QED BY SendKeepsInv, <1>0, <2>1, <2>2 DEF Ready
<1>2. ASSUME NEW did \in Dids, Resolve(c, did) PROVE IInv'
  <2>1. did \in Arguments("resolve")
    BY DEF Arguments
  <2> QED BY SendKeepsInv, <1>0, <1>2, <2>1 DEF Resolve, Ready
<1>3. ASSUME NEW d \in Found, Invoke(c, d.did) PROVE IInv'
  <2>1. d.did \in Arguments("invoke")
    BY FoundAreIdentities DEF Arguments
  <2> QED BY SendKeepsInv, <1>0, <1>3, <2>1 DEF Invoke, Ready
<1>4. CASE LookupReturns(c)
  <2> DEFINE of(e) == IF Op(c) = "search" THEN OfSkill(e) ELSE OfAgent(e)
  <2>1. /\ Replied(c, {"list", "search", "resolve"})
        /\ Return(c, "Ok", {of(e) : e \in answer[c][2]})
    BY <1>4 DEF LookupReturns
  <2>2. Reply(c, answer[c][2]) => Value(c, {of(e) : e \in answer[c][2]})
    <3> SUFFICES ASSUME Reply(c, answer[c][2]), NEW e \in answer[c][2]
                 PROVE  of(e).did \in Dids
      BY <2>1, RepliedFits DEF Value
    <3>1. Op(c) \in {"list", "search", "resolve"}
      BY <2>1, RepliedFits
    <3>2. CASE Op(c) = "search"
      BY <3>2, AgentsAssumption DEF Reply, OfSkill
    <3>3. CASE Op(c) # "search"
      BY <3>1, <3>3 DEF Reply, OfAgent
    <3> QED BY <3>2, <3>3
  <2> HIDE DEF of
  <2> QED BY OkKeepsInv, <2>1, <2>2
<1>5. CASE InvokeReturns(c)
  <2>1. Reply(c, answer[c][2]) => Value(c, "none")
    BY <1>5, RepliedFits DEF InvokeReturns, Value
  <2> QED BY OkKeepsInv, <1>5, <2>1 DEF InvokeReturns
<1> QED BY <1>1, <1>2, <1>3, <1>4, <1>5 DEF AgentsCall

\* An error of the SDK is returned as a variant that claims no more than it says.
LEMMA ErrorKeepsInv ==
  ASSUME IInv, NEW c \in Calls, ErrorReturns(c), UNCHANGED <<store, used>>
  PROVE  IInv'
<1>1. /\ pc[c] = "waiting" /\ answer[c][1] = "error"
      /\ Return(c, TraitError(Op(c), answer[c][2]), "none")
      /\ sent[c] > 0 /\ answer[c][2] \in SdkError
  BY DEF ErrorReturns, IInv, CallInv, StandInv, AnswerInv
<1>2. Op(c) \in Operations /\ Op(c) # "delete"
  BY <1>1 DEF IInv, CallInv, SentInv
<1>3. /\ answer[c][2] \in LinkError \cup {"Timeout"} =>
           TraitError(Op(c), answer[c][2]) = "Transient"
      /\ TraitError(Op(c), answer[c][2]) \in {"Transient", "Failed", "Lookup", "Remote"} \cup Refused
      /\ TraitError(Op(c), answer[c][2]) \in Refused =>
           answer[c][2] \notin LinkError \cup {"Timeout", "Other"}
      /\ TraitError(Op(c), answer[c][2]) = "Unreachable" => answer[c][2] = "NotFound"
  BY <1>1, <1>2, ErrorsAreTranslated
<1>4. ResultFits(c, TraitError(Op(c), answer[c][2]), "none")
  BY <1>1, <1>3 DEF IInv, CallInv, AnswerInv, ResultFits, Refused
<1>5. TraitError(Op(c), answer[c][2]) # "none"
  BY <1>3 DEF Refused
<1> QED BY ReturnKeepsInv, <1>1, <1>4, <1>5

LEMMA CallerKeepsInv ==
  ASSUME IInv, NEW c \in Calls, Caller(c)
  PROVE  IInv'
<1>1. UNCHANGED <<store, used>>
  BY DEF Caller
<1>2. CASE StorageCall(c) \/ InferenceCall(c)
  BY StorageKeepsInv, InferenceKeepsInv, <1>1, <1>2
<1>3. CASE AttesterCall(c) \/ AgentsCall(c)
  BY AttesterKeepsInv, AgentsKeepsInv, <1>1, <1>3
<1>4. CASE ErrorReturns(c)
  BY ErrorKeepsInv, <1>1, <1>4
<1>5. CASE Abandon(c)
  BY UnsentKeepsInv, <1>1, <1>5 DEF Abandon
<1>6. CASE Resend(c) \/ GivesUp(c)
  BY ResendKeepsInv, GivesUpKeepsInv, <1>1, <1>6
<1> QED BY <1>2, <1>3, <1>4, <1>5, <1>6 DEF Caller

LEMMA NodeStepKeepsInv ==
  ASSUME IInv, AgentTypes, NEW c \in Calls, NEW n \in Attempts, Node(c, n)
  PROVE  IInv'
<1>1. CASE (PublishServed(c, n) \/ FetchServed(c, n)) /\ UNCHANGED used
  BY StorageNodeKeepsInv, <1>1
<1>2. CASE InferServed(c, n) /\ UNCHANGED store
  BY InferServedKeepsInv, <1>2
<1>3. CASE (SignServed(c, n) \/ VerifyServed(c, n)) /\ UNCHANGED <<store, used>>
  BY AttesterNodeKeepsInv, <1>3
<1>4. CASE (LookupServed(c, n) \/ InvokeServed(c, n)) /\ UNCHANGED <<store, used>>
  BY AgentsNodeKeepsInv, <1>4
<1>5. CASE Refuse(c, n, Refusals(c)) /\ UNCHANGED <<store, used>>
  BY RefuseKeepsInv, <1>5
<1> QED BY <1>1, <1>2, <1>3, <1>4, <1>5 DEF Node

LEMMA StutterKeepsInv ==
  ASSUME IInv, UNCHANGED <<callVars, store, used>>
  PROVE  IInv'
<1>1. CallTypes'
  BY DEF IInv, CallTypes, callVars, Op, Arg
<1>2. ASSUME NEW c \in Calls PROVE CallInv(c)'
  <2>1. CallInv(c)
    BY DEF IInv
  <2> QED BY <2>1 DEF callVars, CallInv, StandInv, SentInv, AnswerInv, ResultInv,
             ResultFits, VerifyInv, UsedInv, Reply, Value, Attests, Is, Last, Op, Arg
<1> QED BY <1>1, <1>2 DEF IInv

\* Agents come and go among the identities.
LEMMA AgentTypesStay == Spec => []AgentTypes
<1>1. Init => AgentTypes
  BY DEF Init, AgentTypes
<1>2. AgentTypes /\ [Next]_vars => AgentTypes'
  BY DEF AgentTypes, Next, vars, Caller, Node, Directory, AgentComes, AgentGoes, Watch
<1> QED BY <1>1, <1>2, PTL DEF Spec

\* The invariant holds for all calls, plans, environments and data.
THEOREM Invariance == Spec => []IInv
<1>1. Init => IInv
  BY InvInitial
<1>2. IInv /\ AgentTypes /\ [Next]_vars => IInv'
  <2> SUFFICES ASSUME IInv, AgentTypes, [Next]_vars PROVE IInv'
    OBVIOUS
  <2>1. CASE Connect /\ UNCHANGED <<store, used>>
    BY ConnectKeepsInv, <2>1
  <2>2. ASSUME NEW c \in Calls, Caller(c) PROVE IInv'
    BY CallerKeepsInv, <2>2
  <2>3. ASSUME NEW c \in Calls, NEW n \in Attempts, Node(c, n) PROVE IInv'
    BY NodeStepKeepsInv, <2>3
  <2>4. CASE UNCHANGED <<callVars, store, used>>
    BY StutterKeepsInv, <2>4
  <2> QED BY <2>1, <2>2, <2>3, <2>4 DEF Next, vars, Directory, AgentComes, AgentGoes
<1> QED BY <1>1, <1>2, AgentTypesStay, PTL DEF Spec

------------------------------------------------------------------------------
(* The properties                                                          *)

\* Every variable keeps its type, and every request is of what its operation takes.
THEOREM TypeCorrect == Spec => []TypeOK
<1>1. IInv /\ AgentTypes => TypeOK
  BY DEF IInv, TypeOK
<1> QED BY <1>1, Invariance, AgentTypesStay, PTL

\* Streams of any length are stored whole or not at all, and read as they were put.
THEOREM BlobsStayWhole == Spec => []BlobsAreWhole
<1>1. ASSUME IInv, NEW p \in Calls, NEW q \in Calls,
             Is(p, "put", "Ok"), Is(q, "get", "Ok") \/ Is(q, "head", "Ok"),
             Arg(q) = result[p][2].key
      PROVE  result[q][2] = IF Op(q) = "get" THEN result[p][2].digest ELSE result[p][2]
  <2>1. Value(p, result[p][2]) /\ Value(q, result[q][2])
    BY <1>1 DEF IInv, CallInv, ResultInv, ResultFits, Is
  <2>2. result[p][2] = Meta(Arg(p), Arg(p))
    BY <1>1, <2>1 DEF Value, Is
  <2>3. Arg(q) = Arg(p) /\ result[p][2].digest = Arg(p)
    BY <1>1, <2>2 DEF Meta
  <2> QED BY <1>1, <2>1, <2>2, <2>3 DEF Value, Is
<1>2. IInv => BlobsAreWhole
  BY <1>1 DEF BlobsAreWhole, IInv
<1> QED BY <1>2, Invariance, PTL

\* A call the node never handled is Transient for every retry limit and adapter.
THEOREM UnreachedStaysTransient == Spec => []UnreachedIsTransient
<1>1. ASSUME IInv, NEW c \in Calls, pc[c] = "done", sent[c] > 0, result[c][1] # "Dropped",
             \A n \in Attempts : fate[<<c, n>>] = "open"
      PROVE  result[c][1] = "Transient"
  <2>1. Last(c) = "open" /\ ResultInv(c)
    BY <1>1 DEF IInv, CallTypes, CallInv, Last, Attempts
  <2> QED BY <1>1, <2>1 DEF ResultInv, ResultFits
<1>2. IInv => UnreachedIsTransient
  BY <1>1 DEF UnreachedIsTransient
<1> QED BY <1>2, Invariance, PTL

\* The prompt of a Declined inference is not served by its last request.
THEOREM DeclinedStaysUnserved == Spec => []DeclinedIsNotServed
<1>1. ASSUME IInv, NEW c \in Calls, Is(c, "infer", "Declined"), NEW n \in Attempts,
             fate[<<c, n>>] = "done"
      PROVE  n < sent[c]
  <2>1. sent[c] \in 0..MaxSends /\ SentInv(c) /\ (sent[c] = 0 \/ Last(c) = "void")
    BY <1>1 DEF IInv, CallTypes, CallInv, ResultInv, ResultFits, Refused, Is
  <2>2. n <= sent[c] /\ sent[c] # n
    BY <1>1, <2>1, CallAssumption DEF SentInv, Attempts, Last
  <2> QED BY <2>1, <2>2 DEF Attempts
<1>2. IInv => DeclinedIsNotServed
  BY <1>1 DEF DeclinedIsNotServed
<1> QED BY <1>2, Invariance, PTL

\* Tokens are counted as used, whatever the node uses and whatever can be counted.
THEOREM TokensStayCounted == Spec => []TokensAreCounted
<1>1. IInv => TokensAreCounted
  BY DEF TokensAreCounted, IInv, CallInv, ResultInv, ResultFits, Value, Is
<1> QED BY <1>1, Invariance, PTL

\* A verification vouches for the key that comes with the attestation, whatever keys
\* and receipts there are and however attestations are put together.
THEOREM VerifyStaysWithItsKey == Spec => []VerifyVouchesForItsKey
<1>1. ASSUME IInv, NEW c \in Calls, Op(c) = "verify", result[c][1] \in {"Ok", "Invalid"}
      PROVE  result[c][1] = "Ok" <=> Holds(Arg(c))
  BY <1>1 DEF IInv, CallInv, ResultInv, ResultFits, Value
<1>2. ASSUME IInv, NEW c \in Calls, Op(c) = "verify", Arg(c).proof.public_key = OwnKey
      PROVE  Holds(Arg(c)) <=> Arg(c) \in Attested
  <2>1. Holds(Arg(c)) => Arg(c) \in Attested
    BY <1>2 DEF IInv, CallInv, VerifyInv, IsOwn, Attests, Attested, Is
  <2>2. ASSUME NEW s \in Calls, Is(s, "sign", "Ok") PROVE Holds(result[s][2])
    <3>1. result[s][2] = Own(Arg(s))
      BY <1>2, <2>2 DEF IInv, CallInv, ResultInv, ResultFits, Value, Is
    <3> QED BY <3>1 DEF Own, Holds
  <2> QED BY <2>1, <2>2 DEF Attested, Is
<1>3. IInv => VerifyVouchesForItsKey
  BY <1>1, <1>2 DEF VerifyVouchesForItsKey
<1> QED BY <1>3, Invariance, PTL

\* The environment is obeyed, whichever the process is started in.
THEOREM EnvironmentStaysObeyed == Spec => []EnvironmentIsObeyed
<1>1. ASSUME IInv, NEW c \in Calls, sent[c] > 0
      PROVE  /\ env.rpc_url # Unset
             /\ Garbage \notin {env.chain_id, env.timeout_ms, env.max_retries}
             /\ env.max_retries \in Nat => sent[c] <= 1 + env.max_retries
  <2>1. config # NoConfig /\ sent[c] <= 1 + config.max_retries
    BY <1>1 DEF IInv, CallInv, SentInv
  <2>2. config \in FromEnv(env) /\ env \in Environment
    BY <1>1, <2>1, InForce
  <2> QED BY <2>1, <2>2, ConfigIsNumeric
<1>2. ASSUME IInv, NEW c \in Calls, ~(sent[c] > 0), env.max_retries \in Nat
      PROVE  sent[c] <= 1 + env.max_retries
  BY <1>2, CallAssumption DEF IInv, CallTypes
<1>3. IInv => EnvironmentIsObeyed
  BY <1>1, <1>2 DEF EnvironmentIsObeyed
<1> QED BY <1>3, Invariance, PTL

------------------------------------------------------------------------------
(* The calls wind down                                                     *)

\* Wherever a call stands, something is left but at its end.
LEMMA LeftIsNatural ==
  ASSUME IInv, NEW c \in Calls
  PROVE  /\ Left(c) \in Nat
         /\ pc[c] # "done" => Left(c) > 0
<1>1. /\ pc[c] \in {"idle", "reading", "waiting", "done"} /\ sent[c] \in 0..MaxSends
      /\ CallInv(c) /\ MaxSends \in Nat /\ Length \in Nat
  BY CallAssumption, StorageAssumption DEF IInv, CallTypes
<1>2. pc[c] = "reading" => Arg(c)[2] \in 0..Length
  BY <1>1 DEF IInv, CallTypes, CallInv, StandInv, Arguments, Blobs
<1> QED BY <1>1, <1>2 DEF Left

\* What a step may do to a call brings its end nearer.
LEMMA BeginWindsDown ==
  ASSUME IInv, NEW c \in Calls, pc[c] = "idle",
         (\E s : Put(c, s)) \/ (\E op, arg : Send(c, op, arg))
  PROVE  Left(c)' < Left(c)
<1>1. /\ pc \in [Calls -> {"idle", "reading", "waiting", "done"}] /\ DOMAIN request = Calls
      /\ sent \in [Calls -> 0..MaxSends] /\ answer[c] = Nothing
      /\ MaxSends \in Nat /\ Length \in Nat
  BY CallAssumption, StorageAssumption, Fresh DEF IInv, CallTypes
<1>2. Left(c) = Length + 2 * MaxSends + 2
  BY DEF Left
<1>3. ASSUME NEW s, Put(c, s) PROVE Left(c)' < Left(c)
  <2>1. pc'[c] = "reading" /\ Arg(c)'[2] = 0
    BY <1>1, <1>3 DEF Put, Arg
  <2>2. Left(c)' = (Length - 0) + 2 * MaxSends + 1
    BY <2>1 DEF Left
  <2> QED BY <1>1, <1>2, <2>2
<1>4. ASSUME NEW op, NEW arg, Send(c, op, arg) PROVE Left(c)' < Left(c)
  <2>1. pc'[c] = "waiting" /\ sent'[c] = 1 /\ answer'[c] = Nothing
    BY <1>1, <1>4 DEF Send
  <2>2. Left(c)' = 2 * (MaxSends - 1) + 2
    BY <2>1 DEF Left
  <2> QED BY <1>1, <1>2, <2>2
<1> QED BY <1>3, <1>4

LEMMA ReadingWindsDown ==
  ASSUME IInv, NEW c \in Calls, ReadsChunk(c) \/ Publishes(c)
  PROVE  Left(c)' < Left(c)
<1>1. /\ pc \in [Calls -> {"idle", "reading", "waiting", "done"}] /\ DOMAIN request = Calls
      /\ sent \in [Calls -> 0..MaxSends] /\ answer[c] = Nothing /\ pc[c] = "reading"
      /\ MaxSends \in Nat /\ Length \in Nat
  BY CallAssumption, StorageAssumption, Fresh DEF IInv, CallTypes, ReadsChunk, Publishes
<1>2. Arg(c)[2] \in 0..Length
  BY <1>1 DEF IInv, CallTypes, CallInv, StandInv, Arguments, Blobs
<1>3. Left(c) = (Length - Arg(c)[2]) + 2 * MaxSends + 1
  BY <1>1 DEF Left
<1>4. CASE ReadsChunk(c)
  <2>1. pc'[c] = "reading" /\ Arg(c)'[2] = Arg(c)[2] + 1
    BY <1>1, <1>4 DEF ReadsChunk, Arg
  <2>2. Left(c)' = (Length - (Arg(c)[2] + 1)) + 2 * MaxSends + 1
    BY <2>1 DEF Left
  <2> QED BY <1>1, <1>2, <1>3, <2>2
<1>5. CASE Publishes(c)
  <2>1. pc'[c] = "waiting" /\ sent'[c] = 1 /\ answer'[c] = Nothing
    BY <1>1, <1>5 DEF Publishes, Send
  <2>2. Left(c)' = 2 * (MaxSends - 1) + 2
    BY <2>1 DEF Left
  <2> QED BY <1>1, <1>2, <1>3, <2>2
<1> QED BY <1>4, <1>5

LEMMA WaitingWindsDown ==
  ASSUME IInv, NEW c \in Calls,
         \/ Resend(c)
         \/ /\ Unanswered(c)
            /\ UNCHANGED <<pc, sent>>
            /\ \E a : a # Nothing /\ answer' = [answer EXCEPT ![c] = a]
  PROVE  Left(c)' < Left(c)
<1>1. /\ sent \in [Calls -> 0..MaxSends] /\ answer[c] = Nothing /\ pc[c] = "waiting"
      /\ DOMAIN answer = Calls /\ MaxSends \in Nat
  BY CallAssumption DEF IInv, CallTypes, Resend, Unanswered
<1>2. Left(c) = 2 * (MaxSends - sent[c]) + 2
  BY <1>1 DEF Left
<1>3. CASE Resend(c)
  <2>1. pc'[c] = "waiting" /\ sent'[c] = sent[c] + 1 /\ answer'[c] = Nothing
    BY <1>1, <1>3 DEF Resend
  <2>2. Left(c)' = 2 * (MaxSends - (sent[c] + 1)) + 2
    BY <2>1 DEF Left
  <2> QED BY <1>1, <1>2, <2>2
<1>4. ASSUME UNCHANGED <<pc, sent>>, NEW a, a # Nothing, answer' = [answer EXCEPT ![c] = a]
      PROVE  Left(c)' < Left(c)
  <2>1. pc'[c] = "waiting" /\ sent'[c] = sent[c] /\ answer'[c] # Nothing
    BY <1>1, <1>4
  <2>2. Left(c)' = 2 * (MaxSends - sent[c]) + 1
    BY <2>1 DEF Left
  <2> QED BY <1>1, <1>2, <2>2
<1> QED BY <1>3, <1>4

LEMMA ReturnWindsDown ==
  ASSUME IInv, NEW c \in Calls, pc[c] # "done", NEW variant, NEW v, Return(c, variant, v)
  PROVE  Left(c)' < Left(c)
<1>1. pc'[c] = "done"
  BY DEF IInv, CallTypes, Return
<1>2. Left(c)' = 0
  BY <1>1 DEF Left
<1> QED BY <1>2, LeftIsNatural

\* The node changes at most the answer of the call, if that waits, and to a reply or
\* an error.
LEMMA NodeAnswers ==
  ASSUME NEW c \in Calls, NEW n \in Attempts, Node(c, n)
  PROVE  /\ UNCHANGED <<pc, request, sent, result>>
         /\ \/ UNCHANGED answer
            \/ /\ Unanswered(c)
               /\ \E a : a # Nothing /\ answer' = [answer EXCEPT ![c] = a]
<1>1. \E f, answers : /\ Handle(c, n, f) /\ Answer(c, n, answers)
                      /\ \A a \in answers : a[1] \in {"ok", "error"}
  <2>1. ASSUME NEW replies, Serve(c, n, replies)
        PROVE  \E f, answers : /\ Handle(c, n, f) /\ Answer(c, n, answers)
                               /\ \A a \in answers : a[1] \in {"ok", "error"}
    BY <2>1 DEF Serve
  <2>2. ASSUME NEW errors, Refuse(c, n, errors)
        PROVE  \E f, answers : /\ Handle(c, n, f) /\ Answer(c, n, answers)
                               /\ \A a \in answers : a[1] \in {"ok", "error"}
    BY <2>2 DEF Refuse
  <2> QED BY <2>1, <2>2 DEF Node, PublishServed, FetchServed, InferServed, SignServed,
             VerifyServed, LookupServed, InvokeServed
<1> QED BY <1>1 DEF Handle, Answer, Nothing

\* A step of a caller is about one call, and has one of these shapes.
LEMMA CallerSteps ==
  ASSUME NEW c \in Calls, Caller(c)
  PROVE  \/ pc[c] = "idle" /\ ((\E s : Put(c, s)) \/ (\E op, arg : Send(c, op, arg)))
         \/ ReadsChunk(c) \/ Publishes(c) \/ Resend(c) \/ GivesUp(c)
         \/ pc[c] # "done" /\ \E variant, v : Return(c, variant, v)
<1>1. CASE StorageCall(c)
  BY <1>1 DEF StorageCall, Put, Get, Head, Ready, ReadFails, PutReturns, GetReturns,
     HeadReturns, Delete, Replied
<1>2. CASE InferenceCall(c)
  BY <1>2 DEF InferenceCall, Infer, InferReturns, Ready, Replied
<1>3. CASE AttesterCall(c)
  BY <1>3 DEF AttesterCall, SignReceipt, SignDigest, Verify, MayAttest, Ready,
     SignReturns, VerifyReturns, Replied
<1>4. CASE AgentsCall(c)
  BY <1>4 DEF AgentsCall, List, Search, Resolve, Invoke, Ready, LookupReturns,
     InvokeReturns, Replied
<1>5. CASE ErrorReturns(c) \/ Abandon(c)
  BY <1>5 DEF ErrorReturns, Abandon
<1> QED BY <1>1, <1>2, <1>3, <1>4, <1>5 DEF Caller

LEMMA CallerWindsDown ==
  ASSUME IInv, NEW c \in Calls, Caller(c)
  PROVE  Left(c)' < Left(c)
<1>1. ASSUME GivesUp(c) PROVE Left(c)' < Left(c)
  <2>1. \A e : <<"error", e>> # Nothing
    BY DEF Nothing
  <2> QED BY <1>1, <2>1, WaitingWindsDown DEF GivesUp
<1> QED BY <1>1, CallerSteps, BeginWindsDown, ReadingWindsDown, WaitingWindsDown, ReturnWindsDown

LEMMA OthersAreHeld ==
  ASSUME IInv, NEW c \in Calls, Caller(c) \/ (\E n \in Attempts : Node(c, n)),
         NEW d \in Calls \ {c}
  PROVE  Held(d)' = Held(d)
<1>1. CASE Caller(c)
  <2>1. \/ \E s : Put(c, s)
        \/ ReadsChunk(c) \/ Resend(c) \/ GivesUp(c)
        \/ \E op, arg : Send(c, op, arg)
        \/ \E variant, v : Return(c, variant, v)
    BY <1>1 DEF Caller, StorageCall, Get, Head, ReadFails, Publishes, PutReturns, GetReturns,
       HeadReturns, Delete, InferenceCall, Infer, InferReturns, AttesterCall, SignReceipt,
       SignDigest, Verify, SignReturns, VerifyReturns, AgentsCall, List, Search, Resolve,
       Invoke, LookupReturns, InvokeReturns, ErrorReturns, Abandon
  <2> QED BY <2>1 DEF Put, ReadsChunk, Resend, GivesUp, Send, Return, IInv, CallTypes, Held
<1>2. ASSUME NEW n \in Attempts, Node(c, n) PROVE Held(d)' = Held(d)
  BY <1>2, NodeAnswers DEF Held, IInv, CallTypes
<1> QED BY <1>1, <1>2

\* What happens to a call brings its end nearer, for streams of any length and any
\* number of requests; nothing happens to a call that has returned.
THEOREM CallsKeepWindingDown == Spec => CallsWindDown
<1>1. ASSUME IInv, [Next]_vars, NEW d \in Calls, Held(d)' # Held(d)
      PROVE  Left(d)' < Left(d)
  <2>1. CASE Connect \/ (\E did \in Dids : Directory(did)) \/ UNCHANGED vars
    BY <1>1, <2>1 DEF Connect, Directory, AgentComes, AgentGoes, vars, callVars, Held
  <2>2. ASSUME NEW c \in Calls, Caller(c) PROVE Left(d)' < Left(d)
    BY <1>1, <2>2, CallerWindsDown, OthersAreHeld
  <2>3. ASSUME NEW c \in Calls, NEW n \in Attempts, Node(c, n) PROVE Left(d)' < Left(d)
    <3>1. d = c
      BY <1>1, <2>3, OthersAreHeld
    <3>2. UNCHANGED <<pc, request, sent, result>> /\ answer' # answer
      BY <1>1, <2>3, NodeAnswers DEF Held
    <3> QED BY <1>1, <2>3, <3>1, <3>2, NodeAnswers, WaitingWindsDown
  <2> QED BY <1>1, <2>1, <2>2, <2>3 DEF Next
<1>2. IInv /\ [Next]_vars => [\A c \in Calls : Held(c)' # Held(c) => Left(c)' < Left(c)]_vars
  BY <1>1
<1> QED BY <1>2, Invariance, PTL DEF Spec, CallsWindDown

------------------------------------------------------------------------------
(* Agents that go                                                          *)

\* A call of `invoke' has been told that there is no such agent.
ToldNotFound(c) == Op(c) = "invoke" /\ answer[c][1] = "error" /\ answer[c][2] = "NotFound"

MissedInv ==
  \A c \in Calls : Absent(c) \/ ToldNotFound(c) \/ Is(c, "invoke", "Unreachable") => c \in missed

\* Only the node says so, and only when the agent is not there.
LEMMA NotFoundIsAbsent ==
  ASSUME IInv, NEW c \in Calls, Caller(c) \/ (\E n \in Attempts : Node(c, n)),
         NEW d \in Calls, ToldNotFound(d)'
  PROVE  ToldNotFound(d) \/ Absent(d)
<1>1. CASE d # c
  BY <1>1, OthersAreHeld DEF Held, ToldNotFound, Op
<1>2. CASE d = c /\ Caller(c)
  <2>1. CASE pc[c] = "idle" /\ ((\E s : Put(c, s)) \/ (\E op, arg : Send(c, op, arg)))
    <3>1. answer'[c] = Nothing
      BY <2>1, Fresh DEF Put, Send
    <3> QED BY <1>2, <3>1 DEF ToldNotFound, Nothing
  <2>2. CASE pc[c] # "done" /\ \E variant, v : Return(c, variant, v)
    BY <1>2, <2>2 DEF Return, IInv, CallTypes, ToldNotFound, Nothing
  <2>3. CASE ReadsChunk(c) \/ Publishes(c)
    <3>1. answer'[c] = Nothing
      BY <2>3, Fresh DEF ReadsChunk, Publishes, Send
    <3> QED BY <1>2, <3>1 DEF ToldNotFound, Nothing
  <2>4. CASE Resend(c)
    BY <1>2, <2>4 DEF Resend, ToldNotFound, Op
  <2>5. CASE GivesUp(c)
    BY <1>2, <2>5 DEF GivesUp, IInv, CallTypes, ToldNotFound, LinkError
  <2> QED BY <1>2, <2>1, <2>2, <2>3, <2>4, <2>5, CallerSteps
<1>3. ASSUME d = c, NEW n \in Attempts, Node(c, n) PROVE ToldNotFound(c) \/ Absent(c)
  <2>1. Op(c)' = Op(c)
    BY <1>3, NodeAnswers DEF Op
  <2>2. ASSUME NEW replies, Serve(c, n, replies) PROVE ToldNotFound(c)
    BY <1>3, <2>1, <2>2 DEF Serve, Answer, IInv, CallTypes, ToldNotFound
  <2>3. ASSUME Refuse(c, n, Refusals(c)) PROVE ToldNotFound(c) \/ Absent(c)
    <3>1. Answer(c, n, {"error"} \X Refusals(c))
      BY <2>3 DEF Refuse
    <3>2. CASE answer' = answer
      BY <1>3, <2>1, <3>2 DEF ToldNotFound
    <3>3. CASE Unanswered(c) /\ answer'[c] \in {"error"} \X Refusals(c)
      BY <1>3, <2>1, <3>3 DEF ToldNotFound, Absent, Unanswered, Refusals
    <3> QED BY <3>1, <3>2, <3>3 DEF Answer, IInv, CallTypes
  <2> QED BY <1>3, <2>2, <2>3 DEF Node, PublishServed, FetchServed, InferServed, SignServed,
             VerifyServed, LookupServed, InvokeServed
<1> QED BY <1>1, <1>2, <1>3

\* And only who has been told so returns Unreachable.
LEMMA UnreachableIsTold ==
  ASSUME IInv, NEW c \in Calls, Caller(c) \/ (\E n \in Attempts : Node(c, n)),
         NEW d \in Calls, Is(d, "invoke", "Unreachable")'
  PROVE  Is(d, "invoke", "Unreachable") \/ ToldNotFound(d)
<1>1. CASE d # c
  BY <1>1, OthersAreHeld DEF Held, Is, Op
<1>2. ASSUME NEW n \in Attempts, Node(c, n) PROVE Is(d, "invoke", "Unreachable")
  BY <1>2, NodeAnswers DEF Is, Op
<1>3. CASE d = c /\ Caller(c)
  <2>1. CASE ErrorReturns(c)
    <3>1. /\ answer[c][1] = "error" /\ answer[c][2] \in SdkError
          /\ Return(c, TraitError(Op(c), answer[c][2]), "none")
      BY <2>1 DEF ErrorReturns, IInv, CallInv, AnswerInv
    <3>2. Op(c)' = Op(c) /\ result'[c][1] = TraitError(Op(c), answer[c][2])
      BY <3>1 DEF Return, IInv, CallTypes, Op
    <3>3. Op(c) = "invoke" /\ TraitError("invoke", answer[c][2]) = "Unreachable"
      BY <1>3, <3>2 DEF Is
    <3>4. answer[c][2] = "NotFound"
      BY <3>1, <3>3, ErrorsAreTranslated DEF Operations
    <3> QED BY <1>3, <3>1, <3>3, <3>4 DEF ToldNotFound
  <2>2. ASSUME NEW variant, NEW v, Return(c, variant, v), variant # "Unreachable"
        PROVE  FALSE
    BY <1>3, <2>2 DEF Return, IInv, CallTypes, Is
  <2>3. CASE pc[c] = "idle" /\ ((\E s : Put(c, s)) \/ (\E op, arg : Send(c, op, arg)))
    <3>1. result'[c] = Nothing
      BY <2>3, Fresh DEF Put, Send
    <3> QED BY <1>3, <3>1 DEF Is, Nothing
  <2>4. CASE ReadsChunk(c) \/ Publishes(c)
    <3>1. result'[c] = Nothing
      BY <2>4, Fresh DEF ReadsChunk, Publishes, Send
    <3> QED BY <1>3, <3>1 DEF Is, Nothing
  <2>5. CASE Resend(c) \/ GivesUp(c)
    BY <1>3, <2>5 DEF Resend, GivesUp, Is, Op
  <2>6. \/ ErrorReturns(c) \/ ReadsChunk(c) \/ Publishes(c) \/ Resend(c) \/ GivesUp(c)
        \/ pc[c] = "idle" /\ ((\E s : Put(c, s)) \/ (\E op, arg : Send(c, op, arg)))
        \/ \E variant, v : Return(c, variant, v) /\ variant # "Unreachable"
    <3>1. CASE StorageCall(c)
      BY <3>1 DEF StorageCall, Put, Get, Head, Ready, ReadFails, PutReturns, GetReturns,
         HeadReturns, Delete
    <3>2. CASE InferenceCall(c)
      BY <3>2 DEF InferenceCall, Infer, InferReturns, Ready
    <3>3. CASE AttesterCall(c)
      BY <3>3 DEF AttesterCall, SignReceipt, SignDigest, Verify, MayAttest, Ready,
         SignReturns, VerifyReturns
    <3>4. CASE AgentsCall(c)
      BY <3>4 DEF AgentsCall, List, Search, Resolve, Invoke, Ready, LookupReturns,
         InvokeReturns
    <3>5. CASE Abandon(c)
      BY <3>5 DEF Abandon
    <3> QED BY <1>3, <3>1, <3>2, <3>3, <3>4, <3>5 DEF Caller
  <2> QED BY <2>1, <2>2, <2>3, <2>4, <2>5, <2>6
<1> QED BY <1>1, <1>2, <1>3

\* Whatever agents come and go, and however often and late requests are handled, an
\* agent is not called unreachable that was there while the call waited.
THEOREM UnreachableStaysAbsent == Spec => []UnreachableWasAbsent
<1>1. Init => MissedInv
  BY DEF Init, CallInit, MissedInv, Absent, ToldNotFound, Is, Op, Nothing
<1>2. IInv /\ MissedInv /\ [Next]_vars => MissedInv'
  <2> SUFFICES ASSUME IInv, MissedInv, [Next]_vars PROVE MissedInv'
    OBVIOUS
  <2>1. ASSUME NEW c \in Calls, Caller(c) \/ (\E n \in Attempts : Node(c, n)) PROVE MissedInv'
    <3>1. missed' = missed \cup {d \in Calls : Absent(d)'}
      BY <2>1 DEF Caller, Node, Watch
    <3>2. ASSUME NEW d \in Calls, ToldNotFound(d)' \/ Is(d, "invoke", "Unreachable")'
          PROVE  d \in missed
      BY <2>1, <3>2, NotFoundIsAbsent, UnreachableIsTold DEF MissedInv
    <3> QED BY <3>1, <3>2 DEF MissedInv
  <2>2. ASSUME NEW did \in Dids, Directory(did) PROVE MissedInv'
    <3>1. UNCHANGED <<request, answer, result>>
      BY <2>2 DEF Directory, AgentComes, AgentGoes, callVars
    <3>2. missed' = missed \cup {d \in Calls : Absent(d)'}
      BY <2>2 DEF Directory, Watch
    <3> QED BY <3>1, <3>2 DEF MissedInv, ToldNotFound, Is, Op
  <2>3. CASE Connect /\ UNCHANGED <<store, used, agents, missed>>
    BY <2>3 DEF Connect, MissedInv, Absent, ToldNotFound, Is, Op, Arg
  <2>4. CASE UNCHANGED vars
    BY <2>4 DEF vars, callVars, MissedInv, Absent, ToldNotFound, Is, Op, Arg
  <2> QED BY <2>1, <2>2, <2>3, <2>4 DEF Next
<1>3. MissedInv => UnreachableWasAbsent
  BY DEF MissedInv, UnreachableWasAbsent
<1> QED BY <1>1, <1>2, <1>3, Invariance, PTL DEF Spec

------------------------------------------------------------------------------
(* Refinement                                                              *)

phases == [c \in Calls |-> Phase(c)]
claims == [c \in Calls |-> Claim(c)]

\* What a step about one call changes of what RemoteEffect sees.
LEMMA SeenOfOne ==
  ASSUME NEW c \in Calls,
         \A d \in Calls \ {c} :
           pc'[d] = pc[d] /\ sent'[d] = sent[d] /\ result'[d] = result[d]
  PROVE  /\ phases' = [phases EXCEPT ![c] = Phase(c)']
         /\ claims' = [claims EXCEPT ![c] = Claim(c)']
<1>1. \A d \in Calls \ {c} : Phase(d)' = Phase(d) /\ Claim(d)' = Claim(d)
  BY DEF Phase, Claim
<1> QED BY <1>1 DEF phases, claims

\* A call begins with a request, or a put with the first chunk.
LEMMA BeginRefines ==
  ASSUME IInv, NEW c \in Calls, pc[c] = "idle",
         \/ \E s : Put(c, s)
         \/ \E op, arg : Send(c, op, arg)
  PROVE  Effect!Begin(c, 0) \/ Effect!Begin(c, 1)
<1>1. sent[c] = 0 /\ sent = [sent EXCEPT ![c] = 0] /\ phases[c] = "idle"
  BY Fresh DEF IInv, CallTypes, phases, Phase
<1>2. /\ pc'[c] \in {"reading", "waiting"}
      /\ sent' = [sent EXCEPT ![c] = 0] \/ sent' = [sent EXCEPT ![c] = 1]
      /\ fate' = fate /\ result' = result
      /\ \A d \in Calls \ {c} : pc'[d] = pc[d] /\ sent'[d] = sent[d]
  BY <1>1 DEF Put, Send, IInv, CallTypes
<1>3. Phase(c)' = "called" /\ Claim(c)' = Claim(c)
  BY <1>2 DEF Phase, Claim
<1>4. phases' = [phases EXCEPT ![c] = "called"] /\ claims' = claims
  BY <1>2, <1>3, SeenOfOne DEF claims
<1> QED BY <1>1, <1>2, <1>4 DEF Effect!Begin, phases, claims

\* The stream of a put has ended, or the SDK sends again.
LEMMA TryRefines ==
  ASSUME IInv, NEW c \in Calls, Publishes(c) \/ Resend(c)
  PROVE  Effect!Try(c)
<1>1. /\ pc[c] \in {"reading", "waiting"} /\ pc'[c] \in {"reading", "waiting"}
      /\ sent[c] < MaxSends /\ sent' = [sent EXCEPT ![c] = sent[c] + 1]
      /\ fate' = fate /\ result' = result
      /\ \A d \in Calls \ {c} : pc'[d] = pc[d] /\ sent'[d] = sent[d]
  <2>1. CASE Publishes(c)
    <3>1. sent[c] = 0
      BY <2>1, Fresh DEF Publishes
    <3> QED BY <2>1, <3>1, CallAssumption DEF Publishes, Send, IInv, CallTypes
  <2>2. CASE Resend(c)
    BY <2>2 DEF Resend, Unanswered, IInv, CallTypes
  <2> QED BY <2>1, <2>2
<1>2. Phase(c) = "called" /\ Phase(c)' = "called" /\ Claim(c)' = Claim(c)
  BY <1>1 DEF Phase, Claim
<1>3. phases' = phases /\ claims' = claims
  BY <1>1, <1>2, SeenOfOne DEF phases, claims
<1> QED BY <1>1, <1>2, <1>3 DEF Effect!Try, phases, claims

\* What is returned claims nothing that has not happened.
LEMMA ReturnRefines ==
  ASSUME IInv, IInv', NEW c \in Calls, pc[c] # "done", NEW variant, NEW v,
         Return(c, variant, v)
  PROVE  \E k \in {"done", "undone", "unknown"} : Effect!Return(c, k)
<1>1. /\ pc'[c] = "done" /\ sent' = sent /\ fate' = fate /\ Op(c)' = Op(c)
      /\ \A d \in Calls \ {c} : pc'[d] = pc[d] /\ result'[d] = result[d]
  BY DEF Return, IInv, CallTypes, Op
<1>2. Phase(c)' = "returned" /\ Claim(c)' \in {"done", "undone", "unknown"} /\ Phase(c) # "returned"
  BY <1>1 DEF Phase, Claim
<1>3. /\ phases' = [phases EXCEPT ![c] = "returned"]
      /\ claims' = [claims EXCEPT ![c] = Claim(c)']
  BY <1>1, <1>2, SeenOfOne
<1>4. ResultInv(c)' /\ SentInv(c)' /\ sent[c] \in 0..MaxSends
  BY DEF IInv, CallInv, CallTypes
<1>5. Claim(c)' = "done" => sent[c] > 0 /\ Last(c) = "done"
  <2>1. ASSUME Claim(c)' = "done" PROVE result'[c][1] = "Ok" /\ sent[c] > 0
    BY <1>1, <2>1 DEF Claim
  <2> QED BY <1>1, <1>4, <2>1 DEF ResultInv, ResultFits, SentInv, Operations, Last
<1>6. Claim(c)' = "undone" => sent[c] = 0 \/ Last(c) = "void"
  <2>1. ASSUME Claim(c)' = "undone" PROVE result'[c][1] \in Refused
    BY <1>1, <2>1 DEF Claim
  <2> QED BY <1>1, <1>4, <2>1 DEF ResultInv, ResultFits, Last
<1>7. Effect!True(c, Claim(c)')
  BY <1>5, <1>6 DEF Effect!True, Last
<1>8. Effect!Return(c, Claim(c)')
  BY <1>1, <1>2, <1>3, <1>7 DEF Effect!Return, phases, claims
<1> QED BY <1>2, <1>8

\* A request is handled, whatever becomes of its answer.
LEMMA SettleRefines ==
  ASSUME IInv, NEW c \in Calls, NEW n \in Attempts, NEW f \in {"done", "void"},
         Handle(c, n, f)
  PROVE  Effect!Settle(c, n, f)
<1>1. phases' = phases /\ claims' = claims
  BY DEF Handle, phases, claims, Phase, Claim
<1> QED BY <1>1 DEF Handle, Effect!Settle, phases, claims

\* Everything else is not seen.
LEMMA UnseenRefines ==
  ASSUME UNCHANGED <<pc, sent, fate, result>>
  PROVE  UNCHANGED Effect!vars
<1>1. phases' = phases /\ claims' = claims
  BY DEF phases, claims, Phase, Claim
<1> QED BY <1>1 DEF Effect!vars, phases, claims

LEMMA StepRefines ==
  ASSUME IInv, IInv', [Next]_vars
  PROVE  [Effect!Next]_(Effect!vars)
<1>1. Effect!Tries = Attempts
  BY DEF Effect!Tries, Attempts
<1>2. CASE Connect \/ (\E did \in Dids : Directory(did)) \/ UNCHANGED vars
  BY <1>2, UnseenRefines DEF Connect, Directory, AgentComes, AgentGoes, vars, callVars
<1>3. ASSUME NEW c \in Calls, Caller(c) PROVE [Effect!Next]_(Effect!vars)
  <2>1. CASE pc[c] = "idle" /\ ((\E s : Put(c, s)) \/ (\E op, arg : Send(c, op, arg)))
    BY <2>1, BeginRefines DEF Effect!Next
  <2>2. CASE Publishes(c) \/ Resend(c)
    BY <2>2, TryRefines DEF Effect!Next
  <2>3. CASE pc[c] # "done" /\ \E variant, v : Return(c, variant, v)
    BY <2>3, ReturnRefines DEF Effect!Next
  <2>4. CASE UNCHANGED <<pc, sent, fate, result>>
    BY <2>4, UnseenRefines
  <2>5. ReadsChunk(c) \/ GivesUp(c) => UNCHANGED <<pc, sent, fate, result>>
    BY DEF ReadsChunk, GivesUp
  <2> QED BY <1>3, <2>1, <2>2, <2>3, <2>4, <2>5, CallerSteps
<1>4. ASSUME NEW c \in Calls, NEW n \in Attempts, Node(c, n) PROVE Effect!Next
  <2>1. PICK f \in {"done", "void"} : Handle(c, n, f)
    BY <1>4 DEF Node, PublishServed, FetchServed, InferServed, SignServed, VerifyServed,
       LookupServed, InvokeServed, Serve, Refuse
  <2> QED BY <1>1, <2>1, SettleRefines DEF Effect!Next
<1> QED BY <1>2, <1>3, <1>4 DEF Next

\* The five adapters implement RemoteEffect: an Ok is never more than what the node
\* has done, a refusal never less, whatever is lost, late or sent again.
THEOREM Implementation == Spec => ImplementsRemoteEffect
<1>1. Init => Effect!Init
  BY DEF Init, CallInit, Effect!Init, Effect!Tries, Attempts, Phase, Claim
<1>2. IInv /\ IInv' /\ [Next]_vars => [Effect!Next]_(Effect!vars)
  BY StepRefines
<1> QED BY <1>1, <1>2, Invariance, PTL DEF Spec, ImplementsRemoteEffect, Effect!Spec

==============================================================================
