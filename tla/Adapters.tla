------------------------------- MODULE Adapters -------------------------------
(***************************************************************************)
(* The adapters whose operations are one SDK call each, on one node: blob  *)
(* storage, remote inference, attestation, the registry of agents and      *)
(* their invocation.  Their calls share a TenzroHandle and nothing else.   *)
(***************************************************************************)
EXTENDS Storage, Inference, Attester, Agents

vars == <<callVars, store, used, agents, missed>>

------------------------------------------------------------------------------
Caller(c) ==
  /\ \/ StorageCall(c) \/ InferenceCall(c) \/ AttesterCall(c) \/ AgentsCall(c)
     \/ ErrorReturns(c) \/ Abandon(c)
     \/ Resend(c) \/ GivesUp(c)
  /\ UNCHANGED <<store, used, agents>>
  /\ Watch

\* What the node says no with; only an agent that is not there is NotFound.
Refusals(c) == Refusal \ (IF Op(c) = "invoke" /\ Arg(c) \in agents THEN {"NotFound"} ELSE {})

Node(c, n) ==
  /\ \/ (PublishServed(c, n) \/ FetchServed(c, n)) /\ UNCHANGED used
     \/ InferServed(c, n) /\ UNCHANGED store
     \/ /\ \/ SignServed(c, n) \/ VerifyServed(c, n)
           \/ LookupServed(c, n) \/ InvokeServed(c, n) \/ Refuse(c, n, Refusals(c))
        /\ UNCHANGED <<store, used>>
  /\ UNCHANGED agents
  /\ Watch

\* Agents come and go without regard to calls.
Directory(did) ==
  /\ AgentComes(did) \/ AgentGoes(did)
  /\ UNCHANGED <<store, used>>
  /\ Watch

Init ==
  /\ CallInit
  /\ store = {}
  /\ used = [c \in Calls |-> 0]
  /\ agents \in SUBSET Dids
  /\ missed = {}

Next ==
  \/ Connect /\ UNCHANGED <<store, used, agents, missed>>
  \/ \E c \in Calls : Caller(c) \/ \E n \in Attempts : Node(c, n)
  \/ \E did \in Dids : Directory(did)

Spec == Init /\ [][Next]_vars

\* The caller's stream goes on, the SDK gives a request up in time, and the
\* executor runs what is ready.
Moves(c) == /\ ReadsChunk(c) \/ ReadFails(c) \/ Publishes(c)
            /\ UNCHANGED <<store, used, agents>>
            /\ Watch
Returns(c) == answer[c] # Nothing /\ Caller(c)
Ends(c) == GivesUp(c) /\ UNCHANGED <<store, used, agents>> /\ Watch

Fairness == \A c \in Calls : WF_vars(Moves(c)) /\ WF_vars(Returns(c)) /\ WF_vars(Ends(c))

FairSpec == Spec /\ Fairness

------------------------------------------------------------------------------
(* Properties                                                              *)

Is(c, op, variant) == Op(c) = op /\ result[c][1] = variant

Arguments(op) ==
  CASE op = "none"                          -> {"none"}
    [] op = "put"                           -> Blobs
    [] op \in {"get", "head"}               -> Streams \X {Length}
    [] op = "infer"                         -> {"text"}
    [] op = "sign"                          -> Digests
    [] op = "verify"                        -> Attestation
    [] op \in {"list", "search"}            -> {"none"}
    [] op \in {"resolve", "invoke"}         -> Dids

CallTypes ==
  /\ plan \in Plans
  /\ env \in Envs
  /\ config \in {NoConfig} \cup FromEnv(env)
  /\ pc \in [Calls -> {"idle", "reading", "waiting", "done"}]
  /\ sent \in [Calls -> 0..MaxSends]
  /\ fate \in [Calls \X Attempts -> {"open", "done", "void"}]
  /\ DOMAIN request = Calls /\ DOMAIN answer = Calls /\ DOMAIN result = Calls
  /\ \A c \in Calls : Op(c) \in Operations \cup {"none"} /\ Arg(c) \in Arguments(Op(c))
  /\ store \subseteq Blobs
  /\ used \in [Calls -> Nat]

AgentTypes == agents \subseteq Dids /\ missed \subseteq Calls

\* Every variable has its type; a request is of what its operation takes: a key
\* of a whole blob, a DID of an identity.
TypeOK == CallTypes /\ AgentTypes

\* What is stored is the whole of a stream, also when a stream breaks off or its
\* put is dropped; and what is read under a key that a put has returned has the
\* size and the digest the put has told.
BlobsAreWhole ==
  /\ \A b \in store : b[2] = Length
  /\ \A p, q \in Calls :
       Is(p, "put", "Ok") /\ (Is(q, "get", "Ok") \/ Is(q, "head", "Ok")) =>
         LET told == result[p][2] IN
           Arg(q) = told.key =>
             result[q][2] = IF Op(q) = "get" THEN told.digest ELSE told

\* lib.rs:27-29: a call none of whose requests the node ever handled is Transient,
\* whatever the adapter: no retry and no timeout makes it a hard failure.
UnreachedIsTransient ==
  \A c \in Calls :
    /\ pc[c] = "done" /\ sent[c] > 0 /\ result[c][1] # "Dropped"
    /\ \A n \in Attempts : fate[<<c, n>>] = "open"
    => result[c][1] = "Transient"

\* The caller falls back to its own engine when an inference is Declined: the
\* request that was declined is not served, then or later, so that one prompt does
\* not run in both places, unless the SDK had sent it before.
DeclinedIsNotServed ==
  \A c \in Calls :
    Is(c, "infer", "Declined") => \A n \in Attempts : fate[<<c, n>>] = "done" => n < sent[c]

\* The tokens that a caller counts are those the node has used for the call, or as
\* many as can be counted, unless the SDK had sent the prompt before.
TokensAreCounted ==
  \A c \in Calls :
    Is(c, "infer", "Ok") /\ sent[c] = 1 => result[c][2] \in {used[c], U32Max}

\* A verification vouches for the key that the attestation brings with it, not for
\* this node.  Of those that bring this node's key it says yes exactly to what a sign
\* has returned, however parts of several are put together; of the others to what
\* the holder of that key has signed.  And it says no to nothing it should say yes to.
VerifyVouchesForItsKey ==
  \A c \in Calls :
    Op(c) = "verify" /\ result[c][1] \in {"Ok", "Invalid"} =>
      (result[c][1] = "Ok" <=>
         IF Arg(c).proof.public_key = OwnKey THEN Arg(c) \in Attested ELSE Holds(Arg(c)))

\* The caller strikes an agent off its list when it is Unreachable: one that was
\* there all the time the call waited is never called so, whether the link was down,
\* an earlier request was lost or the lookup that found it is out of date.
UnreachableWasAbsent == \A c \in Calls : Is(c, "invoke", "Unreachable") => c \in missed

\* What the environment says of retries is obeyed.  Without an endpoint, or with a
\* value that cannot be read as a number, nothing is sent at all: what is there and
\* wrong never becomes a default, as a variable that is unset does.
EnvironmentIsObeyed ==
  \A c \in Calls :
    /\ sent[c] > 0 => /\ env.rpc_url # Unset
                      /\ Garbage \notin {env.chain_id, env.timeout_ms, env.max_retries}
    /\ env.max_retries \in Nat => sent[c] <= 1 + env.max_retries

\* What may still happen to a call: chunks to read, requests and answers to come.
Left(c) ==
  CASE pc[c] = "idle"    -> Length + 2 * MaxSends + 2
    [] pc[c] = "reading" -> (Length - Arg(c)[2]) + 2 * MaxSends + 1
    [] pc[c] = "waiting" -> 2 * (MaxSends - sent[c]) + IF answer[c] = Nothing THEN 2 ELSE 1
    [] pc[c] = "done"    -> 0

Held(c) == <<pc[c], request[c], sent[c], answer[c], result[c]>>

\* No call runs in circles, whatever the stream, the SDK and the node do: all that
\* happens to it brings its end nearer, and what comes after its end, a late answer
\* above all, does not change what it has returned.
CallsWindDown == [][\A c \in Calls : Held(c)' # Held(c) => Left(c)' < Left(c)]_vars

\* Every call returns: the SDK gives up in the end, and no adapter tries again
\* after an error by itself.
CallsReturn == \A c \in Calls : pc[c] \in {"reading", "waiting"} ~> pc[c] = "done"

------------------------------------------------------------------------------
(* The calls implement RemoteEffect: an Ok stands for an effect that has   *)
(* happened, a refusal for one that never will, everything else, Transient *)
(* above all, for neither.                                                 *)

Refused == {"Declined", "PaymentRefused", "Unreachable", "NotFound", "Unauthorised"}

Phase(c) ==
  CASE pc[c] = "idle" -> "idle"
    [] pc[c] = "done" -> "returned"
    [] OTHER          -> "called"

Claim(c) ==
  IF pc[c] # "done" THEN "none"
  ELSE CASE result[c][1] = "Ok" /\ sent[c] > 0 -> "done"
         [] result[c][1] \in Refused           -> "undone"
         [] OTHER                              -> "unknown"

Effect == INSTANCE RemoteEffect
  WITH MaxTries <- MaxSends, tries <- sent, effect <- fate,
       phase <- [c \in Calls |-> Phase(c)], claim <- [c \in Calls |-> Claim(c)]

ImplementsRemoteEffect == Effect!Spec

==============================================================================
