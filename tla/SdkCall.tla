------------------------------- MODULE SdkCall -------------------------------
(***************************************************************************)
(* What every adapter operation that is one SDK call has in common: the    *)
(* TenzroHandle it is made with (client.rs), the request the SDK sends, and*)
(* sends again, the end with a result of the trait.  The SDK and the node  *)
(* are external: a request may be handled late, also after its caller has  *)
(* gone, its answer may be lost, and a gateway may answer in its place.    *)
(***************************************************************************)
EXTENDS EdgeConfig, SdkErrors

CONSTANTS
  Calls,     \* calls of the adapters, each made at most once
  Plans,     \* operations each call may be of
  Envs,      \* environments the process may be started in
  NoConfig,  \* no handle yet
  MaxSends   \* bound on the requests of one call

Operations == {"put", "get", "head", "delete", "infer", "sign", "verify", "list",
               "search", "resolve", "invoke"}

ASSUME CallAssumption ==
  /\ Plans \subseteq [Calls -> SUBSET Operations]
  /\ Envs \subseteq Environment
  /\ NoConfig \notin UNION {FromEnv(e) : e \in Envs}
  /\ MaxSends \in Nat \ {0}

Attempts == 1..MaxSends

VARIABLES
  plan,     \* what the program is going to call
  env,      \* the environment
  config,   \* that of the handle
  pc,       \* where each call stands
  request,  \* its operation, and what it hands to the SDK
  sent,     \* how many requests the SDK has sent for it
  answer,   \* what the SDK hands back: nothing yet, an error or a reply
  result,   \* what the call returned: a variant of the trait, and a value
  fate      \* the node: what became of each request

callVars == <<plan, env, config, pc, request, sent, answer, result, fate>>

Nothing == <<"none", "none">>

Op(c) == request[c][1]
Arg(c) == request[c][2]

------------------------------------------------------------------------------
(* The handle                                                              *)

\* connect_from_env.  When it fails, with Config or with Sdk, nothing has changed.
Connect ==
  /\ config = NoConfig
  /\ config' \in FromEnv(env)
  /\ UNCHANGED <<plan, env, pc, request, sent, answer, result, fate>>

------------------------------------------------------------------------------
(* The call                                                                *)

Ready(c, op) == config # NoConfig /\ pc[c] = "idle" /\ op \in plan[c]

Send(c, op, arg) ==
  /\ pc' = [pc EXCEPT ![c] = "waiting"]
  /\ request' = [request EXCEPT ![c] = <<op, arg>>]
  /\ sent' = [sent EXCEPT ![c] = 1]
  /\ UNCHANGED <<plan, env, config, answer, result, fate>>

Return(c, variant, value) ==
  /\ pc' = [pc EXCEPT ![c] = "done"]
  /\ result' = [result EXCEPT ![c] = <<variant, value>>]
  /\ answer' = [answer EXCEPT ![c] = Nothing]
  /\ UNCHANGED <<plan, env, config, request, sent, fate>>

\* A reply came for an operation among ops.
Replied(c, ops) == pc[c] = "waiting" /\ answer[c][1] = "ok" /\ Op(c) \in ops

\* The map_sdk of the adapter that made the call.
TraitError(op, e) ==
  CASE op \in {"put", "get", "head"}        -> StorageError(e)
    [] op = "infer"                         -> InferenceError(e)
    [] op \in {"sign", "verify"}            -> AttesterError(e)
    [] op \in {"list", "search", "resolve"} -> RegistryError(e)
    [] op = "invoke"                        -> InvokerError(e)

\* Mutant: the adapter waits for a better answer after an error that may pass.
ErrorRetried(c) ==
  /\ pc[c] = "waiting"
  /\ answer[c][1] = "error"
  /\ IF TraitError(Op(c), answer[c][2]) = "Transient"
       THEN /\ answer' = [answer EXCEPT ![c] = Nothing]
            /\ UNCHANGED <<plan, env, config, pc, request, sent, result, fate>>
       ELSE Return(c, TraitError(Op(c), answer[c][2]), "none")

ErrorReturns(c) ==
  /\ pc[c] = "waiting"
  /\ answer[c][1] = "error"
  /\ Return(c, TraitError(Op(c), answer[c][2]), "none")

\* The caller drops the future; what was sent is not taken back.
Abandon(c) == pc[c] \in {"reading", "waiting"} /\ Return(c, "Dropped", "none")

------------------------------------------------------------------------------
(* The SDK: without an answer it sends the request again, or gives up.     *)

Unanswered(c) == pc[c] = "waiting" /\ answer[c] = Nothing

Resend(c) ==
  /\ Unanswered(c)
  /\ sent[c] <= config.max_retries
  /\ sent[c] < MaxSends
  /\ sent' = [sent EXCEPT ![c] = @ + 1]
  /\ UNCHANGED <<plan, env, config, pc, request, answer, result, fate>>

\* The node is not reached: no connection, no answer, or an error of the transport.
GivesUp(c) ==
  /\ Unanswered(c)
  /\ \E e \in LinkError \cup {"Timeout"} :
       answer' = [answer EXCEPT ![c] = <<"error", e>>]
  /\ UNCHANGED <<plan, env, config, pc, request, sent, result, fate>>

------------------------------------------------------------------------------
(* The node                                                                *)

\* What it says no with.  A NotFound of `invoke' is in module Agents.
Refusal == SdkError \ {"ConnectionError", "Timeout"}

\* An answer is lost, or reaches the call if that waits for this very request.
Answer(c, n, answers) ==
  \/ UNCHANGED answer
  \/ /\ Unanswered(c) /\ sent[c] = n
     /\ \E a \in answers : answer' = [answer EXCEPT ![c] = a]

Handle(c, n, f) ==
  /\ n <= sent[c]
  /\ fate[<<c, n>>] = "open"
  /\ fate' = [fate EXCEPT ![<<c, n>>] = f]
  /\ UNCHANGED <<plan, env, config, pc, request, sent, result>>

\* It does what it is asked; the reply may be replaced or made unreadable.
Serve(c, n, replies) ==
  /\ Handle(c, n, "done")
  /\ Answer(c, n, ({"ok"} \X replies) \cup ({"error"} \X {"RpcError", "Other"}))

Refuse(c, n, errors) ==
  /\ Handle(c, n, "void")
  /\ Answer(c, n, {"error"} \X errors)

------------------------------------------------------------------------------
CallInit ==
  /\ plan \in Plans
  /\ env \in Envs
  /\ config = NoConfig
  /\ pc = [c \in Calls |-> "idle"]
  /\ request = [c \in Calls |-> Nothing]
  /\ sent = [c \in Calls |-> 0]
  /\ answer = [c \in Calls |-> Nothing]
  /\ result = [c \in Calls |-> Nothing]
  /\ fate = [r \in Calls \X Attempts |-> "open"]

==============================================================================
