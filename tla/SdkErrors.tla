------------------------------ MODULE SdkErrors ------------------------------
(***************************************************************************)
(* The errors of tenzro-sdk as this repository matches on them, and what   *)
(* the private `map_sdk' of an adapter makes of them: the error of the     *)
(* trait it implements.  A translated error is the name of the variant;    *)
(* the text it carries is left out.                                        *)
(***************************************************************************)

(***************************************************************************)
(* The variants some map_sdk names; "Other" stands for every variant that  *)
(* none of them names, which each one sends to its catch-all arm.          *)
(***************************************************************************)
SdkError ==
  {"ConnectionError", "RpcError", "Timeout", "InsufficientFunds", "NotFound",
   "AuthenticationError", "InvalidParameter", "InferenceError",
   "SettlementError", "Other"}

\* The errors that every map_sdk takes for a link that is down.
LinkError == {"ConnectionError", "RpcError"}

\* broker.rs: WorkBrokerError
BrokerError(e) ==
  CASE e \in LinkError -> "Unreachable"
    [] e = "Timeout"   -> "Transient"
    [] OTHER           -> "Failed"

\* Mutant: a link that is down is taken for a refusal.
SettlementErrorRefuses(e) ==
  CASE e \in LinkError \cup {"Timeout", "InsufficientFunds"} -> "Refused"
    [] OTHER -> "Failed"

\* work_settlement.rs: WorkSettlementError.  A SettlementError and every other
\* error the match does not name are both Failed.
SettlementError(e) ==
  CASE e \in LinkError \cup {"Timeout"} -> "Transient"
    [] e = "InsufficientFunds"          -> "Refused"
    [] OTHER                            -> "Failed"

\* storage_backend.rs: StorageError
StorageError(e) ==
  CASE e \in LinkError \cup {"Timeout"} -> "Transient"
    [] e = "NotFound"                   -> "NotFound"
    [] e = "AuthenticationError"        -> "Unauthorised"
    [] OTHER                            -> "Failed"

\* Mutant: no answer in time makes the caller fall back to its own engine.
InferenceErrorDeclines(e) ==
  CASE e \in LinkError -> "Transient"
    [] e \in {"Timeout", "NotFound", "InvalidParameter", "InsufficientFunds"} -> "Declined"
    [] OTHER -> "Failed"

\* remote_inference.rs: RemoteInferenceError
InferenceError(e) ==
  CASE e \in LinkError \cup {"Timeout"} -> "Transient"
    [] e \in {"NotFound", "InvalidParameter", "InsufficientFunds"} -> "Declined"
    [] OTHER -> "Failed"

\* Mutant: a timeout is an error like any other.
AttesterErrorHard(e) == IF e \in LinkError THEN "Transient" ELSE "Failed"

\* attester.rs: AttesterError
AttesterError(e) == IF e \in LinkError \cup {"Timeout"} THEN "Transient" ELSE "Failed"

\* agent_registry.rs: AgentRegistryError
RegistryError(e) == IF e \in LinkError \cup {"Timeout"} THEN "Transient" ELSE "Lookup"

\* Mutant: a link that is down is taken for an agent that is not there.
InvokerErrorUnreachable(e) ==
  CASE e \in LinkError \cup {"NotFound"} -> "Unreachable"
    [] e = "Timeout"                      -> "Transient"
    [] e \in {"AuthenticationError", "InsufficientFunds"} -> "PaymentRefused"
    [] OTHER                              -> "Remote"

\* Mutant: a call that is not confirmed in time is taken for an agent that is not there.
InvokerErrorTimesOut(e) ==
  CASE e \in LinkError                     -> "Transient"
    [] e \in {"NotFound", "Timeout"}       -> "Unreachable"
    [] e \in {"AuthenticationError", "InsufficientFunds"} -> "PaymentRefused"
    [] OTHER                               -> "Remote"

\* agent_invoker.rs: AgentInvokerError
InvokerError(e) ==
  CASE e \in LinkError \cup {"Timeout"} -> "Transient"
    [] e = "NotFound"                   -> "Unreachable"
    [] e \in {"AuthenticationError", "InsufficientFunds"} -> "PaymentRefused"
    [] OTHER                            -> "Remote"

==============================================================================
