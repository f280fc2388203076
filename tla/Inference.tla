------------------------------ MODULE Inference ------------------------------
(***************************************************************************)
(* TenzroRemoteInference (remote_inference.rs).  The prompt and the text   *)
(* are left out; the tokens are counted, by the node and by the adapter.   *)
(***************************************************************************)
EXTENDS SdkCall

CONSTANTS
  Usages,  \* tokens that one inference may use
  U32Max

ASSUME InferenceAssumption == Usages \subseteq Nat /\ U32Max \in Nat

VARIABLE used  \* the node: tokens used for each call

------------------------------------------------------------------------------
\* Anything but a text completion is declined at once.
Infer(c, kind) ==
  /\ Ready(c, "infer")
  /\ IF kind = "text" THEN Send(c, "infer", kind) ELSE Return(c, "Declined", "none")

\* Mutant: the count is cut down to its width.
CompletionTokensWrapped(n) == n % (U32Max + 1)

CompletionTokens(n) == IF n <= U32Max THEN n ELSE U32Max

InferReturns(c) ==
  /\ Replied(c, {"infer"})
  /\ Return(c, "Ok", CompletionTokens(answer[c][2]))

InferenceCall(c) == (\E kind \in {"text", "tensor"} : Infer(c, kind)) \/ InferReturns(c)

\* The node
InferServed(c, n) ==
  /\ Op(c) = "infer"
  /\ \E tokens \in Usages :
       /\ Serve(c, n, {tokens})
       /\ used' = [used EXCEPT ![c] = @ + tokens]

==============================================================================
