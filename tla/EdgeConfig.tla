------------------------------ MODULE EdgeConfig ------------------------------
(***************************************************************************)
(* TenzroEdgeConfig (client.rs): what the environment variables make of    *)
(* the configuration that every SDK call obeys.  An environment gives each *)
(* variable a value: Unset, Garbage (set, and refused by `parse': it is no *)
(* number, or one too wide for its field), or what it says.  std::env::var *)
(* also fails on a value that is not Unicode, and `.ok()' then takes the   *)
(* variable for unset: NotUnicode.                                         *)
(***************************************************************************)
EXTENDS Naturals

CONSTANTS
  Unset, Garbage, NotUnicode,
  DefaultRetries  \* 3 in the code

ASSUME ConfigAssumption ==
  /\ DefaultRetries \in Nat
  /\ {Unset, Garbage, NotUnicode} \cap Nat = {}

NumericText == Nat \cup {Unset, Garbage, NotUnicode}

Environment ==
  [rpc_url : {Unset, "url"}, chain_id : NumericText, timeout_ms : NumericText,
   max_retries : NumericText, signing_key : {Unset, "key"}]

\* Mutant: what is not a number is taken for unset.
NumberOr(text, default) ==
  IF text \in {Unset, NotUnicode, Garbage} THEN {default} ELSE {text}

\* One number, or none when the text is not one.
Number(text, default) ==
  CASE text \in {Unset, NotUnicode} -> {default}
    [] text = Garbage               -> {}
    [] OTHER                        -> {text}

\* from_env, and into_sdk_config, which keeps every field: one configuration, or
\* none for TenzroEdgeError::Config.
FromEnv(env) ==
  [endpoint    : {env.rpc_url} \ {Unset},
   chain_id    : Number(env.chain_id, 1),
   timeout_ms  : Number(env.timeout_ms, 30000),
   max_retries : Number(env.max_retries, DefaultRetries)]

==============================================================================
