------------------------------ MODULE MCAdapters ------------------------------
(***************************************************************************)
(* Instances of Adapters for TLC.                                          *)
(***************************************************************************)
EXTENDS Adapters

CONSTANTS a, b, s1, r1, r2, r3, d1, d2, own, other, did1, skill, name

\* Calls of two adapters cannot meet: the pairs that can.
MCPlans ==
  {[c \in Calls |-> IF c = a THEN p[1] ELSE p[2]] :
     p \in {<<{"put"}, {"put", "get", "head", "delete"}>>,
           <<{"infer"}, {}>>,
           <<{"sign"}, {"verify"}>>,
           <<{"list", "search", "resolve"}, {"invoke"}>>}}

MCEnv == [rpc_url |-> "url", chain_id |-> Unset, timeout_ms |-> Unset,
          max_retries |-> Unset, signing_key |-> "key"]

\* The default of one retry; no retries, and a value that is not Unicode or no key;
\* values that stop the start.
MCEnvs ==
  {MCEnv,
   [MCEnv EXCEPT !.max_retries = 0, !.timeout_ms = NotUnicode],
   [MCEnv EXCEPT !.max_retries = 0, !.signing_key = Unset],
   [MCEnv EXCEPT !.max_retries = Garbage],
   [MCEnv EXCEPT !.timeout_ms = Garbage],
   [MCEnv EXCEPT !.rpc_url = Unset]}

MCDigest == [r \in Receipts |-> IF r = r1 THEN d1 ELSE d2]

MCSkills == {[skill_id |-> skill, creator_did |-> did1, name |-> NoName, tags |-> {name}]}

\* Agents come and go only beside calls that may look at them.
Looking == \E c \in Calls : plan[c] \cap {"list", "search", "resolve", "invoke"} # {}
MCInit == Init /\ (Looking \/ agents = {})

\* A verification sees of a sign only what that has returned: it is made after it.
SignFirst ==
  \A s, v \in Calls :
    "sign" \in plan[s] /\ "verify" \in plan[v] /\ pc[v] # "idle" => pc[s] = "done"
MCNext == Next /\ (Looking \/ UNCHANGED agents) /\ SignFirst'
MCSpec == MCInit /\ [][MCNext]_vars /\ Fairness

==============================================================================
