-------------------------------- MODULE Agents --------------------------------
(***************************************************************************)
(* TenzroAgentRegistry (agent_registry.rs) and TenzroAgentInvoker          *)
(* (agent_invoker.rs): agents are looked up, and called by the DID of the  *)
(* descriptor found.  Of a descriptor the DID and the skills are kept; its *)
(* name and meta are for display, which is where a human is told from a    *)
(* machine.  What is found need not be an agent: `search' finds creators   *)
(* of skills, `resolve' any identity, and agents come and go.              *)
(***************************************************************************)
EXTENDS SdkCall

CONSTANTS
  Dids,      \* of the node's identities
  SkillIds,
  Names,     \* names and tags of skills
  NoName,    \* the empty name
  Skills     \* the node's skills

ASSUME AgentsAssumption ==
  /\ Dids \cap SkillIds = {}
  /\ Skills \subseteq [skill_id : SkillIds, creator_did : Dids,
                       name : Names \cup {NoName}, tags : SUBSET Names]

VARIABLES
  agents,  \* the node: identities it has an agent of, to which it delivers messages
  missed   \* history: calls of `invoke' whose agent was not there while they waited

------------------------------------------------------------------------------
(* The registry                                                            *)

\* An AgentIdentity and an IdentityInfo have a DID and no skills.
OfAgent(did) == [did |-> did, skills |-> {}]

\* Mutant: the descriptor of a skill is keyed on the skill.
OfSkillById(s) == [did |-> s.skill_id, skills |-> s.tags \cup ({s.name} \ {NoName})]

OfSkill(s) == [did |-> s.creator_did, skills |-> s.tags \cup ({s.name} \ {NoName})]

List(c) == Ready(c, "list") /\ Send(c, "list", "none")
Search(c) == Ready(c, "search") /\ Send(c, "search", "none")
Resolve(c, did) == Ready(c, "resolve") /\ Send(c, "resolve", did)

LookupReturns(c) ==
  /\ Replied(c, {"list", "search", "resolve"})
  /\ LET of(e) == IF Op(c) = "search" THEN OfSkill(e) ELSE OfAgent(e) IN
       Return(c, "Ok", {of(e) : e \in answer[c][2]})

Found ==
  UNION {result[l][2] : l \in {q \in Calls : /\ Op(q) \in {"list", "search", "resolve"}
                                             /\ result[q][1] = "Ok"}}

------------------------------------------------------------------------------
(* The invoker                                                             *)

Invoke(c, did) == Ready(c, "invoke") /\ Send(c, "invoke", did)

\* An AgentReply that confirms the delivery.
InvokeReturns(c) == Replied(c, {"invoke"}) /\ Return(c, "Ok", "none")

AgentsCall(c) ==
  \/ List(c) \/ Search(c) \/ (\E did \in Dids : Resolve(c, did))
  \/ \E d \in Found : Invoke(c, d.did)
  \/ LookupReturns(c) \/ InvokeReturns(c)

------------------------------------------------------------------------------
(* The node                                                                *)

AgentComes(did) == did \notin agents /\ agents' = agents \cup {did} /\ UNCHANGED callVars
AgentGoes(did) == did \in agents /\ agents' = agents \ {did} /\ UNCHANGED callVars

LookupServed(c, n) ==
  \/ Op(c) = "list" /\ Serve(c, n, SUBSET agents)
  \/ Op(c) = "search" /\ Serve(c, n, SUBSET Skills)
  \/ Op(c) = "resolve" /\ Serve(c, n, {{Arg(c)}})

InvokeServed(c, n) == Op(c) = "invoke" /\ Arg(c) \in agents /\ Serve(c, n, {"delivered"})

\* The agent called is not there at this moment.
Absent(c) == pc[c] = "waiting" /\ Op(c) = "invoke" /\ Arg(c) \notin agents
Watch == missed' = missed \cup {c \in Calls : Absent(c)'}

==============================================================================
