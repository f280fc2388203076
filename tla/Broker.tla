------------------------------- MODULE Broker --------------------------------
(***************************************************************************)
(* TenzroBroker::offer (broker.rs): post a task on the marketplace, then   *)
(* poll it until its status is terminal or the deadline has passed.  Any   *)
(* number of offers run at once; each is one call of `offer'.  The         *)
(* marketplace and the SDK's transport are external: a request that was    *)
(* sent may be accepted late, twice (one SDK retry each) or after its      *)
(* caller has returned, and a response is a snapshot that may be stale     *)
(* when it is read.                                                        *)
(*                                                                         *)
(* Time is discrete.  A local step takes no time; an SDK call takes at     *)
(* most RpcBound, its own retries and timeouts included.                   *)
(***************************************************************************)
EXTENDS Integers, FiniteSets, SdkErrors

CONSTANTS
  Offers,          \* calls of `offer', each made at most once
  DeadlineSecs,    \* WorkOffer::deadline_secs, an Option
  NoDeadline,      \* its None
  DefaultDeadline,
  PollInterval,
  RpcBound,        \* longest time one SDK call can take
  PostAttempts,    \* 1 + max_retries: how often post_task may be sent
  Agents,
  NoAgent,         \* assigned_agent: None
  StatusShapes,    \* how TaskInfo::status may be written as JSON
  LastCall,        \* bound: no offer is called after this time
  MaxClock         \* bound: the clock stops here

Attempts == 1..PostAttempts
\* The task that the n-th request of offer o creates.
Tasks == Offers \X Attempts

ASSUME DeadlineAssumption ==
  /\ DefaultDeadline \in Nat
  /\ NoDeadline \notin Nat
  /\ DeadlineSecs \in [Offers -> Nat \cup {NoDeadline}]

ASSUME TimingAssumption ==
  /\ PollInterval \in Nat
  /\ RpcBound \in Nat
  /\ PostAttempts \in Nat \ {0}
  /\ LastCall \in Nat
  /\ MaxClock \in Nat

ASSUME MarketAssumption ==
  /\ NoAgent \notin Agents
  /\ StatusShapes \subseteq {"string", "object"}

VARIABLES
  clock,      \* Instant::now()
  pc,         \* where each call of `offer' stands
  task,       \* posted.task_id
  called,     \* when `offer' was called
  started,    \* started
  sent,       \* when the SDK call in flight was made
  wake,       \* when the sleep in progress ends
  reply,      \* the TaskInfo the last get_task was answered with
  outcome,    \* what `offer' returned
  info,       \* the marketplace: the TaskInfo of every task
  settledAt   \* history: when a task became terminal

offerVars  == <<pc, task, called, started, sent, wake, reply, outcome>>
marketVars == <<info, settledAt>>
vars == <<clock, offerVars, marketVars>>

------------------------------------------------------------------------------
(* Data.  The text of a status is its lower-case form: status_str makes    *)
(* every spelling of it the same.                                          *)

Terminal == {"completed", "failed", "cancelled"}

\* The awaits of `offer'.
Waiting == {"posting", "getting", "sleeping"}

TaskInfo == [status : {"absent", "open"} \cup Terminal,
             shape  : {"string", "object"},
             output : {"none", "valid", "bad"},
             agent  : Agents \cup {NoAgent}]

Absent == [status |-> "absent", shape |-> "string",
           output |-> "none", agent |-> NoAgent]
NoReply == Absent
NoTask == <<>>

\* A JSON status that is not a string reads as the empty string.
StatusStr(v) == IF v.shape = "string" THEN v.status ELSE ""

\* assigned_agent.map_or(PeerId([0; 32]), |a| PeerId(blake3(a)))
PeerIdOf(a) == IF a = NoAgent THEN <<"zero">> ELSE <<"blake3", a>>

\* Mutant: an absent output is handed on as it is.
ResponseUnchecked(v) == v.output

\* output.unwrap_or_default() decodes to no bytes
Response(v) == IF v.output = "none" THEN "empty" ELSE v.output

\* deadline_secs.map_or(default_deadline, from_secs)
Deadline(o) == IF DeadlineSecs[o] = NoDeadline THEN DefaultDeadline
                                               ELSE DeadlineSecs[o]

\* Mutant: the time of the last poll is taken for the start.
ElapsedSinceLastPoll(o) == clock - sent[o] > Deadline(o)

DeadlineExceeded(o) == clock - started[o] > Deadline(o)

NoOutcome == [kind |-> "none"]
Returned(kind) == [kind |-> kind]
Completed(v) == [kind |-> "Completed", response |-> Response(v),
                 executor |-> PeerIdOf(v.agent)]

\* Mutant: bytes that are not base64 are passed on as a response.
VerdictUndecoded(v) ==
  CASE StatusStr(v) = "completed" -> Completed(v)
    [] StatusStr(v) = "failed"    -> Returned("TaskFailed")
    [] StatusStr(v) = "cancelled" -> Returned("Refused")
    [] OTHER                      -> NoOutcome

\* Mutant: a cancelled task is reported as failed.
VerdictMerged(v) ==
  CASE StatusStr(v) = "completed" -> IF v.output = "bad" THEN Returned("Failed")
                                                         ELSE Completed(v)
    [] StatusStr(v) \in {"failed", "cancelled"} -> Returned("TaskFailed")
    [] OTHER                      -> NoOutcome

\* What the match on a terminal status returns; a status that is not
\* terminal returns nothing.
Verdict(v) ==
  CASE StatusStr(v) = "completed" -> IF v.output = "bad" THEN Returned("Failed")
                                                         ELSE Completed(v)
    [] StatusStr(v) = "failed"    -> Returned("TaskFailed")
    [] StatusStr(v) = "cancelled" -> Returned("Refused")
    [] OTHER                      -> NoOutcome

------------------------------------------------------------------------------
(* The marketplace (external)                                              *)

\* An accepted request need not be the last one, nor be accepted while its
\* caller still waits.
MarketAccepts(o, n) ==
  /\ pc[o] # "idle"
  /\ info[<<o, n>>].status = "absent"
  /\ info' = [info EXCEPT ![<<o, n>>].status = "open"]
  /\ UNCHANGED <<clock, offerVars, settledAt>>

\* What nobody reads of a settled task is left empty.
Results ==
  {v \in TaskInfo : /\ v.status \in Terminal
                    /\ v.shape \in StatusShapes
                    /\ (v.status # "completed" \/ v.shape = "object")
                         => v.output = "none" /\ v.agent = NoAgent}

\* An executor, the poster or the marketplace itself ends a task, once.
MarketSettles(t) ==
  /\ info[t].status = "open"
  /\ \E v \in Results : info' = [info EXCEPT ![t] = v]
  /\ settledAt' = [settledAt EXCEPT ![t] = clock]
  /\ UNCHANGED <<clock, offerVars>>

------------------------------------------------------------------------------
(* offer                                                                   *)

Call(o) ==
  /\ pc[o] = "idle"
  /\ clock <= LastCall
  /\ pc' = [pc EXCEPT ![o] = "posting"]
  /\ called' = [called EXCEPT ![o] = clock]
  /\ sent' = [sent EXCEPT ![o] = clock]
  /\ UNCHANGED <<clock, task, started, wake, reply, outcome, marketVars>>

\* post_task answers with the id of a task it created; the deadline counts
\* from here.
PostReturns(o) ==
  /\ pc[o] = "posting"
  /\ \E n \in Attempts :
       /\ info[<<o, n>>].status # "absent"
       /\ task' = [task EXCEPT ![o] = <<o, n>>]
  /\ started' = [started EXCEPT ![o] = clock]
  /\ pc' = [pc EXCEPT ![o] = "checking"]
  /\ UNCHANGED <<clock, called, sent, wake, reply, outcome, marketVars>>

\* The future is gone, and its locals with it.
Leave(o, how, result) ==
  /\ pc' = [pc EXCEPT ![o] = how]
  /\ outcome' = [outcome EXCEPT ![o] = result]
  /\ sent' = [sent EXCEPT ![o] = 0]
  /\ wake' = [wake EXCEPT ![o] = 0]
  /\ reply' = [reply EXCEPT ![o] = NoReply]

Return(o, result) == Leave(o, "done", result)

PostFails(o) ==
  /\ pc[o] = "posting"
  /\ \E e \in SdkError : Return(o, Returned(BrokerError(e)))
  /\ UNCHANGED <<clock, task, called, started, marketVars>>

CheckDeadline(o) ==
  /\ pc[o] = "checking"
  /\ DeadlineExceeded(o)
  /\ Return(o, Returned("DeadlineExceeded"))
  /\ UNCHANGED <<clock, task, called, started, marketVars>>

\* Mutant: the answer of the last poll is read again.
GetSentCached(o) ==
  /\ pc[o] = "checking"
  /\ ~DeadlineExceeded(o)
  /\ pc' = [pc EXCEPT ![o] = "getting"]
  /\ sent' = [sent EXCEPT ![o] = clock]
  /\ UNCHANGED <<clock, task, called, started, wake, reply, outcome, marketVars>>

GetSent(o) ==
  /\ pc[o] = "checking"
  /\ ~DeadlineExceeded(o)
  /\ pc' = [pc EXCEPT ![o] = "getting"]
  /\ sent' = [sent EXCEPT ![o] = clock]
  /\ reply' = [reply EXCEPT ![o] = NoReply]
  /\ UNCHANGED <<clock, task, called, started, wake, outcome, marketVars>>

\* The node reads the task.  It may read it again for a retry of the SDK.
GetServed(o) ==
  /\ pc[o] = "getting"
  /\ reply[o] # info[task[o]]
  /\ reply' = [reply EXCEPT ![o] = info[task[o]]]
  /\ UNCHANGED <<clock, pc, task, called, started, sent, wake, outcome, marketVars>>

\* The match on the status.
GetReturns(o) ==
  /\ pc[o] = "getting"
  /\ reply[o] # NoReply
  /\ \/ /\ Verdict(reply[o]) # NoOutcome
        /\ Return(o, Verdict(reply[o]))
     \/ /\ Verdict(reply[o]) = NoOutcome
        /\ pc' = [pc EXCEPT ![o] = "sleeping"]
        /\ wake' = [wake EXCEPT ![o] = clock + PollInterval]
        /\ UNCHANGED <<sent, reply, outcome>>
  /\ UNCHANGED <<clock, task, called, started, marketVars>>

GetFails(o) ==
  /\ pc[o] = "getting"
  /\ \E e \in SdkError : Return(o, Returned(BrokerError(e)))
  /\ UNCHANGED <<clock, task, called, started, marketVars>>

\* Mutant: the deadline starts again with every poll.
WakeRestarts(o) ==
  /\ pc[o] = "sleeping"
  /\ clock >= wake[o]
  /\ pc' = [pc EXCEPT ![o] = "checking"]
  /\ started' = [started EXCEPT ![o] = clock]
  /\ UNCHANGED <<clock, task, called, sent, wake, reply, outcome, marketVars>>

\* Mutant: the sleep is not awaited.
WakeAtOnce(o) ==
  /\ pc[o] = "sleeping"
  /\ pc' = [pc EXCEPT ![o] = "checking"]
  /\ UNCHANGED <<clock, task, called, started, sent, wake, reply, outcome, marketVars>>

Wake(o) ==
  /\ pc[o] = "sleeping"
  /\ clock >= wake[o]
  /\ pc' = [pc EXCEPT ![o] = "checking"]
  /\ UNCHANGED <<clock, task, called, started, sent, wake, reply, outcome, marketVars>>

\* The caller drops the future at one of its three awaits.
Abandon(o) ==
  /\ pc[o] \in Waiting
  /\ Leave(o, "dropped", NoOutcome)
  /\ UNCHANGED <<clock, task, called, started, marketVars>>

------------------------------------------------------------------------------
(* Time passes while every call waits for something that may take longer,  *)
(* and as long as there is a call to come or to end.                       *)

MayWait(o) ==
  /\ pc[o] # "checking"
  /\ pc[o] \in {"posting", "getting"} => clock < sent[o] + RpcBound
  /\ pc[o] = "sleeping" => clock < wake[o]

Tick ==
  /\ clock < MaxClock
  /\ clock < LastCall \/ \E o \in Offers : pc[o] \in Waiting
  /\ \A o \in Offers : MayWait(o)
  /\ clock' = clock + 1
  /\ UNCHANGED <<offerVars, marketVars>>

------------------------------------------------------------------------------
Init ==
  /\ clock = 0
  /\ pc = [o \in Offers |-> "idle"]
  /\ task = [o \in Offers |-> NoTask]
  /\ called = [o \in Offers |-> 0]
  /\ started = [o \in Offers |-> 0]
  /\ sent = [o \in Offers |-> 0]
  /\ wake = [o \in Offers |-> 0]
  /\ reply = [o \in Offers |-> NoReply]
  /\ outcome = [o \in Offers |-> NoOutcome]
  /\ info = [t \in Tasks |-> Absent]
  /\ settledAt = [t \in Tasks |-> 0]

\* The steps of `offer' itself, in which it does not wait.
Local(o) == CheckDeadline(o) \/ GetSent(o) \/ Wake(o)
RpcEnds(o) == PostReturns(o) \/ PostFails(o) \/ GetReturns(o) \/ GetFails(o)

Offer(o) ==
  \/ Call(o)
  \/ Local(o)
  \/ RpcEnds(o)
  \/ Abandon(o)

Market ==
  \/ \E o \in Offers, n \in Attempts : MarketAccepts(o, n)
  \/ \E o \in Offers : GetServed(o)
  \/ \E t \in Tasks : MarketSettles(t)

Next ==
  \/ Tick
  \/ Market
  \/ \E o \in Offers : Offer(o)

Spec == Init /\ [][Next]_vars

\* The executor runs a call that is ready, an SDK call ends (it has a timeout
\* and a last retry), and time passes.  The marketplace owes nothing.
Fairness ==
  /\ WF_vars(Tick)
  /\ \A o \in Offers : WF_vars(Local(o)) /\ WF_vars(RpcEnds(o))

FairSpec == Spec /\ Fairness

------------------------------------------------------------------------------
(* Properties                                                              *)

Active == {"checking", "getting", "sleeping"}

Outcome ==
  [kind : {"none", "TaskFailed", "Refused", "DeadlineExceeded",
           "Unreachable", "Transient", "Failed"}]
  \cup [kind : {"Completed"}, response : {"empty", "valid"},
        executor : {PeerIdOf(a) : a \in Agents \cup {NoAgent}}]

\* Every variable has its type.
TypeOK ==
  /\ clock \in Nat
  /\ pc \in [Offers -> {"idle", "posting", "done", "dropped"} \cup Active]
  /\ task \in [Offers -> Tasks \cup {NoTask}]
  /\ called \in [Offers -> Nat]
  /\ started \in [Offers -> Nat]
  /\ sent \in [Offers -> Nat]
  /\ wake \in [Offers -> Nat]
  /\ reply \in [Offers -> TaskInfo]
  /\ outcome \in [Offers -> Outcome]
  /\ info \in [Tasks -> TaskInfo]
  /\ settledAt \in [Tasks -> Nat]

\* The wait the code really guarantees: the deadline is looked at only
\* between two polls, so a call may overrun it by one SDK call and one sleep,
\* and the time post_task takes is not counted at all.
BoundedWait ==
  \A o \in Offers :
    /\ pc[o] = "posting" => clock - called[o] <= RpcBound
    /\ pc[o] \in Active =>
         /\ clock - started[o] <= Deadline(o) + RpcBound + PollInterval
         /\ clock - called[o] <= Deadline(o) + 2 * RpcBound + PollInterval

\* An outcome that speaks of the task tells what the marketplace still holds
\* of a task of this very offer, its response and executor included, however
\* stale the snapshot it was made from and whatever other tasks the retries of
\* post_task have created.
OutcomeIsMarketTruth ==
  \A o \in Offers :
    outcome[o].kind \in {"Completed", "TaskFailed", "Refused"} =>
      /\ task[o] \in {<<o, n>> : n \in Attempts}
      /\ LET v == info[task[o]] IN
           CASE outcome[o].kind = "TaskFailed" -> v.status = "failed"
             [] outcome[o].kind = "Refused"    -> v.status = "cancelled"
             [] OTHER -> /\ v.status = "completed"
                         /\ v.output # "bad"
                         /\ outcome[o].response = Response(v)
                         /\ outcome[o].executor = PeerIdOf(v.agent)

\* A task that settled, with a status the code can read, at least one SDK call
\* and one sleep before the deadline is never reported as past its deadline.
NoMissedSettlement ==
  \A o \in Offers :
    (outcome[o].kind = "DeadlineExceeded" /\ StatusStr(info[task[o]]) \in Terminal)
      => settledAt[task[o]] + RpcBound + PollInterval > started[o] + Deadline(o)

\* Two polls of a task are sent at least a poll interval apart, so that the
\* node sees a bounded rate of get_task from an offer.
PollsArePaced ==
  [][\A o \in Offers :
       (GetSent(o) /\ reply[o] # NoReply) => clock >= sent[o] + PollInterval]_vars

\* `offer' returns, or its caller has dropped it, whether or not the
\* marketplace ever accepts, serves or settles anything.
OfferReturns ==
  \A o \in Offers : pc[o] = "posting" ~> pc[o] \in {"done", "dropped"}

\* broker.rs:15-17: "deadline_secs caps total wait time".  A call that is
\* past its deadline waits for nothing any more.
DeadlineCapsWait ==
  \A o \in Offers :
    pc[o] \in {"getting", "sleeping"} => clock - started[o] <= Deadline(o)

------------------------------------------------------------------------------
(* The broker implements WorkOffer.                                        *)

Told(kind) ==
  CASE kind = "Completed"  -> "completed"
    [] kind = "TaskFailed" -> "failed"
    [] kind = "Refused"    -> "cancelled"
    [] OTHER               -> "unknown"

ResultOf(o) ==
  CASE pc[o] = "idle"                    -> "idle"
    [] pc[o] \in {"posting"} \cup Active -> "pending"
    [] OTHER                             -> Told(outcome[o].kind)

Abstract == INSTANCE WorkOffer WITH
  status <- [t \in Tasks |-> info[t].status],
  result <- [o \in Offers |-> ResultOf(o)]

\* Every behaviour of the broker is one WorkOffer allows: a definite result is
\* the state of one of the offer's own tasks when `offer' returns.
ImplementsWorkOffer == Abstract!Spec

==============================================================================
