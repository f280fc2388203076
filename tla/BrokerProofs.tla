---------------------------- MODULE BrokerProofs -----------------------------
(***************************************************************************)
(* Theorems about Broker, for any offers, deadlines, intervals and number  *)
(* of retries.  Each invariant is a conjunction of named parts that speak  *)
(* of one offer; together they are inductive.                              *)
(***************************************************************************)
EXTENDS Broker, TLAPS

Ends == {"done", "dropped"}

------------------------------------------------------------------------------
(* The inductive invariant                                                 *)

\* From the moment post_task has answered, an offer follows one of its own
\* tasks, which the marketplace has accepted.
TaskInv(o) ==
  pc[o] \in Active =>
    /\ task[o] \in {<<o, n>> : n \in Attempts}
    /\ info[task[o]].status # "absent"

\* No SDK call outlasts RpcBound, and the deadline was looked at when the last
\* poll was sent.
TimeInv(o) ==
  /\ pc[o] = "posting" =>
       sent[o] = called[o] /\ called[o] <= clock /\ clock <= called[o] + RpcBound
  /\ pc[o] \in Active =>
       /\ called[o] <= started[o]
       /\ started[o] <= called[o] + RpcBound
       /\ started[o] <= clock
  /\ pc[o] = "getting" =>
       /\ sent[o] <= clock
       /\ clock <= sent[o] + RpcBound
       /\ sent[o] <= started[o] + Deadline(o)
  /\ pc[o] = "sleeping" =>
       /\ clock <= wake[o]
       /\ wake[o] <= started[o] + Deadline(o) + RpcBound + PollInterval
  /\ pc[o] = "checking" =>
       clock <= started[o] + Deadline(o) + RpcBound + PollInterval

\* A terminal snapshot is still what the marketplace holds; nothing has been
\* returned yet.
ReplyInv(o) ==
  /\ (pc[o] \in Active /\ reply[o].status \in Terminal)
       => reply[o] = info[task[o]]
  /\ pc[o] # "done" => outcome[o] = NoOutcome
  /\ pc[o] \in {"idle", "posting"} => reply[o] = NoReply
  /\ pc[o] = "sleeping" => reply[o] # NoReply

Readable(o) == StatusStr(info[task[o]]) \in Terminal

\* A task that can be read as settled, and was not when it was last polled,
\* settled after that poll was sent.
SettleInv(o) ==
  /\ (pc[o] = "getting" /\ reply[o] # NoReply /\ Verdict(reply[o]) = NoOutcome
        /\ Readable(o)) => sent[o] <= settledAt[task[o]]
  /\ pc[o] = "sleeping" =>
       /\ wake[o] <= sent[o] + RpcBound + PollInterval
       /\ sent[o] <= clock
       /\ Readable(o) => sent[o] <= settledAt[task[o]]
  /\ pc[o] = "checking" =>
       IF reply[o] = NoReply
         THEN clock = started[o]
         ELSE Readable(o) => clock <= settledAt[task[o]] + RpcBound + PollInterval

\* What a return left behind.
LateInv(o) ==
  outcome[o].kind = "DeadlineExceeded" =>
    /\ task[o] \in {<<o, n>> : n \in Attempts}
    /\ info[task[o]].status # "absent"
    /\ started[o] + Deadline(o) < clock
    /\ Readable(o) =>
         started[o] + Deadline(o) < settledAt[task[o]] + RpcBound + PollInterval

\* OutcomeIsMarketTruth of one offer.
TruthInv(o) ==
  outcome[o].kind \in {"Completed", "TaskFailed", "Refused"} =>
    /\ task[o] \in {<<o, n>> : n \in Attempts}
    /\ LET v == info[task[o]] IN
         CASE outcome[o].kind = "TaskFailed" -> v.status = "failed"
           [] outcome[o].kind = "Refused"    -> v.status = "cancelled"
           [] OTHER -> /\ v.status = "completed"
                       /\ v.output # "bad"
                       /\ outcome[o].response = Response(v)
                       /\ outcome[o].executor = PeerIdOf(v.agent)

OfferInv(o) ==
  TaskInv(o) /\ TimeInv(o) /\ ReplyInv(o) /\ SettleInv(o) /\ LateInv(o) /\ TruthInv(o)

IInv == TypeOK /\ \A o \in Offers : OfferInv(o)

------------------------------------------------------------------------------
(* Facts about the operators                                               *)

\* The deadline of an offer is a length of time, given or by default.
LEMMA DeadlineType == \A o \in Offers : Deadline(o) \in Nat
BY DeadlineAssumption DEF Deadline

\* Every SDK error has a name in WorkBrokerError.
LEMMA BrokerErrorType ==
  \A e \in SdkError : BrokerError(e) \in {"Unreachable", "Transient", "Failed"}
BY DEF SdkError, BrokerError, LinkError

\* An answer that is not there has the type of one.
LEMMA NoReplyType == NoReply \in TaskInfo
BY DEF NoReply, Absent, TaskInfo

\* The match on a status returns a value of WorkOutcome or an error.
LEMMA VerdictType ==
  ASSUME NEW v \in TaskInfo
  PROVE  Verdict(v) \in Outcome
<1>1. CASE StatusStr(v) = "completed" /\ v.output # "bad"
  <2>1. Response(v) \in {"empty", "valid"}
    BY <1>1 DEF Response, TaskInfo
  <2>2. v.agent \in Agents \cup {NoAgent}
    BY DEF TaskInfo
  <2>3. Completed(v) \in Outcome
    BY <2>1, <2>2 DEF Completed, Outcome
  <2> QED BY <1>1, <2>3 DEF Verdict
<1>2. CASE StatusStr(v) = "completed" /\ v.output = "bad"
  BY <1>2 DEF Verdict, Returned, Outcome
<1>3. CASE StatusStr(v) # "completed"
  BY <1>3 DEF Verdict, Returned, NoOutcome, Outcome
<1> QED BY <1>1, <1>2, <1>3

\* Exactly the terminal statuses that are strings end the polling.
LEMMA VerdictIsNone ==
  ASSUME NEW v \in TaskInfo
  PROVE  Verdict(v) = NoOutcome <=> StatusStr(v) \notin Terminal
<1>1. NoOutcome.kind = "none" /\ Returned("Failed").kind = "Failed"
      /\ Returned("TaskFailed").kind = "TaskFailed"
      /\ Returned("Refused").kind = "Refused" /\ Completed(v).kind = "Completed"
  BY DEF NoOutcome, Returned, Completed
<1> QED BY <1>1 DEF Verdict, Terminal

\* What an answer can be returned as, and what each outcome says of it.
LEMMA VerdictKind ==
  ASSUME NEW v \in TaskInfo
  PROVE  /\ Verdict(v).kind \in {"none", "Completed", "TaskFailed", "Refused", "Failed"}
         /\ Verdict(v).kind = "TaskFailed" => v.status = "failed"
         /\ Verdict(v).kind = "Refused" => v.status = "cancelled"
         /\ Verdict(v).kind = "Completed" =>
              /\ v.status = "completed"
              /\ v.output # "bad"
              /\ Verdict(v).response = Response(v)
              /\ Verdict(v).executor = PeerIdOf(v.agent)
<1>1. /\ NoOutcome.kind = "none" /\ Returned("Failed").kind = "Failed"
      /\ Returned("TaskFailed").kind = "TaskFailed"
      /\ Returned("Refused").kind = "Refused"
      /\ Completed(v).kind = "Completed"
      /\ Completed(v).response = Response(v)
      /\ Completed(v).executor = PeerIdOf(v.agent)
  BY DEF NoOutcome, Returned, Completed
<1>2. CASE StatusStr(v) = "completed" /\ v.output = "bad"
  BY <1>1, <1>2 DEF Verdict
<1>3. CASE StatusStr(v) = "completed" /\ v.output # "bad"
  BY <1>1, <1>3 DEF Verdict, StatusStr
<1>4. CASE StatusStr(v) = "failed"
  BY <1>1, <1>4 DEF Verdict, StatusStr
<1>5. CASE StatusStr(v) = "cancelled"
  BY <1>1, <1>5 DEF Verdict, StatusStr
<1>6. CASE StatusStr(v) \notin Terminal
  BY <1>1, <1>6 DEF Verdict, Terminal
<1> QED BY <1>2, <1>3, <1>4, <1>5, <1>6 DEF Terminal

------------------------------------------------------------------------------
(* Types                                                                   *)

TypeInv == TypeOK /\ \A o \in Offers : TaskInv(o)

\* Every step but those that touch the marketplace leaves a TaskInv alone that
\* its offer does not take.
LEMMA TypeInductive == TypeInv /\ [Next]_vars => TypeInv'
<1> SUFFICES ASSUME TypeInv, [Next]_vars PROVE TypeInv'
  OBVIOUS
<1> USE DEF TypeInv
<1>0. \A o \in Offers, n \in Attempts : <<o, n>> \in Tasks
  BY DEF Tasks
<1>1. CASE Tick
  BY <1>1 DEF Tick, offerVars, marketVars, TypeOK, TaskInv
<1>2. ASSUME NEW o \in Offers, NEW n \in Attempts, MarketAccepts(o, n) PROVE TypeInv'
  <2> DEFINE t == <<o, n>>
             u == [info[t] EXCEPT !.status = "open"]
  <2>1. t \in Tasks
    BY <1>0
  <2>2. u \in TaskInfo /\ u.status = "open"
    BY <2>1 DEF TypeOK, TaskInfo
  <2>3. info' = [info EXCEPT ![t] = u]
    BY <1>2 DEF MarketAccepts
  <2> HIDE DEF u, t
  <2>4. info' \in [Tasks -> TaskInfo]
    BY <2>1, <2>2, <2>3 DEF TypeOK
  <2>5. TypeOK'
    BY <1>2, <2>4 DEF MarketAccepts, offerVars, TypeOK
  <2>6. \A p \in Offers : TaskInv(p)'
    BY <1>2, <1>0, <2>1, <2>2, <2>3 DEF MarketAccepts, offerVars, TypeOK, TaskInv
  <2> QED BY <2>5, <2>6
<1>3. ASSUME NEW o \in Offers, GetServed(o) PROVE TypeInv'
  <2>1. info[task[o]] \in TaskInfo
    BY <1>3, <1>0 DEF GetServed, TypeOK, TaskInv, Active
  <2> QED BY <1>3, <2>1 DEF GetServed, marketVars, TypeOK, TaskInv
<1>4. ASSUME NEW t \in Tasks, MarketSettles(t) PROVE TypeInv'
  <2>1. PICK v \in Results : info' = [info EXCEPT ![t] = v]
    BY <1>4 DEF MarketSettles
  <2>2. v \in TaskInfo /\ v.status # "absent"
    BY DEF Results, Terminal
  <2>3. TypeOK'
    BY <1>4, <2>1, <2>2 DEF MarketSettles, offerVars, TypeOK
  <2>4. \A p \in Offers : TaskInv(p)'
    BY <1>4, <1>0, <2>1, <2>2 DEF MarketSettles, offerVars, TypeOK, TaskInv
  <2> QED BY <2>3, <2>4
<1>5. ASSUME NEW o \in Offers, Call(o) PROVE TypeInv'
  BY <1>5 DEF Call, marketVars, TypeOK, TaskInv, Active
<1>6. ASSUME NEW o \in Offers, CheckDeadline(o) PROVE TypeInv'
  <2>1. Returned("DeadlineExceeded") \in Outcome
    BY DEF Returned, Outcome
  <2> QED BY <1>6, <2>1, NoReplyType
        DEF CheckDeadline, Return, Leave, marketVars, TypeOK, TaskInv, Active
<1>7. ASSUME NEW o \in Offers, GetSent(o) PROVE TypeInv'
  BY <1>7, NoReplyType DEF GetSent, marketVars, TypeOK, TaskInv, Active
<1>8. ASSUME NEW o \in Offers, Wake(o) PROVE TypeInv'
  BY <1>8 DEF Wake, marketVars, TypeOK, TaskInv, Active
<1>9. ASSUME NEW o \in Offers, PostReturns(o) PROVE TypeInv'
  BY <1>9, <1>0 DEF PostReturns, marketVars, TypeOK, TaskInv, Active
<1>10. ASSUME NEW o \in Offers, PostFails(o) \/ GetFails(o) PROVE TypeInv'
  <2>1. PICK e \in SdkError : Return(o, Returned(BrokerError(e)))
    BY <1>10 DEF PostFails, GetFails
  <2>2. Returned(BrokerError(e)) \in Outcome
    BY BrokerErrorType DEF Returned, Outcome
  <2> QED BY <1>10, <2>1, <2>2, NoReplyType
        DEF PostFails, GetFails, Return, Leave, marketVars, TypeOK, TaskInv, Active
<1>11. ASSUME NEW o \in Offers, GetReturns(o) PROVE TypeInv'
  <2>1. Verdict(reply[o]) \in Outcome
    BY VerdictType DEF TypeOK
  <2>2. CASE Return(o, Verdict(reply[o]))
    BY <1>11, <2>1, <2>2, NoReplyType
      DEF GetReturns, Return, Leave, marketVars, TypeOK, TaskInv, Active
  <2>3. CASE Verdict(reply[o]) = NoOutcome
    BY <1>11, <2>3, TimingAssumption DEF GetReturns, marketVars, TypeOK, TaskInv, Active
  <2> QED BY <1>11, <2>2, <2>3 DEF GetReturns
<1>12. ASSUME NEW o \in Offers, Abandon(o) PROVE TypeInv'
  BY <1>12, NoReplyType
    DEF Abandon, Leave, NoOutcome, Outcome, marketVars, TypeOK, TaskInv, Active
<1>13. CASE UNCHANGED vars
  BY <1>13 DEF vars, offerVars, marketVars, TypeOK, TaskInv
<1> QED BY <1>1, <1>2, <1>3, <1>4, <1>5, <1>6, <1>7, <1>8, <1>9, <1>10, <1>11, <1>12, <1>13
      DEF Next, Market, Offer, Local, RpcEnds

LEMMA TypeInitial == Init => TypeInv
BY NoReplyType DEF Init, TypeInv, TypeOK, TaskInv, Active, NoOutcome, Outcome, Absent,
  NoReply

\* Every variable keeps its type.
THEOREM TypeCorrect == Spec => []TypeOK
<1>1. TypeInv => TypeOK
  BY DEF TypeInv
<1> QED BY TypeInitial, TypeInductive, <1>1, PTL DEF Spec

------------------------------------------------------------------------------
(* Time                                                                    *)

\* Only the step that polls needs the deadline check; a tick needs MayWait.
LEMMA TimeInductive ==
  TypeOK /\ (\A o \in Offers : TimeInv(o)) /\ [Next]_vars
    => \A o \in Offers : TimeInv(o)'
<1> SUFFICES ASSUME TypeOK, \A p \in Offers : TimeInv(p), [Next]_vars,
                    NEW o \in Offers
             PROVE  TimeInv(o)'
  OBVIOUS
<1>0. /\ Deadline(o) \in Nat /\ Deadline(o)' = Deadline(o)
      /\ RpcBound \in Nat /\ PollInterval \in Nat
  BY DeadlineType, TimingAssumption DEF Deadline
<1>1. CASE Tick
  BY <1>0, <1>1 DEF Tick, MayWait, offerVars, marketVars, TypeOK, TimeInv, Active
<1>2. CASE Market
  BY <1>0, <1>2 DEF Market, MarketAccepts, GetServed, MarketSettles, offerVars,
    marketVars, TypeOK, TimeInv, Active
<1>3. ASSUME NEW p \in Offers, Call(p) PROVE TimeInv(o)'
  BY <1>0, <1>3 DEF Call, marketVars, TypeOK, TimeInv, Active
<1>4. ASSUME NEW p \in Offers, CheckDeadline(p) PROVE TimeInv(o)'
  BY <1>0, <1>4 DEF CheckDeadline, Return, Leave, marketVars, TypeOK, TimeInv, Active
<1>5. ASSUME NEW p \in Offers, GetSent(p) PROVE TimeInv(o)'
  BY <1>0, <1>5 DEF GetSent, DeadlineExceeded, marketVars, TypeOK, TimeInv, Active
<1>6. ASSUME NEW p \in Offers, Wake(p) PROVE TimeInv(o)'
  BY <1>0, <1>6 DEF Wake, marketVars, TypeOK, TimeInv, Active
<1>7. ASSUME NEW p \in Offers, PostReturns(p) PROVE TimeInv(o)'
  BY <1>0, <1>7 DEF PostReturns, marketVars, TypeOK, TimeInv, Active
<1>8. ASSUME NEW p \in Offers, PostFails(p) \/ GetFails(p) \/ Abandon(p)
      PROVE  TimeInv(o)'
  BY <1>0, <1>8 DEF PostFails, GetFails, Abandon, Return, Leave, marketVars, TypeOK,
    TimeInv, Active
<1>9. ASSUME NEW p \in Offers, GetReturns(p) PROVE TimeInv(o)'
  BY <1>0, <1>9 DEF GetReturns, Return, Leave, marketVars, TypeOK, TimeInv, Active
<1>10. CASE UNCHANGED vars
  BY <1>0, <1>10 DEF vars, offerVars, TimeInv, Active
<1> QED BY <1>1, <1>2, <1>3, <1>4, <1>5, <1>6, <1>7, <1>8, <1>9, <1>10
      DEF Next, Offer, Local, RpcEnds

\* No call waits longer than its deadline, one poll interval and two SDK calls.
THEOREM WaitIsBounded == Spec => []BoundedWait
<1> DEFINE TInv == TypeInv /\ \A o \in Offers : TimeInv(o)
<1>1. Init => TInv
  <2>1. Init => \A o \in Offers : TimeInv(o)
    BY DEF Init, TimeInv, Active
  <2> QED BY <2>1, TypeInitial
<1>2. TInv /\ [Next]_vars => TInv'
  BY TypeInductive, TimeInductive DEF TypeInv
<1>3. TInv => BoundedWait
  BY DeadlineType, TimingAssumption DEF TypeInv, TypeOK, TimeInv, BoundedWait, Active
<1> QED BY <1>1, <1>2, <1>3, PTL DEF Spec

------------------------------------------------------------------------------
(* The marketplace never takes a result back                               *)

\* A settled task stays as it settled, and settledAt tells when it did.
LEMMA MarketIsMonotone ==
  ASSUME TypeOK, [Next]_vars, NEW t \in Tasks
  PROVE  /\ info[t].status \in Terminal
              => info'[t] = info[t] /\ settledAt'[t] = settledAt[t]
         /\ info[t].status \notin Terminal /\ info'[t].status \in Terminal
              => settledAt'[t] = clock /\ UNCHANGED <<clock, offerVars>>
         /\ info[t].status # "absent" => info'[t].status # "absent"
<1>1. CASE Tick
  BY <1>1 DEF Tick, marketVars
<1>2. ASSUME NEW o \in Offers, NEW n \in Attempts, MarketAccepts(o, n),
             t = <<o, n>>
      PROVE  /\ info[t].status = "absent"
             /\ info'[t].status = "open"
  BY <1>2 DEF MarketAccepts, TypeOK, TaskInfo
<1>3. ASSUME NEW o \in Offers, NEW n \in Attempts, MarketAccepts(o, n),
             t # <<o, n>>
      PROVE  info'[t] = info[t] /\ settledAt'[t] = settledAt[t]
  BY <1>3 DEF MarketAccepts, TypeOK
<1>4. ASSUME NEW u \in Tasks, MarketSettles(u), t # u
      PROVE  info'[t] = info[t] /\ settledAt'[t] = settledAt[t]
  BY <1>4 DEF MarketSettles, TypeOK
<1>5. CASE MarketSettles(t)
  <2>1. PICK v \in Results : info' = [info EXCEPT ![t] = v]
    BY <1>5 DEF MarketSettles
  <2>2. v.status # "absent"
    BY DEF Results, Terminal
  <2> QED BY <1>5, <2>1, <2>2 DEF MarketSettles, TypeOK, Terminal
<1>6. CASE (\E o \in Offers : GetServed(o) \/ Offer(o)) \/ UNCHANGED vars
  BY <1>6 DEF GetServed, Offer, Call, Local, CheckDeadline, GetSent, Wake, RpcEnds,
    PostReturns, PostFails, GetReturns, GetFails, Abandon, marketVars, vars
<1>7. \A o \in Offers, n \in Attempts : MarketAccepts(o, n) => settledAt' = settledAt
  BY DEF MarketAccepts
<1> QED
  BY <1>1, <1>2, <1>3, <1>4, <1>5, <1>6, <1>7 DEF Next, Market, Terminal

------------------------------------------------------------------------------
(* What a snapshot is worth                                                *)

\* A snapshot that shows a settled task stays true, whatever comes between
\* the node's reading and the caller's.
LEMMA ReplyInductive ==
  TypeInv /\ (\A o \in Offers : ReplyInv(o)) /\ [Next]_vars
    => \A o \in Offers : ReplyInv(o)'
<1> SUFFICES ASSUME TypeInv, \A p \in Offers : ReplyInv(p), [Next]_vars,
                    NEW o \in Offers
             PROVE  ReplyInv(o)'
  OBVIOUS
<1>0. /\ NoReply.status = "absent" /\ NoReply.status \notin Terminal
      /\ TypeOK /\ (pc[o] \in Active => task[o] \in Tasks)
  BY DEF NoReply, Absent, Terminal, TypeInv, TaskInv, Tasks
<1>m. \A t \in Tasks : info[t].status \in Terminal => info'[t] = info[t]
  BY <1>0, MarketIsMonotone
<1>1. CASE Tick
  BY <1>0, <1>1 DEF Tick, offerVars, marketVars, ReplyInv, Active
<1>2. CASE Market
  <2>1. ASSUME NEW p \in Offers, GetServed(p) PROVE ReplyInv(o)'
    BY <1>0, <2>1 DEF GetServed, marketVars, TypeOK, ReplyInv, Active
  <2>2. ASSUME UNCHANGED offerVars PROVE ReplyInv(o)'
    BY <1>0, <1>m, <2>2 DEF offerVars, ReplyInv, Active
  <2> QED BY <1>2, <2>1, <2>2 DEF Market, MarketAccepts, MarketSettles
<1>3. ASSUME NEW p \in Offers, Call(p) PROVE ReplyInv(o)'
  BY <1>0, <1>3 DEF Call, marketVars, TypeOK, ReplyInv, Active
<1>4. ASSUME NEW p \in Offers, CheckDeadline(p) PROVE ReplyInv(o)'
  BY <1>0, <1>4 DEF CheckDeadline, Return, Leave, marketVars, TypeOK, ReplyInv, Active
<1>5. ASSUME NEW p \in Offers, GetSent(p) PROVE ReplyInv(o)'
  BY <1>0, <1>5 DEF GetSent, marketVars, TypeOK, ReplyInv, Active
<1>6. ASSUME NEW p \in Offers, Wake(p) PROVE ReplyInv(o)'
  BY <1>0, <1>6 DEF Wake, marketVars, TypeOK, ReplyInv, Active
<1>7. ASSUME NEW p \in Offers, PostReturns(p) PROVE ReplyInv(o)'
  BY <1>0, <1>7 DEF PostReturns, marketVars, TypeOK, ReplyInv, Active
<1>8. ASSUME NEW p \in Offers, PostFails(p) \/ GetFails(p) \/ Abandon(p)
      PROVE  ReplyInv(o)'
  BY <1>0, <1>8 DEF PostFails, GetFails, Abandon, Return, Leave, marketVars, TypeOK,
    ReplyInv, Active
<1>9. ASSUME NEW p \in Offers, GetReturns(p) PROVE ReplyInv(o)'
  BY <1>0, <1>9 DEF GetReturns, Return, Leave, marketVars, TypeOK, ReplyInv, Active
<1>10. CASE UNCHANGED vars
  BY <1>10 DEF vars, offerVars, marketVars, ReplyInv, Active
<1> QED BY <1>1, <1>2, <1>3, <1>4, <1>5, <1>6, <1>7, <1>8, <1>9, <1>10
      DEF Next, Offer, Local, RpcEnds

\* A task that became terminal after a poll was sent did so no earlier.
LEMMA SettleInductive ==
  TypeInv /\ (\A o \in Offers : TimeInv(o) /\ ReplyInv(o) /\ SettleInv(o))
    /\ [Next]_vars => \A o \in Offers : SettleInv(o)'
<1> SUFFICES ASSUME TypeInv,
                    \A p \in Offers : TimeInv(p) /\ ReplyInv(p) /\ SettleInv(p),
                    [Next]_vars, NEW o \in Offers
             PROVE  SettleInv(o)'
  OBVIOUS
<1>0. /\ NoReply.status = "absent"
      /\ TypeOK /\ (pc[o] \in Active => task[o] \in Tasks)
      /\ RpcBound \in Nat /\ PollInterval \in Nat /\ NoReply \in TaskInfo
      /\ \A v \in TaskInfo : Verdict(v) = NoOutcome <=> StatusStr(v) \notin Terminal
  BY TimingAssumption, NoReplyType, VerdictIsNone
    DEF NoReply, Absent, Terminal, TypeInv, TaskInv, Tasks
<1>m. \A t \in Tasks :
         \/ info'[t] = info[t] /\ settledAt'[t] = settledAt[t]
         \/ StatusStr(info'[t]) \in Terminal => settledAt'[t] = clock
  BY <1>0, MarketIsMonotone DEF StatusStr, Terminal
<1>1. CASE Tick
  BY <1>0, <1>1 DEF Tick, MayWait, Waiting, offerVars, marketVars, TypeOK, TimeInv,
    ReplyInv, SettleInv, Readable, Active
<1>2. CASE Market
  <2>1. ASSUME NEW p \in Offers, GetServed(p) PROVE SettleInv(o)'
    BY <1>0, <2>1 DEF GetServed, marketVars, TypeOK, TimeInv, ReplyInv, SettleInv,
      Readable, Active
  <2>2. ASSUME UNCHANGED <<clock, offerVars>> PROVE SettleInv(o)'
    BY <1>0, <1>m, <2>2 DEF offerVars, TypeOK, TimeInv, ReplyInv, SettleInv, Readable,
      Active
  <2> QED BY <1>2, <2>1, <2>2 DEF Market, MarketAccepts, MarketSettles
<1>3. ASSUME NEW p \in Offers, Call(p) PROVE SettleInv(o)'
  BY <1>0, <1>3 DEF Call, marketVars, TypeOK, TimeInv, ReplyInv, SettleInv, Readable,
    Active
<1>4. ASSUME NEW p \in Offers, CheckDeadline(p) PROVE SettleInv(o)'
  BY <1>0, <1>4 DEF CheckDeadline, DeadlineExceeded, Return, Returned, Leave,
    marketVars, TypeOK, TimeInv, ReplyInv, SettleInv, Readable, Active
<1>5. ASSUME NEW p \in Offers, GetSent(p) PROVE SettleInv(o)'
  BY <1>0, <1>5 DEF GetSent, marketVars, TypeOK, TimeInv, ReplyInv, SettleInv,
    Readable, Active
<1>6. ASSUME NEW p \in Offers, Wake(p) PROVE SettleInv(o)'
  BY <1>0, <1>6 DEF Wake, marketVars, TypeOK, TimeInv, ReplyInv, SettleInv, Readable,
    Active
<1>7. ASSUME NEW p \in Offers, PostReturns(p) PROVE SettleInv(o)'
  BY <1>0, <1>7 DEF PostReturns, marketVars, TypeOK, TimeInv, ReplyInv, SettleInv,
    Readable, Active
<1>8. ASSUME NEW p \in Offers, PostFails(p) \/ GetFails(p) \/ Abandon(p)
      PROVE  SettleInv(o)'
  BY <1>0, <1>8, BrokerErrorType DEF PostFails, GetFails, Abandon, Return, Returned,
    Leave, marketVars, TypeOK, TimeInv, ReplyInv, SettleInv, Readable, Active
<1>9. ASSUME NEW p \in Offers, GetReturns(p) PROVE SettleInv(o)'
  BY <1>0, <1>9 DEF GetReturns, Return, Leave, marketVars, TypeOK, TimeInv, ReplyInv,
    SettleInv, Readable, Active
<1>10. CASE UNCHANGED vars
  BY <1>0, <1>10 DEF vars, offerVars, marketVars, TypeOK, TimeInv, ReplyInv,
    SettleInv, Readable, Active
<1> QED BY <1>1, <1>2, <1>3, <1>4, <1>5, <1>6, <1>7, <1>8, <1>9, <1>10
      DEF Next, Offer, Local, RpcEnds

\* An offer that gave up on its deadline did so after its last poll.
LEMMA LateInductive ==
  TypeInv /\ (\A o \in Offers : OfferInv(o)) /\ [Next]_vars
    => \A o \in Offers : LateInv(o)'
<1> SUFFICES ASSUME TypeInv, \A p \in Offers : OfferInv(p), [Next]_vars,
                    NEW o \in Offers
             PROVE  LateInv(o)'
  OBVIOUS
<1>0. /\ TypeOK /\ \A n \in Attempts : <<o, n>> \in Tasks
      /\ Deadline(o) \in Nat /\ Deadline(o)' = Deadline(o)
      /\ RpcBound \in Nat /\ PollInterval \in Nat
      /\ NoOutcome.kind = "none"
      /\ \A p \in Offers :
           /\ Verdict(reply[p]).kind # "DeadlineExceeded"
           /\ TaskInv(p) /\ TimeInv(p) /\ ReplyInv(p) /\ SettleInv(p) /\ LateInv(p)
  BY TimingAssumption, DeadlineType, VerdictKind
    DEF TypeInv, TypeOK, Tasks, OfferInv, NoOutcome, Deadline
<1>m. \A t \in Tasks :
         /\ \/ info'[t] = info[t] /\ settledAt'[t] = settledAt[t]
            \/ StatusStr(info'[t]) \in Terminal => settledAt'[t] = clock
         /\ info[t].status # "absent" => info'[t].status # "absent"
  BY <1>0, MarketIsMonotone DEF StatusStr, Terminal
<1>1. CASE Tick
  BY <1>0, <1>1 DEF Tick, MayWait, Waiting, offerVars, marketVars, TypeOK, TaskInv,
    ReplyInv, SettleInv, LateInv, Readable, Active
<1>2. CASE Market
  <2>1. ASSUME NEW p \in Offers, GetServed(p) PROVE LateInv(o)'
    BY <1>0, <2>1 DEF GetServed, marketVars, TypeOK, TaskInv, ReplyInv, SettleInv,
      LateInv, Readable, Active
  <2>2. ASSUME UNCHANGED <<clock, offerVars>> PROVE LateInv(o)'
    BY <1>0, <1>m, <2>2 DEF offerVars, TypeOK, TaskInv, ReplyInv, SettleInv, LateInv,
      Readable, Active
  <2> QED BY <1>2, <2>1, <2>2 DEF Market, MarketAccepts, MarketSettles
<1>3. ASSUME NEW p \in Offers, Call(p) PROVE LateInv(o)'
  BY <1>0, <1>3 DEF Call, marketVars, TypeOK, TaskInv, ReplyInv, SettleInv, LateInv,
    Readable, Active
<1>4. ASSUME NEW p \in Offers, CheckDeadline(p) PROVE LateInv(o)'
  BY <1>0, <1>4 DEF CheckDeadline, DeadlineExceeded, Return, Returned, Leave,
    marketVars, TypeOK, TaskInv, ReplyInv, SettleInv, LateInv, Readable, Active
<1>5. ASSUME NEW p \in Offers, GetSent(p) PROVE LateInv(o)'
  BY <1>0, <1>5 DEF GetSent, marketVars, TypeOK, TaskInv, ReplyInv, SettleInv,
    LateInv, Readable, Active
<1>6. ASSUME NEW p \in Offers, Wake(p) PROVE LateInv(o)'
  BY <1>0, <1>6 DEF Wake, marketVars, TypeOK, TaskInv, ReplyInv, SettleInv, LateInv,
    Readable, Active
<1>7. ASSUME NEW p \in Offers, PostReturns(p) PROVE LateInv(o)'
  BY <1>0, <1>7 DEF PostReturns, marketVars, TypeOK, TaskInv, ReplyInv, SettleInv,
    LateInv, Readable, Active
<1>8. ASSUME NEW p \in Offers, PostFails(p) \/ GetFails(p) \/ Abandon(p)
      PROVE  LateInv(o)'
  BY <1>0, <1>8, BrokerErrorType DEF PostFails, GetFails, Abandon, Return, Returned,
    Leave, marketVars, TypeOK, TaskInv, ReplyInv, SettleInv, LateInv, Readable, Active
<1>9. ASSUME NEW p \in Offers, GetReturns(p) PROVE LateInv(o)'
  BY <1>0, <1>9 DEF GetReturns, Return, Leave, marketVars, TypeOK, TaskInv, ReplyInv,
    SettleInv, LateInv, Readable, Active
<1>10. CASE UNCHANGED vars
  BY <1>0, <1>10 DEF vars, offerVars, marketVars, TypeOK, TaskInv, ReplyInv,
    SettleInv, LateInv, Readable, Active
<1> QED BY <1>1, <1>2, <1>3, <1>4, <1>5, <1>6, <1>7, <1>8, <1>9, <1>10
      DEF Next, Offer, Local, RpcEnds

\* A definite outcome repeats a settled task, which stays settled.
LEMMA TruthInductive ==
  TypeInv /\ (\A o \in Offers : OfferInv(o)) /\ [Next]_vars
    => \A o \in Offers : TruthInv(o)'
<1> SUFFICES ASSUME TypeInv, \A p \in Offers : OfferInv(p), [Next]_vars,
                    NEW o \in Offers
             PROVE  TruthInv(o)'
  OBVIOUS
<1>0. /\ TypeOK /\ \A n \in Attempts : <<o, n>> \in Tasks
      /\ NoOutcome.kind = "none"
      /\ \A p \in Offers : TaskInv(p) /\ ReplyInv(p) /\ TruthInv(p)
  BY DEF TypeInv, Tasks, OfferInv, NoOutcome
<1>m. \A t \in Tasks : info[t].status \in Terminal => info'[t] = info[t]
  BY <1>0, MarketIsMonotone
<1>1. CASE Tick
  BY <1>0, VerdictKind, <1>1 DEF Tick, MayWait, Waiting, offerVars, marketVars,
    TypeOK, TaskInv, ReplyInv, TruthInv, Terminal, Active
<1>2. CASE Market
  <2>1. ASSUME NEW p \in Offers, GetServed(p) PROVE TruthInv(o)'
    BY <1>0, VerdictKind, <2>1 DEF GetServed, marketVars, TypeOK, TaskInv, ReplyInv,
      TruthInv, Terminal, Active
  <2>2. ASSUME UNCHANGED <<clock, offerVars>> PROVE TruthInv(o)'
    BY <1>0, VerdictKind, <1>m, <2>2 DEF offerVars, TypeOK, TaskInv, ReplyInv,
      TruthInv, Terminal, Active
  <2> QED BY <1>2, <2>1, <2>2 DEF Market, MarketAccepts, MarketSettles
<1>3. ASSUME NEW p \in Offers, Call(p) PROVE TruthInv(o)'
  BY <1>0, VerdictKind, <1>3 DEF Call, marketVars, TypeOK, TaskInv, ReplyInv,
    TruthInv, Terminal, Active
<1>4. ASSUME NEW p \in Offers, CheckDeadline(p) PROVE TruthInv(o)'
  BY <1>0, VerdictKind, <1>4 DEF CheckDeadline, DeadlineExceeded, Return, Returned,
    Leave,
    marketVars, TypeOK, TaskInv, ReplyInv, TruthInv, Terminal, Active
<1>5. ASSUME NEW p \in Offers, GetSent(p) PROVE TruthInv(o)'
  BY <1>0, VerdictKind, <1>5 DEF GetSent, marketVars, TypeOK, TaskInv, ReplyInv,
    TruthInv, Terminal, Active
<1>6. ASSUME NEW p \in Offers, Wake(p) PROVE TruthInv(o)'
  BY <1>0, VerdictKind, <1>6 DEF Wake, marketVars, TypeOK, TaskInv, ReplyInv,
    TruthInv, Terminal, Active
<1>7. ASSUME NEW p \in Offers, PostReturns(p) PROVE TruthInv(o)'
  BY <1>0, VerdictKind, <1>7 DEF PostReturns, marketVars, TypeOK, TaskInv, ReplyInv,
    TruthInv, Terminal, Active
<1>8. ASSUME NEW p \in Offers, PostFails(p) \/ GetFails(p) \/ Abandon(p)
      PROVE  TruthInv(o)'
  <2>1. PICK r : /\ outcome' = [outcome EXCEPT ![p] = r]
                 /\ r.kind \in {"none", "Unreachable", "Transient", "Failed"}
    <3>1. CASE Abandon(p)
      BY <1>0, <3>1 DEF Abandon, Leave
    <3>2. CASE PostFails(p) \/ GetFails(p)
      <4>1. PICK e \in SdkError : Return(p, Returned(BrokerError(e)))
        BY <3>2 DEF PostFails, GetFails
      <4>2. Returned(BrokerError(e)).kind = BrokerError(e)
        BY DEF Returned
      <4> QED BY <4>1, <4>2, BrokerErrorType DEF Return, Leave
    <3> QED BY <1>8, <3>1, <3>2
  <2>2. task' = task /\ info' = info
    BY <1>8 DEF PostFails, GetFails, Abandon, marketVars
  <2> QED BY <1>0, <2>1, <2>2 DEF TypeOK, TruthInv
<1>9. ASSUME NEW p \in Offers, GetReturns(p) PROVE TruthInv(o)'
  BY <1>0, VerdictKind, <1>9 DEF GetReturns, Return, Leave, marketVars, TypeOK,
    TaskInv, ReplyInv, TruthInv, Terminal, Active
<1>10. CASE UNCHANGED vars
  BY <1>0, VerdictKind, <1>10 DEF vars, offerVars, marketVars, TypeOK, TaskInv,
    ReplyInv, TruthInv, Terminal, Active
<1> QED BY <1>1, <1>2, <1>3, <1>4, <1>5, <1>6, <1>7, <1>8, <1>9, <1>10
      DEF Next, Offer, Local, RpcEnds

------------------------------------------------------------------------------
(* The invariant as a whole                                                *)

LEMMA InvInitial == Init => IInv
<1> SUFFICES ASSUME Init PROVE IInv
  OBVIOUS
<1>1. TypeOK
  BY TypeInitial DEF TypeInv
<1>2. NoOutcome.kind = "none"
  BY DEF NoOutcome
<1>3. ASSUME NEW o \in Offers PROVE OfferInv(o)
  BY <1>2 DEF Init, OfferInv, TaskInv, TimeInv, ReplyInv, SettleInv, LateInv, TruthInv,
    Active, NoReply, Absent, Terminal
<1> QED BY <1>1, <1>3 DEF IInv

LEMMA InvInductive == IInv /\ [Next]_vars => IInv'
<1> SUFFICES ASSUME IInv, [Next]_vars PROVE IInv'
  OBVIOUS
<1>1. TypeInv /\ \A o \in Offers : OfferInv(o)
  BY DEF IInv, TypeInv, OfferInv
<1>2. \A o \in Offers :
        TaskInv(o) /\ TimeInv(o) /\ ReplyInv(o) /\ SettleInv(o) /\ LateInv(o) /\ TruthInv(o)
  BY <1>1 DEF OfferInv
<1>3. TypeOK' /\ \A o \in Offers : TaskInv(o)'
  BY <1>1, TypeInductive DEF TypeInv
<1>4. \A o \in Offers : TimeInv(o)'
  BY <1>1, <1>2, TimeInductive DEF TypeInv
<1>5. \A o \in Offers : ReplyInv(o)'
  BY <1>1, <1>2, ReplyInductive
<1>6. \A o \in Offers : SettleInv(o)'
  BY <1>1, <1>2, SettleInductive
<1>7. \A o \in Offers : LateInv(o)' /\ TruthInv(o)'
  BY <1>1, LateInductive, TruthInductive
<1> QED BY <1>3, <1>4, <1>5, <1>6, <1>7 DEF IInv, OfferInv

\* IInv is an inductive invariant of the broker.
THEOREM Invariance == Spec => []IInv
BY InvInitial, InvInductive, PTL DEF Spec

\* A definite outcome is, and stays, the state of one of the offer's tasks.
THEOREM OutcomeIsTrue == Spec => []OutcomeIsMarketTruth
<1>1. IInv => OutcomeIsMarketTruth
  BY DEF IInv, OfferInv, TruthInv, OutcomeIsMarketTruth
<1> QED BY Invariance, <1>1, PTL

\* A task that settles in time is not reported as late.
THEOREM NothingSettledIsMissed == Spec => []NoMissedSettlement
<1>1. IInv => NoMissedSettlement
  BY DeadlineType, TimingAssumption
    DEF IInv, OfferInv, TypeOK, LateInv, Readable, NoMissedSettlement, Tasks
<1> QED BY Invariance, <1>1, PTL

------------------------------------------------------------------------------
(* Action property                                                         *)

\* The sleep between two polls is never cut short.
PaceInv(o) ==
  /\ pc[o] = "sleeping" => sent[o] + PollInterval <= wake[o]
  /\ (pc[o] = "checking" /\ reply[o] # NoReply) => sent[o] + PollInterval <= clock

LEMMA PaceInductive ==
  IInv /\ (\A o \in Offers : PaceInv(o)) /\ [Next]_vars
    => \A o \in Offers : PaceInv(o)'
<1> SUFFICES ASSUME IInv, \A p \in Offers : PaceInv(p), [Next]_vars, NEW o \in Offers
             PROVE  PaceInv(o)'
  OBVIOUS
<1>0. TypeOK /\ (\A p \in Offers : TimeInv(p) /\ ReplyInv(p)) /\ PollInterval \in Nat
  BY TimingAssumption DEF IInv, OfferInv
<1>1. CASE Tick
  BY <1>0, <1>1 DEF Tick, MayWait, offerVars, TypeOK, PaceInv
<1>2. CASE Market
  <2>1. clock' = clock /\ pc' = pc /\ sent' = sent /\ wake' = wake
    BY <1>2 DEF Market, MarketAccepts, GetServed, MarketSettles, offerVars
  <2>2. pc[o] = "checking" => reply'[o] = reply[o]
    BY <1>0, <1>2 DEF Market, MarketAccepts, GetServed, MarketSettles, offerVars, TypeOK
  <2> QED BY <2>1, <2>2 DEF PaceInv
<1>3. ASSUME NEW p \in Offers, Call(p) \/ GetSent(p) PROVE PaceInv(o)'
  BY <1>0, <1>3 DEF Call, GetSent, TypeOK, PaceInv
<1>4. ASSUME NEW p \in Offers, Wake(p) PROVE PaceInv(o)'
  BY <1>0, <1>4 DEF Wake, TypeOK, PaceInv
<1>5. ASSUME NEW p \in Offers, PostReturns(p) PROVE PaceInv(o)'
  BY <1>0, <1>5 DEF PostReturns, TypeOK, ReplyInv, PaceInv
<1>6. ASSUME NEW p \in Offers,
             CheckDeadline(p) \/ PostFails(p) \/ GetFails(p) \/ Abandon(p)
      PROVE  PaceInv(o)'
  BY <1>0, <1>6 DEF CheckDeadline, PostFails, GetFails, Abandon, Return, Leave, TypeOK,
    PaceInv
<1>7. ASSUME NEW p \in Offers, GetReturns(p) PROVE PaceInv(o)'
  BY <1>0, <1>7 DEF GetReturns, Return, Leave, TypeOK, TimeInv, PaceInv
<1>8. CASE UNCHANGED vars
  BY <1>8 DEF vars, offerVars, PaceInv
<1> QED BY <1>1, <1>2, <1>3, <1>4, <1>5, <1>6, <1>7, <1>8 DEF Next, Offer, Local, RpcEnds

\* An offer sends its polls at least a poll interval apart.
THEOREM PollingIsPaced == Spec => PollsArePaced
<1> DEFINE PInv == IInv /\ \A o \in Offers : PaceInv(o)
<1>1. Init => PInv
  <2>1. Init => \A o \in Offers : PaceInv(o)
    BY DEF Init, PaceInv
  <2> QED BY <2>1, InvInitial
<1>2. PInv /\ [Next]_vars => PInv'
  BY InvInductive, PaceInductive
<1>3. PInv => (\A o \in Offers :
                (GetSent(o) /\ reply[o] # NoReply) => clock >= sent[o] + PollInterval)
  BY TimingAssumption DEF IInv, TypeOK, PaceInv, GetSent
<1>4. PInv /\ [Next]_vars =>
        [\A o \in Offers :
           (GetSent(o) /\ reply[o] # NoReply) => clock >= sent[o] + PollInterval]_vars
  BY <1>3
<1> QED BY <1>1, <1>2, <1>4, PTL DEF Spec, PollsArePaced

------------------------------------------------------------------------------
(* Refinement                                                              *)

\* Every step of the broker is a step of WorkOffer, or one it does not see.
LEMMA StepRefines == IInv /\ [Next]_vars => [Abstract!Next]_(Abstract!vars)
<1> SUFFICES ASSUME IInv, [Next]_vars PROVE [Abstract!Next]_(Abstract!vars)
  OBVIOUS
<1> DEFINE status == [t \in Tasks |-> info[t].status]
           result == [o \in Offers |-> ResultOf(o)]
<1>0. TypeOK
  BY DEF IInv
<1>1. CASE Tick
  BY <1>1 DEF Tick, offerVars, marketVars, Abstract!vars, ResultOf
<1>2. ASSUME NEW o \in Offers, NEW n \in Attempts, MarketAccepts(o, n)
      PROVE  Abstract!Accept(o, n)
  <2>1. <<o, n>> \in Tasks
    BY DEF Tasks
  <2>2. status' = [status EXCEPT ![<<o, n>>] = "open"]
    BY <1>0, <1>2, <2>1 DEF MarketAccepts, TypeOK, TaskInfo
  <2>3. result' = result
    BY <1>2 DEF MarketAccepts, offerVars, ResultOf
  <2>4. ResultOf(o) # "idle"
    BY <1>2 DEF MarketAccepts, ResultOf, Told, Active
  <2>5. status[<<o, n>>] = "absent"
    BY <1>2, <2>1 DEF MarketAccepts
  <2> QED BY <2>1, <2>2, <2>3, <2>4, <2>5 DEF Abstract!Accept
<1>3. ASSUME NEW t \in Tasks, MarketSettles(t)
      PROVE  \E s \in Terminal : Abstract!Settle(t, s)
  <2>1. PICK v \in Results : info' = [info EXCEPT ![t] = v]
    BY <1>3 DEF MarketSettles
  <2>2. v.status \in Terminal
    BY DEF Results
  <2>3. status' = [status EXCEPT ![t] = v.status]
    BY <1>0, <2>1 DEF TypeOK
  <2>4. result' = result
    BY <1>3 DEF MarketSettles, offerVars, ResultOf
  <2>5. status[t] = "open"
    BY <1>3 DEF MarketSettles
  <2> QED BY <2>2, <2>3, <2>4, <2>5 DEF Abstract!Settle
<1>4. ASSUME NEW o \in Offers, GetServed(o) PROVE UNCHANGED Abstract!vars
  BY <1>4 DEF GetServed, marketVars, Abstract!vars, ResultOf
<1>5. ASSUME NEW o \in Offers, Offer(o)
      PROVE  /\ status' = status
             /\ result' = [result EXCEPT ![o] = ResultOf(o)']
  <2>1. /\ info' = info
        /\ \A p \in Offers \ {o} : pc'[p] = pc[p] /\ outcome'[p] = outcome[p]
    BY <1>0, <1>5 DEF Offer, Call, Local, CheckDeadline, GetSent, Wake, RpcEnds,
      PostReturns, PostFails, GetReturns, GetFails, Abandon, Return, Leave,
      marketVars, TypeOK
  <2>2. \A p \in Offers \ {o} : ResultOf(p)' = ResultOf(p)
    BY <2>1 DEF ResultOf
  <2> QED BY <2>1, <2>2
<1>6. ASSUME NEW o \in Offers, Call(o) PROVE Abstract!Call(o)
  <2>1. Offer(o) /\ result[o] = "idle" /\ ResultOf(o)' = "pending"
    BY <1>0, <1>6 DEF Offer, Call, TypeOK, ResultOf, Active
  <2> QED BY <1>5, <2>1 DEF Abstract!Call
<1>7. ASSUME NEW o \in Offers, PostReturns(o) \/ GetSent(o) \/ Wake(o)
      PROVE  UNCHANGED Abstract!vars
  <2>1. Offer(o) /\ ResultOf(o) = "pending" /\ ResultOf(o)' = "pending"
    BY <1>0, <1>7 DEF Offer, Local, RpcEnds, PostReturns, GetSent, Wake, TypeOK,
      ResultOf, Active
  <2> QED BY <1>5, <2>1 DEF Abstract!vars
<1>8. ASSUME NEW o \in Offers,
             CheckDeadline(o) \/ PostFails(o) \/ GetFails(o) \/ Abandon(o)
      PROVE  Abstract!GiveUp(o)
  <2>1. Offer(o) /\ result[o] = "pending"
    BY <1>8 DEF Offer, Local, RpcEnds, CheckDeadline, PostFails, GetFails, Abandon,
      Waiting, ResultOf, Active
  <2>2. /\ pc'[o] \in Ends
        /\ outcome'[o].kind \in {"none", "DeadlineExceeded", "Unreachable",
                                "Transient", "Failed"}
    <3>1. CASE Abandon(o)
      BY <1>0, <3>1 DEF Abandon, Leave, NoOutcome, TypeOK, Ends
    <3>2. CASE CheckDeadline(o)
      BY <1>0, <3>2 DEF CheckDeadline, Return, Returned, Leave, TypeOK, Ends
    <3>3. CASE PostFails(o) \/ GetFails(o)
      <4>1. PICK e \in SdkError : Return(o, Returned(BrokerError(e)))
        BY <3>3 DEF PostFails, GetFails
      <4>2. Returned(BrokerError(e)).kind = BrokerError(e)
        BY DEF Returned
      <4> QED BY <1>0, <4>1, <4>2, BrokerErrorType DEF Return, Leave, TypeOK, Ends
    <3> QED BY <1>8, <3>1, <3>2, <3>3
  <2>3. ResultOf(o)' = "unknown"
    BY <2>2 DEF ResultOf, Told, Ends, Active
  <2> QED BY <1>5, <2>1, <2>3 DEF Abstract!GiveUp
<1>9. ASSUME NEW o \in Offers, GetReturns(o)
      PROVE  \/ UNCHANGED Abstract!vars
             \/ Abstract!GiveUp(o)
             \/ \E n \in Attempts : Abstract!Report(o, n)
  <2>1. Offer(o) /\ result[o] = "pending"
    BY <1>9 DEF Offer, RpcEnds, GetReturns, ResultOf, Active
  <2>2. CASE Verdict(reply[o]) = NoOutcome
    <3>1. ResultOf(o)' = "pending"
      BY <1>0, <1>9, <2>2 DEF GetReturns, TypeOK, ResultOf, Active
    <3> QED BY <1>5, <2>1, <3>1 DEF Abstract!vars
  <2>3. CASE Verdict(reply[o]) # NoOutcome
    <3> DEFINE v == reply[o]
    <3>1. v \in TaskInfo /\ pc[o] \in Active
      BY <1>0, <1>9 DEF GetReturns, TypeOK, Active
    <3>2. pc'[o] = "done" /\ outcome'[o] = Verdict(v)
      BY <1>0, <1>9, <2>3 DEF GetReturns, Return, Leave, TypeOK
    <3>3. v.status \in Terminal
      BY <2>3, <3>1, VerdictIsNone DEF StatusStr, Terminal
    <3>4. PICK n \in Attempts : task[o] = <<o, n>> /\ <<o, n>> \in Tasks
      BY <3>1 DEF IInv, OfferInv, TaskInv, Tasks
    <3>5. status[<<o, n>>] = v.status
      BY <3>1, <3>3, <3>4 DEF IInv, OfferInv, ReplyInv
    <3>6. Verdict(v).kind # "none"
      BY <2>3, <3>1, VerdictIsNone DEF Verdict, Returned, Completed, NoOutcome, Terminal
    <3>7. CASE Verdict(v).kind = "Failed"
      <4>1. ResultOf(o)' = "unknown"
        BY <3>2, <3>7 DEF ResultOf, Told, Active
      <4> QED BY <1>5, <2>1, <4>1 DEF Abstract!GiveUp
    <3>8. CASE Verdict(v).kind # "Failed"
      <4>1. ResultOf(o)' = v.status
        BY <3>1, <3>2, <3>6, <3>8, VerdictKind DEF ResultOf, Told, Active
      <4>2. Abstract!Report(o, n)
        BY <1>5, <2>1, <3>3, <3>4, <3>5, <4>1
          DEF Abstract!Report, Abstract!Settled, Terminal
      <4> QED BY <4>2
    <3> QED BY <3>7, <3>8
  <2> QED BY <2>2, <2>3
<1>10. CASE UNCHANGED vars
  BY <1>10 DEF vars, offerVars, marketVars, Abstract!vars, ResultOf
<1>11. Abstract!Tasks = Tasks /\ Abstract!Settled = Terminal
  BY DEF Abstract!Tasks, Tasks, Abstract!Settled, Terminal
<1>12. CASE Market
  BY <1>2, <1>3, <1>4, <1>11, <1>12 DEF Market, Abstract!Next
<1>13. ASSUME NEW o \in Offers, Offer(o) PROVE [Abstract!Next]_(Abstract!vars)
  BY <1>6, <1>7, <1>8, <1>9, <1>13 DEF Offer, Local, RpcEnds, Abstract!Next
<1> QED BY <1>1, <1>10, <1>12, <1>13 DEF Next

\* The broker implements WorkOffer.
THEOREM Implementation == Spec => ImplementsWorkOffer
<1>1. Init => Abstract!Init
  <2> SUFFICES ASSUME Init PROVE Abstract!Init
    OBVIOUS
  <2>1. \A t \in Tasks : info[t].status = "absent"
    BY DEF Init, Absent
  <2>2. \A o \in Offers : ResultOf(o) = "idle"
    BY DEF Init, ResultOf, Active
  <2> QED BY <2>1, <2>2 DEF Abstract!Init, Abstract!Tasks, Tasks
<1> QED BY <1>1, StepRefines, Invariance, PTL DEF Spec, ImplementsWorkOffer, Abstract!Spec

==============================================================================
