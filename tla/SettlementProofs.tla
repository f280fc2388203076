--------------------------- MODULE SettlementProofs ---------------------------
(***************************************************************************)
(* Theorems about Settlement, for any calls, channels, amounts, number of  *)
(* attempts, width of an amount and funds.                                 *)
(***************************************************************************)
EXTENDS Settlement, Integers, FiniteSetTheorems, Sums, TLAPS

\* The answer to the last request, and a result made from it, tell what the ledger
\* has done with that request; a request that was not sent is still open.
FateInv(c) ==
  /\ \A n \in Attempts : n > sent[c] => fate[<<c, n>>] = "pending"
  /\ answer[c] = "Ok" => fate[<<c, sent[c]>>] = "executed"
  /\ answer[c] \in LedgerError => fate[<<c, sent[c]>>] = "refused"
  /\ result[c] = "Ok" => sent[c] > 0 /\ fate[<<c, sent[c]>>] = "executed"
  /\ result[c] = "Refused" => sent[c] = 0 \/ fate[<<c, sent[c]>>] = "refused"

\* What a call holds, by where it stands.
StandInv(c) ==
  /\ pc[c] = "idle" => sent[c] = 0
  /\ pc[c] = "waiting" => sent[c] > 0
  /\ pc[c] # "waiting" => answer[c] = None
  /\ pc[c] # "done" => result[c] = None

\* A payment and a closing that were sent name a channel; a payment names its work.
RequestInv(c) ==
  /\ c \in SendCalls /\ sent[c] > 0 =>
       request[c].channel \in Channels /\ request[c].memo = Work[c]
  /\ c \in CloseCalls /\ sent[c] > 0 => request[c].channel \in Channels

\* Of two sends for one work, one is not begun or has been given back.
WorkInv(c, d) ==
  Work[c] = Work[d] =>
    \/ pc[c] = "idle" \/ pc[d] = "idle"
    \/ result[c] \in RetryOn \/ result[d] \in RetryOn

CallInv(c) == FateInv(c) /\ StandInv(c) /\ RequestInv(c)

IInv ==
  /\ TypeOK
  /\ \A c \in Calls : CallInv(c)
  /\ \A c \in SendCalls, d \in SendCalls : c # d => WorkInv(c, d)

------------------------------------------------------------------------------
(* What the definitions say                                                *)

\* An amount that is accepted fits 64 bits.
LEMMA UnitsFit ==
  ASSUME NEW a \in Amounts PROVE Units(a) \subseteq 0..U64Max
BY SettlementAssumption DEF Units

\* Every error comes back as one of three, and Refused only for missing funds.
LEMMA ErrorsAreTranslated ==
  \A e \in SdkError :
    /\ SettlementError(e) \in {"Refused", "Transient", "Failed"}
    /\ SettlementError(e) = "Refused" => e = "InsufficientFunds"
BY DEF SdkError, SettlementError, LinkError

\* A channel that the caller has been told of exists.
LEMMA KnownChannelsExist == IInv => KnownChannels \subseteq Channels
<1> SUFFICES ASSUME IInv, NEW o \in OpenCalls, result[o] = "Ok"
             PROVE  <<o, sent[o]>> \in Channels
  BY DEF KnownChannels
<1>1. o \in Calls
  BY DEF Calls
<1>2. sent[o] \in 0..MaxAttempts /\ sent[o] > 0
  BY <1>1 DEF IInv, TypeOK, CallInv, FateInv
<1> QED BY <1>2, SettlementAssumption DEF Channels, Attempts

LEMMA InvInitial == Init => IInv
<1> SUFFICES ASSUME Init PROVE IInv
  OBVIOUS
<1> USE SettlementAssumption
<1>1. TypeOK
  BY DEF Init, TypeOK, NoRequest, None
<1>2. \A c \in Calls : CallInv(c)
  BY DEF Init, CallInv, FateInv, StandInv, RequestInv, None, LedgerError, Attempts
<1>3. \A c \in SendCalls, d \in SendCalls : WorkInv(c, d)
  BY DEF Init, WorkInv, Calls
<1> QED BY <1>1, <1>2, <1>3 DEF IInv

------------------------------------------------------------------------------
(* One lemma for each kind of step                                         *)

\* A step about one call leaves the other calls and their requests alone.
LEMMA OneCall ==
  ASSUME IInv, NEW c \in Calls, TypeOK',
         \A d \in Calls \ {c} :
           /\ pc'[d] = pc[d] /\ request'[d] = request[d] /\ sent'[d] = sent[d]
           /\ answer'[d] = answer[d] /\ result'[d] = result[d]
           /\ \A n \in Attempts : fate'[<<d, n>>] = fate[<<d, n>>],
         CallInv(c)',
         \A d \in SendCalls \ {c} : c \in SendCalls => WorkInv(c, d)'
  PROVE  IInv'
<1>1. ASSUME NEW d \in Calls, d # c PROVE CallInv(d)'
  <2>1. CallInv(d) /\ sent[d] \in 0..MaxAttempts
    BY DEF IInv, TypeOK
  <2>2. answer[d] # None \/ result[d] = "Ok" \/ result[d] = "Refused" =>
          sent[d] = 0 \/ sent[d] \in Attempts
    BY <2>1, SettlementAssumption DEF Attempts
  <2>3. answer[d] # None => sent[d] > 0
    BY <2>1 DEF CallInv, StandInv
  <2>4. FateInv(d)'
    BY <1>1, <2>1, <2>2, <2>3 DEF CallInv, FateInv, LedgerError, None
  <2>5. StandInv(d)' /\ RequestInv(d)'
    BY <1>1, <2>1 DEF CallInv, StandInv, RequestInv
  <2> QED BY <2>4, <2>5 DEF CallInv
<1>2. ASSUME NEW d \in SendCalls, NEW e \in SendCalls, d # e PROVE WorkInv(d, e)'
  <2>1. d \in Calls /\ e \in Calls
    BY DEF Calls
  <2>2. CASE d = c
    BY <1>2, <2>2
  <2>3. CASE e = c
    <3>1. WorkInv(e, d)'
      BY <1>2, <2>3
    <3> QED BY <3>1 DEF WorkInv
  <2>4. CASE d # c /\ e # c
    BY <1>2, <2>1, <2>4 DEF IInv, WorkInv
  <2> QED BY <2>2, <2>3, <2>4
<1> QED BY <1>1, <1>2 DEF IInv

\* What the caller and the SDK do to a call leaves the ledger alone.
LEMMA CallStep ==
  ASSUME IInv, NEW c \in Calls, TypeOK', UNCHANGED fate,
         \A d \in Calls \ {c} :
           /\ pc'[d] = pc[d] /\ request'[d] = request[d] /\ sent'[d] = sent[d]
           /\ answer'[d] = answer[d] /\ result'[d] = result[d],
         CallInv(c)',
         \A d \in SendCalls \ {c} : c \in SendCalls => WorkInv(c, d)'
  PROVE  IInv'
BY OneCall

\* A call that begins has room beside the other sends for its work.
LEMMA BeginKeepsInv ==
  ASSUME IInv, NEW c \in Calls, pc[c] = "idle", NEW a \in Amounts \cup {NoAmount},
         NEW req \in [channel : Channels \cup {NoChannel}, amount : 0..U64Max,
                      memo : {Work[d] : d \in SendCalls} \cup {None}],
         c \in SendCalls => /\ req.channel \in Channels
                            /\ req.memo = Work[c]
                            /\ MaySend(c),
         c \in CloseCalls => req.channel \in Channels,
         Begin(c, a, req)
  PROVE  IInv'
<1> USE SettlementAssumption
<1>1. TypeOK'
  BY DEF IInv, TypeOK, Begin, ledgerVars
<1>2. /\ pc'[c] = "waiting" /\ request'[c] = req /\ sent'[c] = 1
      /\ UNCHANGED <<result, answer, fate>>
  BY DEF IInv, TypeOK, Begin, ledgerVars
<1>3. CallInv(c) /\ sent[c] = 0 /\ result[c] = None /\ answer[c] = None
  BY DEF IInv, CallInv, StandInv
<1>4. FateInv(c)'
  BY <1>2, <1>3 DEF CallInv, FateInv, Attempts, LedgerError, None
<1>5. StandInv(c)' /\ RequestInv(c)'
  BY <1>2, <1>3 DEF StandInv, RequestInv
<1>6. ASSUME NEW d \in SendCalls \ {c}, c \in SendCalls PROVE WorkInv(c, d)'
  BY <1>2, <1>6 DEF Begin, MaySend, WorkInv, Calls, IInv, TypeOK
<1> QED BY <1>1, <1>2, <1>4, <1>5, <1>6, CallStep DEF IInv, TypeOK, Begin, CallInv

\* A call that is refused on the spot is never sent.
LEMMA RefuseAtOnceKeepsInv ==
  ASSUME IInv, NEW c \in Calls, pc[c] = "idle", NEW a \in Amounts \cup {NoAmount},
         c \in SendCalls => MaySend(c), RefuseAtOnce(c, a)
  PROVE  IInv'
<1> USE SettlementAssumption
<1>1. TypeOK'
  BY DEF IInv, TypeOK, RefuseAtOnce, ledgerVars
<1>2. /\ pc'[c] = "done" /\ result'[c] = "Refused"
      /\ UNCHANGED <<request, sent, answer, fate>>
  BY DEF IInv, TypeOK, RefuseAtOnce, ledgerVars
<1>3. CallInv(c) /\ sent[c] = 0 /\ answer[c] = None
  BY DEF IInv, CallInv, StandInv
<1>4. FateInv(c)'
  BY <1>2, <1>3 DEF CallInv, FateInv, LedgerError, None
<1>5. StandInv(c)' /\ RequestInv(c)'
  BY <1>2, <1>3 DEF StandInv, RequestInv
<1>6. ASSUME NEW d \in SendCalls \ {c}, c \in SendCalls PROVE WorkInv(c, d)'
  BY <1>2, <1>6 DEF RefuseAtOnce, MaySend, WorkInv, Calls, IInv, TypeOK
<1> QED BY <1>1, <1>2, <1>4, <1>5, <1>6, CallStep DEF IInv, TypeOK, RefuseAtOnce, CallInv

LEMMA OpenChannelKeepsInv ==
  ASSUME IInv, NEW c \in OpenCalls, NEW a \in Amounts \cup {NoAmount}, OpenChannel(c, a)
  PROVE  IInv'
<1> DEFINE R == [channel : Channels \cup {NoChannel}, amount : 0..U64Max,
                 memo : {Work[d] : d \in SendCalls} \cup {None}]
<1> USE SettlementAssumption
<1>1. c \in Calls /\ c \notin SendCalls /\ c \notin CloseCalls /\ pc[c] = "idle"
  BY DEF Calls, OpenChannel
<1>2. NoRequest \in R
  BY DEF NoRequest
<1>3. ASSUME a \in Amounts, NEW u \in Units(a) PROVE [NoRequest EXCEPT !.amount = u] \in R
  BY <1>3, UnitsFit DEF NoRequest
<1> HIDE DEF R
<1>4. CASE Begin(c, a, NoRequest)
  BY <1>1, <1>2, <1>4, BeginKeepsInv DEF R
<1>5. ASSUME a # NoAmount, NEW u \in Units(a), Begin(c, a, [NoRequest EXCEPT !.amount = u])
      PROVE  IInv'
  BY <1>1, <1>3, <1>5, BeginKeepsInv DEF R
<1>6. CASE RefuseAtOnce(c, a)
  BY <1>1, <1>6, RefuseAtOnceKeepsInv
<1> QED BY <1>4, <1>5, <1>6 DEF OpenChannel

LEMMA SendMicropaymentKeepsInv ==
  ASSUME IInv, NEW c \in SendCalls, NEW a \in Amounts,
         NEW h \in KnownChannels \cup {NoChannel}, SendMicropayment(c, h, a)
  PROVE  IInv'
<1> USE SettlementAssumption
<1>1. c \in Calls /\ c \notin CloseCalls /\ pc[c] = "idle" /\ MaySend(c)
  BY DEF Calls, SendMicropayment
<1>2. ASSUME h # NoChannel, NEW u \in Units(a),
             Begin(c, a, [channel |-> h, amount |-> u, memo |-> Work[c]])
      PROVE  IInv'
  <2>1. h \in Channels /\ u \in 0..U64Max
    BY <1>2, KnownChannelsExist, UnitsFit
  <2> DEFINE req == [channel |-> h, amount |-> u, memo |-> Work[c]]
  <2>2. /\ req \in [channel : Channels \cup {NoChannel}, amount : 0..U64Max,
                    memo : {Work[d] : d \in SendCalls} \cup {None}]
        /\ req.channel \in Channels /\ req.memo = Work[c]
    BY <2>1
  <2>3. Begin(c, a, req)
    BY <1>2
  <2> HIDE DEF req
  <2> QED BY <1>1, <2>2, <2>3, BeginKeepsInv
<1>3. CASE RefuseAtOnce(c, a)
  BY <1>1, <1>3, RefuseAtOnceKeepsInv
<1> QED BY <1>2, <1>3 DEF SendMicropayment

LEMMA CloseChannelKeepsInv ==
  ASSUME IInv, NEW c \in CloseCalls, NEW h \in KnownChannels, CloseChannel(c, h)
  PROVE  IInv'
<1> DEFINE req == [NoRequest EXCEPT !.channel = h]
<1> USE SettlementAssumption
<1>1. c \in Calls /\ c \notin SendCalls /\ pc[c] = "idle" /\ Begin(c, NoAmount, req)
  BY DEF Calls, CloseChannel
<1>2. h \in Channels
  BY KnownChannelsExist
<1>3. /\ req \in [channel : Channels \cup {NoChannel}, amount : 0..U64Max,
                  memo : {Work[d] : d \in SendCalls} \cup {None}]
      /\ req.channel \in Channels
  BY <1>2 DEF NoRequest
<1> HIDE DEF req
<1> QED BY <1>1, <1>3, BeginKeepsInv

\* A result is what the answer stands for, and the answer is what the ledger did.
LEMMA ReturnKeepsInv ==
  ASSUME IInv, NEW c \in Calls, pc[c] = "waiting",
         NEW r \in {"Ok", "Refused", "Transient", "Failed", "Dropped"},
         r = "Ok" => answer[c] = "Ok", r = "Refused" => answer[c] \in LedgerError,
         Return(c, r)
  PROVE  IInv'
<1> USE SettlementAssumption
<1>1. TypeOK'
  BY DEF IInv, TypeOK, Return, ledgerVars
<1>2. /\ pc'[c] = "done" /\ result'[c] = r /\ answer'[c] = None
      /\ UNCHANGED <<request, sent, fate>>
  BY DEF IInv, TypeOK, Return, ledgerVars
<1>3. CallInv(c) /\ sent[c] > 0 /\ result[c] = None
  BY DEF IInv, CallInv, StandInv
<1>4. FateInv(c)'
  BY <1>2, <1>3 DEF CallInv, FateInv, LedgerError, None
<1>5. StandInv(c)' /\ RequestInv(c)'
  BY <1>2, <1>3 DEF CallInv, StandInv, RequestInv
<1>6. ASSUME NEW d \in SendCalls \ {c}, c \in SendCalls PROVE WorkInv(c, d)'
  <2>1. WorkInv(c, d) /\ result[c] \notin RetryOn /\ d \in Calls
    BY <1>3, <1>6 DEF IInv, Calls, None
  <2> QED BY <2>1, <1>6 DEF Return, WorkInv, IInv, TypeOK
<1> QED BY <1>1, <1>2, <1>4, <1>5, <1>6, CallStep DEF IInv, TypeOK, Return, CallInv

LEMMA CallEndsKeepInv ==
  ASSUME IInv, NEW c \in Calls, OkReturns(c) \/ ErrorReturns(c) \/ Abandon(c) \/ GivesUp(c)
  PROVE  IInv'
<1>1. CASE OkReturns(c)
  BY <1>1, ReturnKeepsInv DEF OkReturns
<1>2. CASE ErrorReturns(c)
  <2>1. answer[c] \in SdkError
    BY <1>2 DEF ErrorReturns, LedgerError, SdkError
  <2>2. SettlementError(answer[c]) \in {"Refused", "Transient", "Failed"}
    BY <2>1, ErrorsAreTranslated
  <2> QED BY <1>2, <2>2, ReturnKeepsInv DEF ErrorReturns
<1>3. CASE Abandon(c)
  BY <1>3, ReturnKeepsInv DEF Abandon
<1>4. CASE GivesUp(c)
  <2>1. PICK e \in {"ConnectionError", "Timeout", "Other"} : Return(c, SettlementError(e))
    BY <1>4 DEF GivesUp
  <2>2. SettlementError(e) \in {"Transient", "Failed"}
    BY ErrorsAreTranslated DEF SdkError
  <2> QED BY <1>4, <2>1, <2>2, ReturnKeepsInv DEF GivesUp
<1> QED BY <1>1, <1>2, <1>3, <1>4

LEMMA ResendKeepsInv ==
  ASSUME IInv, NEW c \in Calls, Resend(c) PROVE IInv'
<1> USE SettlementAssumption
<1>1. TypeOK'
  BY DEF IInv, TypeOK, Resend, ledgerVars
<1>2. /\ pc[c] = "waiting" /\ sent[c] \in Nat /\ sent'[c] = sent[c] + 1 /\ answer[c] = None
      /\ UNCHANGED <<pc, request, answer, result, fate>>
  BY DEF IInv, TypeOK, Resend, ledgerVars
<1>3. CallInv(c) /\ result[c] = None /\ sent[c] > 0
  BY <1>2 DEF IInv, CallInv, StandInv
<1>4. FateInv(c)'
  BY <1>2, <1>3 DEF CallInv, FateInv, LedgerError, None, Attempts
<1>5. StandInv(c)' /\ RequestInv(c)'
  BY <1>2, <1>3 DEF CallInv, StandInv, RequestInv
<1>6. \A d \in SendCalls \ {c} : c \in SendCalls => WorkInv(c, d)'
  BY <1>2 DEF IInv, WorkInv
<1> QED BY <1>1, <1>2, <1>4, <1>5, <1>6, CallStep DEF IInv, TypeOK, Resend, CallInv

\* A request is decided once; whoever waits for it may learn of it.
LEMMA DecisionKeepsInv ==
  ASSUME IInv, NEW c \in Calls, NEW n \in Attempts, Pending(c, n), TypeOK',
         NEW f \in {"executed", "refused"}, fate' = [fate EXCEPT ![<<c, n>>] = f],
         NEW a, f = "executed" => a = "Ok", f = "refused" => a \in LedgerError,
         Answers(c, n, a), UNCHANGED callVars
  PROVE  IInv'
<1> USE SettlementAssumption
<1>1. n <= sent[c] /\ fate[<<c, n>>] = "pending" /\ sent[c] \in Nat /\ n > 0
  BY DEF Pending, IInv, TypeOK, Attempts
<1>2. /\ UNCHANGED <<pc, request, sent, result>>
      /\ \A m \in Attempts : fate'[<<c, m>>] = IF m = n THEN f ELSE fate[<<c, m>>]
      /\ \A d \in Calls \ {c}, m \in Attempts : fate'[<<d, m>>] = fate[<<d, m>>]
  BY DEF callVars, IInv, TypeOK
<1>3. \/ pc[c] = "waiting" /\ sent[c] = n /\ answer[c] = None /\ answer'[c] = a
      \/ answer'[c] = answer[c]
  BY DEF Answers, IInv, TypeOK
<1>4. \A d \in Calls \ {c} : answer'[d] = answer[d]
  BY DEF Answers, IInv, TypeOK
<1>5. CallInv(c) /\ sent[c] \in Attempts
  BY <1>1 DEF IInv, TypeOK, Attempts
<1>6. FateInv(c)'
  <2>1. \A m \in Attempts : m > sent'[c] => fate'[<<c, m>>] = "pending"
    BY <1>1, <1>2, <1>5 DEF CallInv, FateInv, Attempts
  <2>2. fate'[<<c, sent[c]>>] = IF sent[c] = n THEN f ELSE fate[<<c, sent[c]>>]
    BY <1>2, <1>5
  <2>3. /\ answer'[c] = "Ok" => fate'[<<c, sent'[c]>>] = "executed"
        /\ answer'[c] \in LedgerError => fate'[<<c, sent'[c]>>] = "refused"
    BY <1>1, <1>2, <1>3, <1>5, <2>2 DEF CallInv, FateInv, LedgerError
  <2>4. /\ result'[c] = "Ok" => sent'[c] > 0 /\ fate'[<<c, sent'[c]>>] = "executed"
        /\ result'[c] = "Refused" => sent'[c] = 0 \/ fate'[<<c, sent'[c]>>] = "refused"
    BY <1>1, <1>2, <1>5, <2>2 DEF CallInv, FateInv
  <2> QED BY <2>1, <2>3, <2>4 DEF FateInv
<1>7. StandInv(c)' /\ RequestInv(c)'
  BY <1>2, <1>3, <1>5 DEF CallInv, StandInv, RequestInv
<1>8. \A d \in SendCalls \ {c} : c \in SendCalls => WorkInv(c, d)'
  BY <1>2 DEF IInv, WorkInv
<1> QED BY <1>2, <1>4, <1>6, <1>7, <1>8, OneCall DEF CallInv

LEMMA ExecuteKeepsInv ==
  ASSUME IInv, NEW c \in Calls, NEW n \in Attempts, Execute(c, n) PROVE IInv'
<1> USE SettlementAssumption
<1>1. /\ fate' = [fate EXCEPT ![<<c, n>>] = "executed"] /\ Pending(c, n)
      /\ Answers(c, n, "Ok") /\ UNCHANGED callVars
  BY DEF Execute
<1>2. channel' \in [Channels -> [open : BOOLEAN, funds : Nat]] /\ wallet' \in Nat
  <2>1. CASE Opens(c, n)
    <3>1. <<c, n>> \in Channels /\ request[c].amount \in Nat
      BY <2>1 DEF Opens, Channels, IInv, TypeOK
    <3> QED BY <2>1, <3>1 DEF Opens, IInv, TypeOK
  <2>2. CASE Pays(c)
    <3>1. request[c].channel \in Channels /\ request[c].amount \in Nat
      BY <1>1, <2>2 DEF Pays, Pending, Attempts, IInv, TypeOK, CallInv, RequestInv
    <3> DEFINE h == request[c].channel
    <3>2. /\ channel[h] \in [open : BOOLEAN, funds : Nat]
          /\ channel[h].funds - request[c].amount \in Nat
          /\ channel' = [channel EXCEPT ![h] =
                           [@ EXCEPT !.funds = channel[h].funds - request[c].amount]]
      BY <2>2, <3>1 DEF Pays, IInv, TypeOK
    <3> HIDE DEF h
    <3>3. channel' \in [Channels -> [open : BOOLEAN, funds : Nat]]
      BY <3>2 DEF IInv, TypeOK
    <3> QED BY <2>2, <3>3 DEF Pays, IInv, TypeOK
  <2>3. CASE Closes(c)
    <3>1. request[c].channel \in Channels
      BY <1>1, <2>3 DEF Closes, Pending, Attempts, IInv, TypeOK, CallInv, RequestInv
    <3> QED BY <2>3, <3>1 DEF Closes, IInv, TypeOK
  <2> QED BY <2>1, <2>2, <2>3 DEF Execute
<1>3. TypeOK'
  BY <1>1, <1>2 DEF IInv, TypeOK, callVars, Answers
<1> QED BY <1>1, <1>3, DecisionKeepsInv

LEMMA RefuseRequestKeepsInv ==
  ASSUME IInv, NEW c \in Calls, NEW n \in Attempts, RefuseRequest(c, n) PROVE IInv'
<1>1. PICK e \in LedgerError : Answers(c, n, e)
  BY DEF RefuseRequest
<1>2. /\ fate' = [fate EXCEPT ![<<c, n>>] = "refused"] /\ Pending(c, n)
      /\ UNCHANGED <<callVars, channel, wallet>>
  BY DEF RefuseRequest
<1>3. TypeOK'
  BY <1>1, <1>2 DEF IInv, TypeOK, callVars, Answers
<1> QED BY <1>1, <1>2, <1>3, DecisionKeepsInv

LEMMA StutterKeepsInv == IInv /\ UNCHANGED vars => IInv'
BY DEF vars, callVars, ledgerVars, IInv, TypeOK, CallInv, FateInv, StandInv, RequestInv,
       WorkInv

------------------------------------------------------------------------------
(* The theorems                                                            *)

\* The strengthening of the properties below is an invariant of the settlement.
THEOREM Invariance == Spec => []IInv
<1>1. IInv /\ [Next]_vars => IInv'
  <2> SUFFICES ASSUME IInv, [Next]_vars PROVE IInv'
    OBVIOUS
  <2> QED BY OpenChannelKeepsInv, SendMicropaymentKeepsInv, CloseChannelKeepsInv,
             CallEndsKeepInv, ResendKeepsInv, ExecuteKeepsInv, RefuseRequestKeepsInv,
             StutterKeepsInv
          DEF Next
<1> QED BY InvInitial, <1>1, PTL DEF Spec

\* Every variable of the settlement has its type; amounts fit 64 bits.
THEOREM TypeCorrect == Spec => []TypeOK
BY Invariance, PTL DEF IInv

\* A refused call has moved no money by its last request and never will.
LEMMA RefusedIsRefused == IInv => RefusedMovesNothing
<1> SUFFICES ASSUME IInv, NEW c \in Calls, result[c] = "Refused", NEW n \in Executed(c)
             PROVE  n < sent[c]
  BY DEF RefusedMovesNothing
<1>1. n \in Attempts /\ fate[<<c, n>>] = "executed" /\ CallInv(c) /\ sent[c] \in Nat
  BY DEF Executed, IInv, TypeOK
<1>2. n <= sent[c] /\ n # sent[c]
  BY <1>1, SettlementAssumption DEF CallInv, FateInv, Attempts
<1> QED BY <1>1, <1>2 DEF Attempts

\* No request of a call that is Refused is executed, except before a resend.
THEOREM RefusalIsFinal == Spec => []RefusedMovesNothing
BY Invariance, RefusedIsRefused, PTL

\* Paying again only after Refused never pays twice for one work.
THEOREM WorkIsPaidOnce == Spec => []PaidOnce
<1>1. IInv => PaidOnce
  <2> SUFFICES ASSUME IInv, RetryOn \subseteq {"Refused"},
                      NEW c \in SendCalls, NEW d \in SendCalls, c # d, Work[c] = Work[d],
                      sent[c] <= 1, sent[d] <= 1
               PROVE  Executed(c) = {} \/ Executed(d) = {}
    BY DEF PaidOnce
  <2>1. ASSUME NEW e \in SendCalls, sent[e] <= 1, pc[e] = "idle" \/ result[e] = "Refused"
        PROVE  Executed(e) = {}
    <3> SUFFICES ASSUME NEW n \in Executed(e) PROVE FALSE
      OBVIOUS
    <3>1. e \in Calls /\ n \in Attempts /\ fate[<<e, n>>] = "executed"
      BY DEF Calls, Executed
    <3>2. CallInv(e) /\ sent[e] \in Nat /\ n \in Nat /\ n > 0
      BY <3>1 DEF IInv, TypeOK, Attempts
    <3>3. CASE pc[e] = "idle"
      BY <3>1, <3>2, <3>3 DEF CallInv, FateInv, StandInv
    <3>4. CASE result[e] = "Refused"
      <4>1. n < sent[e]
        BY <3>1, <3>4, RefusedIsRefused DEF RefusedMovesNothing
      <4> QED BY <2>1, <3>2, <4>1
    <3> QED BY <2>1, <3>3, <3>4
  <2>2. WorkInv(c, d)
    BY DEF IInv
  <2> QED BY <2>1, <2>2 DEF WorkInv
<1> QED BY Invariance, <1>1, PTL

\* A receipt stands for a payment that the ledger has made for this work.
THEOREM ReceiptsAreTrue == Spec => []ReceiptIsPayment
<1>1. IInv => ReceiptIsPayment
  <2> SUFFICES ASSUME IInv, NEW c \in SendCalls, result[c] = "Ok"
               PROVE  /\ sent[c] \in Executed(c) /\ request[c].memo = Work[c]
                      /\ request[c].channel \in Channels
    BY DEF ReceiptIsPayment
  <2>1. c \in Calls /\ CallInv(c) /\ sent[c] \in 0..MaxAttempts
    BY DEF Calls, IInv, TypeOK
  <2>2. sent[c] \in Attempts /\ fate[<<c, sent[c]>>] = "executed"
    BY <2>1, SettlementAssumption DEF CallInv, FateInv, Attempts
  <2> QED BY <2>1, <2>2 DEF CallInv, RequestInv, Executed, Attempts
<1> QED BY Invariance, <1>1, PTL

------------------------------------------------------------------------------
(* Money                                                                   *)

\* A channel that no request has opened yet holds nothing.
FundsInv ==
  \A o \in OpenCalls, n \in Attempts :
    fate[<<o, n>>] # "executed" => channel[<<o, n>>].funds = 0

\* A payment that was sent is over what the caller wrote, to the unit.
AmountInv ==
  \A c \in SendCalls : sent[c] > 0 => request[c].amount = Worth(asked[c])

MoneyInv == FundsInv /\ AmountInv /\ MoneyIsAccounted

funds == [h \in Channels |-> channel[h].funds]
paid  == [c \in SendCalls |-> PaidBy(c)]

\* Both sums are over finite sets.
LEMMA SummandsAreFinite == IsFiniteSet(Channels) /\ IsFiniteSet(SendCalls)
<1>1. IsFiniteSet(OpenCalls) /\ IsFiniteSet(SendCalls)
  BY SettlementAssumption, FS_Subset DEF Calls
<1>2. IsFiniteSet(Attempts)
  BY SettlementAssumption, FS_Interval DEF Attempts
<1> QED BY <1>1, <1>2, FS_Product DEF Channels

\* An amount is a number, what a call has paid is a number of times its amount, and
\* the balances are numbers.
Numbers ==
  /\ \A c \in Calls : /\ Worth(asked[c]) \in Nat
                      /\ IsFiniteSet(Executed(c)) /\ Cardinality(Executed(c)) \in Nat
  /\ funds \in [Channels -> Nat] /\ InChannels \in Nat
  /\ paid \in [SendCalls -> Nat] /\ Paid \in Nat

LEMMA BalancesAreNumbers == TypeOK => Numbers
<1> SUFFICES ASSUME TypeOK PROVE Numbers
  OBVIOUS
<1>1. ASSUME NEW c \in Calls PROVE Worth(asked[c]) \in Nat
  BY SettlementAssumption DEF TypeOK, Worth
<1>2. ASSUME NEW c \in Calls
      PROVE  IsFiniteSet(Executed(c)) /\ Cardinality(Executed(c)) \in Nat
  <2>1. IsFiniteSet(Attempts) /\ Executed(c) \subseteq Attempts
    BY SettlementAssumption, FS_Interval DEF Attempts, Executed
  <2> QED BY <2>1, FS_Subset, FS_CardinalityType
<1>3. \A k, w \in Nat : k * w \in Nat
  OBVIOUS
<1>4. \A c \in SendCalls : PaidBy(c) \in Nat
  BY <1>1, <1>2, <1>3 DEF PaidBy, Calls
<1>5. funds \in [Channels -> Nat] /\ paid \in [SendCalls -> Nat]
  BY <1>4 DEF TypeOK, funds, paid
<1>6. InChannels \in Nat /\ Paid \in Nat
  BY <1>5, SummandsAreFinite, SumType DEF funds, paid, InChannels, Paid
<1> QED BY <1>1, <1>2, <1>5, <1>6 DEF Numbers

LEMMA NumbersBeforeAndAfter == IInv /\ IInv' => Numbers /\ Numbers'
BY BalancesAreNumbers, PTL DEF IInv

\* A request that is executed is one more, and the other calls have paid what they had.
LEMMA OneMoreExecuted ==
  ASSUME IInv, NEW c \in Calls, NEW n \in Attempts, Pending(c, n), UNCHANGED asked,
         fate' = [fate EXCEPT ![<<c, n>>] = "executed"]
  PROVE  /\ Cardinality(Executed(c)') = Cardinality(Executed(c)) + 1
         /\ \A d \in Calls \ {c} : PaidBy(d)' = PaidBy(d)
<1>1. n \notin Executed(c) /\ Executed(c)' = Executed(c) \cup {n}
  BY DEF Pending, Executed, IInv, TypeOK
<1>2. \A d \in Calls \ {c} : Executed(d)' = Executed(d)
  BY DEF Executed, IInv, TypeOK
<1> QED BY <1>1, <1>2, BalancesAreNumbers, FS_AddElement DEF Numbers, IInv, PaidBy

\* A step that executes nothing and changes the amount of an idle call only leaves
\* the money where it is.
LEMMA NothingPaid ==
  ASSUME IInv, IInv', MoneyInv, UNCHANGED <<channel, wallet>>,
         \A c \in Calls : Executed(c)' = Executed(c),
         \A c \in Calls : asked'[c] = asked[c] \/ pc[c] = "idle"
  PROVE  MoneyIsAccounted'
<1>1. ASSUME NEW c \in SendCalls PROVE PaidBy(c)' = PaidBy(c)
  <2>1. c \in Calls
    BY DEF Calls
  <2>2. CASE asked'[c] = asked[c]
    BY <2>1, <2>2 DEF PaidBy
  <2>3. CASE pc[c] = "idle"
    <3>0. CallInv(c) /\ sent[c] = 0 /\ \A n \in Attempts : n > 0
      BY <2>1, <2>3, SettlementAssumption DEF IInv, CallInv, StandInv, Attempts
    <3>1. \A n \in Attempts : fate[<<c, n>>] = "pending"
      BY <3>0 DEF CallInv, FateInv
    <3>2. Executed(c) = {} /\ Executed(c)' = {}
      BY <2>1, <3>1 DEF Executed
    <3>3. Cardinality(Executed(c)) = 0 /\ Cardinality(Executed(c)') = 0
      BY <3>2, FS_EmptySet
    <3>4. Worth(asked[c]) \in Nat /\ Worth(asked[c])' \in Nat
      BY <2>1, NumbersBeforeAndAfter DEF Numbers
    <3> QED BY <3>3, <3>4 DEF PaidBy
  <2> QED BY <2>1, <2>2, <2>3
<1>2. InChannels' = InChannels /\ Paid' = Paid
  BY <1>1 DEF InChannels, Paid
<1> QED BY <1>2 DEF MoneyInv, MoneyIsAccounted

\* What the caller and the SDK do to a call moves no money.
LEMMA CallStepKeepsMoney ==
  ASSUME IInv, IInv', MoneyInv, UNCHANGED ledgerVars,
         \A c \in Calls : asked'[c] = asked[c] \/ pc[c] = "idle",
         AmountInv'
  PROVE  MoneyInv'
<1>1. \A c \in Calls : Executed(c)' = Executed(c)
  BY DEF ledgerVars, Executed
<1>2. MoneyIsAccounted'
  BY <1>1, NothingPaid DEF ledgerVars
<1>3. FundsInv'
  BY DEF MoneyInv, FundsInv, ledgerVars
<1> QED BY <1>2, <1>3 DEF MoneyInv

\* The SDK is given the amount that the caller wrote.
LEMMA BeginKeepsMoney ==
  ASSUME IInv, IInv', MoneyInv, NEW c \in Calls, pc[c] = "idle", NEW a, NEW req,
         c \in SendCalls => req.amount = Worth(a), Begin(c, a, req)
  PROVE  MoneyInv'
<1>1. /\ asked'[c] = a /\ request'[c] = req
      /\ \A d \in Calls \ {c} : /\ asked'[d] = asked[d] /\ request'[d] = request[d]
                                /\ sent'[d] = sent[d]
  BY DEF Begin, IInv, TypeOK
<1>2. AmountInv'
  <2> SUFFICES ASSUME NEW d \in SendCalls, sent'[d] > 0
               PROVE  request'[d].amount = Worth(asked'[d])
    BY DEF AmountInv, Worth
  <2> QED BY <1>1 DEF MoneyInv, AmountInv, Calls
<1> QED BY <1>1, <1>2, CallStepKeepsMoney DEF Begin

LEMMA RefuseAtOnceKeepsMoney ==
  ASSUME IInv, IInv', MoneyInv, NEW c \in Calls, pc[c] = "idle", NEW a, RefuseAtOnce(c, a)
  PROVE  MoneyInv'
<1>1. sent[c] = 0 /\ UNCHANGED <<sent, request>> /\ \A d \in Calls \ {c} : asked'[d] = asked[d]
  BY DEF RefuseAtOnce, IInv, TypeOK, CallInv, StandInv
<1>2. AmountInv'
  <2> SUFFICES ASSUME NEW d \in SendCalls, sent[d] > 0
               PROVE  request[d].amount = Worth(asked'[d])
    BY <1>1 DEF AmountInv, Worth
  <2> QED BY <1>1 DEF MoneyInv, AmountInv, Calls
<1> QED BY <1>1, <1>2, CallStepKeepsMoney DEF RefuseAtOnce

\* A send again and a return leave the amounts and the requests alone.
LEMMA OtherStepsKeepMoney ==
  ASSUME IInv, IInv', MoneyInv, NEW c \in Calls,
         Resend(c) \/ \E r : pc[c] = "waiting" /\ Return(c, r)
  PROVE  MoneyInv'
<1>1. /\ UNCHANGED <<asked, request, ledgerVars>> /\ sent[c] > 0
      /\ \A d \in Calls \ {c} : sent'[d] = sent[d]
  BY DEF Resend, Return, IInv, TypeOK, CallInv, StandInv
<1>2. AmountInv'
  <2> SUFFICES ASSUME NEW d \in SendCalls, sent'[d] > 0
               PROVE  request[d].amount = Worth(asked[d])
    BY <1>1 DEF AmountInv, Worth
  <2> QED BY <1>1 DEF MoneyInv, AmountInv, Calls
<1> QED BY <1>1, <1>2, CallStepKeepsMoney

LEMMA RefuseRequestKeepsMoney ==
  ASSUME IInv, IInv', MoneyInv, NEW c \in Calls, NEW n \in Attempts, RefuseRequest(c, n)
  PROVE  MoneyInv'
<1>1. /\ fate' = [fate EXCEPT ![<<c, n>>] = "refused"] /\ fate[<<c, n>>] = "pending"
      /\ UNCHANGED <<asked, request, sent, channel, wallet>>
  BY DEF RefuseRequest, Pending, callVars
<1>2. \A d \in Calls, m \in Attempts :
        fate'[<<d, m>>] = "executed" <=> fate[<<d, m>>] = "executed"
  BY <1>1 DEF IInv, TypeOK
<1>3. \A d \in Calls : Executed(d)' = Executed(d)
  BY <1>2 DEF Executed
<1>4. MoneyIsAccounted'
  BY <1>1, <1>3, NothingPaid
<1>5. FundsInv' /\ AmountInv'
  BY <1>1, <1>2 DEF MoneyInv, FundsInv, AmountInv, Calls, Worth
<1> QED BY <1>4, <1>5 DEF MoneyInv

\* The ledger moves the amount of the request, from the wallet to a channel, from a
\* channel to the one who is paid, or all a channel holds back to the wallet.
LEMMA ExecuteKeepsMoney ==
  ASSUME IInv, IInv', MoneyInv, NEW c \in Calls, NEW n \in Attempts, Execute(c, n)
  PROVE  MoneyInv'
<1> USE SettlementAssumption
<1>1. /\ fate' = [fate EXCEPT ![<<c, n>>] = "executed"] /\ Pending(c, n)
      /\ UNCHANGED <<asked, request, sent>>
  BY DEF Execute, callVars
<1>2. /\ sent[c] > 0 /\ request[c].amount \in Nat /\ wallet \in Nat
      /\ c \in SendCalls \cup CloseCalls => request[c].channel \in Channels
  BY <1>1 DEF IInv, TypeOK, CallInv, RequestInv, Pending, Attempts
<1>3. /\ Cardinality(Executed(c)') = Cardinality(Executed(c)) + 1
      /\ \A d \in Calls \ {c} : PaidBy(d)' = PaidBy(d)
  BY <1>1, OneMoreExecuted
<1>4. /\ funds \in [Channels -> Nat] /\ funds' \in [Channels -> Nat]
      /\ paid \in [SendCalls -> Nat] /\ paid' \in [SendCalls -> Nat]
      /\ InChannels \in Nat /\ InChannels' \in Nat /\ Paid \in Nat /\ Paid' \in Nat
  BY NumbersBeforeAndAfter DEF Numbers
<1>5. AmountInv'
  BY <1>1 DEF MoneyInv, AmountInv, Worth
<1>6. ASSUME NEW h \in Channels, \A k \in Channels \ {h} : channel'[k] = channel[k]
      PROVE  InChannels' - channel'[h].funds = InChannels - channel[h].funds
  <2>1. \A k \in Channels \ {h} : funds'[k] = funds[k]
    BY <1>6 DEF funds
  <2>2. SumFunction(funds') - funds'[h] = SumFunction(funds) - funds[h]
    BY <1>4, <2>1, SummandsAreFinite, SumOfChange
  <2> QED BY <2>2 DEF funds, InChannels
<1>7. c \notin SendCalls => Paid' = Paid
  <2>1. SUFFICES ASSUME c \notin SendCalls PROVE Paid' = Paid
    OBVIOUS
  <2>2. \A d \in SendCalls : PaidBy(d)' = PaidBy(d)
    BY <1>3, <2>1 DEF Calls
  <2> QED BY <2>2 DEF Paid
<1>8. CASE Opens(c, n)
  <2> DEFINE h == <<c, n>>
  <2>1. /\ h \in Channels /\ c \in OpenCalls /\ c \notin SendCalls
        /\ \A k \in Channels \ {h} : channel'[k] = channel[k]
        /\ channel'[h].funds = request[c].amount
        /\ wallet' = wallet - request[c].amount
    BY <1>8 DEF Opens, Channels, IInv, TypeOK
  <2>2. channel[h].funds = 0
    BY <1>1, <2>1 DEF Pending, MoneyInv, FundsInv
  <2>3. InChannels' = InChannels + request[c].amount
    BY <1>2, <1>4, <1>6, <2>1, <2>2
  <2>4. MoneyIsAccounted'
    BY <1>2, <1>4, <1>7, <2>1, <2>3 DEF MoneyInv, MoneyIsAccounted
  <2>5. FundsInv'
    BY <1>1, <2>1 DEF MoneyInv, FundsInv, IInv, TypeOK, Channels, Calls
  <2> QED BY <1>5, <2>4, <2>5 DEF MoneyInv
<1>9. CASE Pays(c)
  <2> DEFINE h == request[c].channel
             u == request[c].amount
  <2>1. /\ h \in Channels /\ c \in SendCalls /\ wallet' = wallet
        /\ \A k \in Channels \ {h} : channel'[k] = channel[k]
        /\ channel'[h].funds = channel[h].funds - u
        /\ channel[h].funds \in Nat
    BY <1>2, <1>9 DEF Pays, IInv, TypeOK
  <2>2. u = Worth(asked[c])
    BY <1>2, <2>1 DEF MoneyInv, AmountInv
  <2>3. paid'[c] = paid[c] + u
    <3>1. \A k, w \in Nat : (k + 1) * w = k * w + w
      OBVIOUS
    <3>2. Cardinality(Executed(c)) \in Nat /\ asked'[c] = asked[c]
      BY <1>1, NumbersBeforeAndAfter DEF Numbers
    <3>3. Worth(asked[c])' = Worth(asked[c])
      BY <3>2 DEF Worth
    <3>4. PaidBy(c)' = PaidBy(c) + u
      BY <1>2, <1>3, <2>2, <3>1, <3>2, <3>3 DEF PaidBy
    <3> QED BY <2>1, <3>4 DEF paid
  <2>4. Paid' = Paid + u
    <3>1. \A d \in SendCalls \ {c} : paid'[d] = paid[d]
      BY <1>3 DEF paid, Calls
    <3>2. SumFunction(paid') - paid'[c] = SumFunction(paid) - paid[c]
      BY <1>4, <2>1, <3>1, SummandsAreFinite, SumOfChange
    <3>3. paid[c] \in Nat /\ paid'[c] \in Nat
      BY <1>4, <2>1
    <3> HIDE DEF u
    <3>4. Paid = SumFunction(paid) /\ Paid' = SumFunction(paid')
      BY DEF Paid, paid
    <3> QED BY <1>2, <1>4, <2>3, <3>2, <3>3, <3>4 DEF u
  <2>5. InChannels' = InChannels - u
    BY <1>2, <1>4, <1>6, <2>1
  <2>6. MoneyIsAccounted'
    BY <1>2, <1>4, <2>1, <2>4, <2>5 DEF MoneyInv, MoneyIsAccounted
  <2>7. FundsInv'
    <3> SUFFICES ASSUME NEW o \in OpenCalls, NEW m \in Attempts,
                        fate'[<<o, m>>] # "executed"
                 PROVE  channel'[<<o, m>>].funds = 0
      BY DEF FundsInv
    <3>1. <<o, m>> \in Channels /\ channel[<<o, m>>].funds = 0
      BY <1>1 DEF MoneyInv, FundsInv, IInv, TypeOK, Channels, Calls
    <3>2. channel'[<<o, m>>].funds \in Nat
      BY <3>1 DEF IInv, TypeOK
    <3>3. <<o, m>> = h => channel'[<<o, m>>].funds = 0 - u /\ u \in Nat
      BY <1>2, <2>1, <3>1
    <3>4. <<o, m>> # h => channel'[<<o, m>>] = channel[<<o, m>>]
      BY <2>1, <3>1
    <3> HIDE DEF h, u
    <3> QED BY <3>1, <3>2, <3>3, <3>4
  <2> QED BY <1>5, <2>6, <2>7 DEF MoneyInv
<1>10. CASE Closes(c)
  <2> DEFINE h == request[c].channel
  <2>1. /\ h \in Channels /\ c \notin SendCalls
        /\ \A k \in Channels \ {h} : channel'[k] = channel[k]
        /\ channel'[h].funds = 0 /\ channel[h].funds \in Nat
        /\ wallet' = wallet + channel[h].funds
    BY <1>2, <1>10 DEF Closes, IInv, TypeOK
  <2>2. InChannels' = InChannels - channel[h].funds
    BY <1>4, <1>6, <2>1
  <2>3. MoneyIsAccounted'
    BY <1>2, <1>4, <1>7, <2>1, <2>2 DEF MoneyInv, MoneyIsAccounted
  <2>4. FundsInv'
    BY <1>1, <2>1 DEF MoneyInv, FundsInv, IInv, TypeOK, Channels, Calls
  <2> QED BY <1>5, <2>3, <2>4 DEF MoneyInv
<1> QED BY <1>8, <1>9, <1>10 DEF Execute

LEMMA MoneyInitial == Init => MoneyInv
<1> SUFFICES ASSUME Init PROVE MoneyInv
  OBVIOUS
<1>1. FundsInv /\ AmountInv
  BY SettlementAssumption DEF Init, FundsInv, AmountInv, Channels, Calls
<1>2. InChannels = 0
  <2>1. [h \in Channels |-> channel[h].funds] = [h \in Channels |-> 0]
    BY DEF Init
  <2> QED BY <2>1, SummandsAreFinite, SumOfZeros DEF InChannels
<1>3. Paid = 0
  <2>1. ASSUME NEW c \in SendCalls PROVE PaidBy(c) = 0
    <3>1. Executed(c) = {} /\ Worth(asked[c]) = 0
      BY DEF Init, Executed, Worth, Calls
    <3> QED BY <3>1, FS_EmptySet DEF PaidBy
  <2>2. [c \in SendCalls |-> PaidBy(c)] = [c \in SendCalls |-> 0]
    BY <2>1
  <2> QED BY <2>2, SummandsAreFinite, SumOfZeros DEF Paid
<1>4. MoneyIsAccounted
  BY <1>2, <1>3, SettlementAssumption DEF Init, MoneyIsAccounted
<1> QED BY <1>1, <1>4 DEF MoneyInv

LEMMA StepKeepsMoney ==
  ASSUME IInv, IInv', MoneyInv, [Next]_vars PROVE MoneyInv'
<1> USE SettlementAssumption
<1>1. ASSUME NEW c \in OpenCalls, NEW a \in Amounts \cup {NoAmount}, OpenChannel(c, a)
      PROVE  MoneyInv'
  <2>1. c \in Calls /\ c \notin SendCalls /\ pc[c] = "idle"
    BY <1>1 DEF Calls, OpenChannel
  <2> QED BY <1>1, <2>1, BeginKeepsMoney, RefuseAtOnceKeepsMoney DEF OpenChannel
<1>2. ASSUME NEW c \in SendCalls, NEW a \in Amounts, NEW h, SendMicropayment(c, h, a)
      PROVE  MoneyInv'
  <2>1. c \in Calls /\ pc[c] = "idle"
    BY <1>2 DEF Calls, SendMicropayment
  <2>2. ASSUME NEW u \in Units(a),
               Begin(c, a, [channel |-> h, amount |-> u, memo |-> Work[c]])
        PROVE  MoneyInv'
    <3> DEFINE req == [channel |-> h, amount |-> u, memo |-> Work[c]]
    <3>1. req.amount = Worth(a) /\ Begin(c, a, req)
      BY <2>2 DEF Units, Worth
    <3> HIDE DEF req
    <3> QED BY <2>1, <3>1, BeginKeepsMoney
  <2> QED BY <1>2, <2>1, <2>2, RefuseAtOnceKeepsMoney DEF SendMicropayment
<1>3. ASSUME NEW c \in CloseCalls, NEW h, CloseChannel(c, h) PROVE MoneyInv'
  <2>1. c \in Calls /\ c \notin SendCalls
    BY DEF Calls
  <2> QED BY <1>3, <2>1, BeginKeepsMoney DEF CloseChannel
<1>4. ASSUME NEW c \in Calls,
             \/ OkReturns(c) \/ ErrorReturns(c) \/ Abandon(c) \/ GivesUp(c) \/ Resend(c)
      PROVE  MoneyInv'
  <2>1. Resend(c) \/ \E r : pc[c] = "waiting" /\ Return(c, r)
    BY <1>4 DEF OkReturns, ErrorReturns, Abandon, GivesUp
  <2> QED BY <2>1, OtherStepsKeepMoney
<1>5. CASE UNCHANGED vars
  BY <1>5 DEF vars, callVars, ledgerVars, MoneyInv, FundsInv, AmountInv, MoneyIsAccounted,
              InChannels, Paid, PaidBy, Executed, Worth
<1> QED BY <1>1, <1>2, <1>3, <1>4, <1>5, ExecuteKeepsMoney, RefuseRequestKeepsMoney DEF Next

\* What has left the wallet is in a channel or was paid, to the unit that the caller
\* wrote, for any number of channels, calls and attempts.
THEOREM MoneyStaysAccounted == Spec => []MoneyIsAccounted
<1>1. Spec => []MoneyInv
  BY Invariance, MoneyInitial, StepKeepsMoney, PTL DEF Spec
<1> QED BY <1>1, PTL DEF MoneyInv

------------------------------------------------------------------------------
(* Refinement                                                              *)

phases  == [c \in Calls |-> Phase(c)]
claims  == [c \in Calls |-> Claim(c)]
effects == [r \in Calls \X Attempts |-> Happened(r)]

\* What a step about one call changes of what RemoteEffect sees.
LEMMA SeenOfOne ==
  ASSUME NEW c \in Calls, fate' = fate,
         \A d \in Calls \ {c} : pc'[d] = pc[d] /\ result'[d] = result[d]
  PROVE  /\ phases' = [phases EXCEPT ![c] = Phase(c)']
         /\ claims' = [claims EXCEPT ![c] = Claim(c)']
         /\ effects' = effects
<1>1. \A d \in Calls \ {c} : Phase(d)' = Phase(d) /\ Claim(d)' = Claim(d)
  BY DEF Phase, Claim
<1>2. \A r \in Calls \X Attempts : Happened(r)' = Happened(r)
  BY DEF Happened
<1> QED BY <1>1, <1>2 DEF phases, claims, effects

LEMMA BeginRefines ==
  ASSUME IInv, NEW c \in Calls, pc[c] = "idle", NEW a, NEW req, Begin(c, a, req)
  PROVE  Effect!Begin(c, 1)
<1>1. /\ pc'[c] = "waiting" /\ sent' = [sent EXCEPT ![c] = 1] /\ fate' = fate /\ result' = result
      /\ \A d \in Calls \ {c} : pc'[d] = pc[d]
  BY DEF IInv, TypeOK, Begin, ledgerVars
<1>2. Phase(c) = "idle" /\ Phase(c)' = "called" /\ Claim(c)' = Claim(c)
  BY <1>1 DEF Phase, Claim
<1>3. phases' = [phases EXCEPT ![c] = "called"] /\ claims' = claims /\ effects' = effects
  BY <1>1, <1>2, SeenOfOne DEF claims
<1> QED BY <1>1, <1>2, <1>3 DEF Effect!Begin, phases, claims, effects

LEMMA ResendRefines ==
  ASSUME IInv, NEW c \in Calls, Resend(c)
  PROVE  Effect!Try(c)
<1>1. phases' = phases /\ claims' = claims /\ effects' = effects
  BY DEF Resend, ledgerVars, phases, claims, effects, Phase, Claim, Happened
<1>2. Phase(c) = "called"
  BY DEF Resend, Phase
<1> QED BY <1>1, <1>2 DEF Resend, Effect!Try, phases, claims, effects

\* A call ends with r, also one that is refused at once.
LEMMA EndRefines ==
  ASSUME IInv, IInv', NEW c \in Calls, pc[c] \in {"idle", "waiting"},
         NEW r \in {"Ok", "Refused", "Transient", "Failed", "Dropped"},
         pc' = [pc EXCEPT ![c] = "done"], result' = [result EXCEPT ![c] = r],
         UNCHANGED <<sent, fate>>
  PROVE  \E k \in {"done", "undone", "unknown"} : Effect!Return(c, k)
<1>1. /\ pc'[c] = "done" /\ result'[c] = r
      /\ \A d \in Calls \ {c} : pc'[d] = pc[d] /\ result'[d] = result[d]
  BY DEF IInv, TypeOK
<1>2. Phase(c)' = "returned" /\ Phase(c) # "returned"
  BY <1>1 DEF Phase
<1>3. Claim(c)' = CASE r = "Ok" -> "done" [] r = "Refused" -> "undone" [] OTHER -> "unknown"
  BY <1>1 DEF Claim, None
<1>4. /\ phases' = [phases EXCEPT ![c] = "returned"]
      /\ claims' = [claims EXCEPT ![c] = Claim(c)']
      /\ effects' = effects
  BY <1>1, <1>2, SeenOfOne
<1>5. /\ r = "Ok" => sent[c] > 0 /\ fate[<<c, sent[c]>>] = "executed"
      /\ r = "Refused" => sent[c] = 0 \/ fate[<<c, sent[c]>>] = "refused"
      /\ sent[c] \in 0..MaxAttempts
  BY <1>1 DEF IInv, TypeOK, CallInv, FateInv
<1>6. sent[c] > 0 => effects[<<c, sent[c]>>] = Happened(<<c, sent[c]>>)
  BY <1>5, SettlementAssumption DEF effects, Attempts
<1>7. Effect!True(c, Claim(c)')
  <2>1. Claim(c)' = "done" => sent[c] > 0 /\ effects[<<c, sent[c]>>] = "done"
    BY <1>3, <1>5, <1>6 DEF Happened
  <2>2. Claim(c)' = "undone" => sent[c] = 0 \/ effects[<<c, sent[c]>>] = "void"
    BY <1>3, <1>5, <1>6 DEF Happened
  <2> QED BY <2>1, <2>2 DEF Effect!True, effects
<1>8. Effect!Return(c, Claim(c)')
  BY <1>2, <1>4, <1>7 DEF Effect!Return, phases, claims, effects
<1> QED BY <1>3, <1>8

\* The ledger decides a request, whatever becomes of its answer.
LEMMA DecisionRefines ==
  ASSUME IInv, NEW c \in Calls, NEW n \in Attempts, NEW f \in {"executed", "refused"},
         Pending(c, n), fate' = [fate EXCEPT ![<<c, n>>] = f], UNCHANGED callVars
  PROVE  \E e \in {"done", "void"} : Effect!Settle(c, n, e)
<1> DEFINE e == IF f = "executed" THEN "done" ELSE "void"
<1>1. phases' = phases /\ claims' = claims /\ sent' = sent
  BY DEF callVars, phases, claims, Phase, Claim
<1>2. <<c, n>> \in Calls \X Attempts /\ fate'[<<c, n>>] = f
  BY DEF IInv, TypeOK
<1>3. \A r \in Calls \X Attempts : Happened(r)' = IF r = <<c, n>> THEN e ELSE Happened(r)
  <2>1. \A r \in Calls \X Attempts : r # <<c, n>> => fate'[r] = fate[r]
    BY DEF IInv, TypeOK
  <2>2. Happened(<<c, n>>)' = e
    BY <1>2 DEF Happened
  <2>3. \A r \in Calls \X Attempts : r # <<c, n>> => Happened(r)' = Happened(r)
    BY <2>1 DEF Happened
  <2> HIDE DEF e
  <2> QED BY <2>2, <2>3
<1>4. effects' = [effects EXCEPT ![<<c, n>>] = e]
  BY <1>2, <1>3 DEF effects
<1>5. n <= sent[c] /\ effects[<<c, n>>] = "open"
  BY <1>2 DEF Pending, effects, Happened
<1> QED BY <1>1, <1>4, <1>5 DEF Effect!Settle, phases, claims, effects

\* The shapes that a step of the settlement may have.
LEMMA StepShape ==
  ASSUME IInv, Next
  PROVE  \E c \in Calls :
           \/ pc[c] = "idle" /\ \E a, req : Begin(c, a, req)
           \/ pc[c] = "idle" /\ \E a : RefuseAtOnce(c, a)
           \/ /\ pc[c] = "waiting"
              /\ \E r \in {"Ok", "Refused", "Transient", "Failed", "Dropped"} : Return(c, r)
           \/ Resend(c)
           \/ \E n \in Attempts : Execute(c, n) \/ RefuseRequest(c, n)
<1>0. OpenCalls \subseteq Calls /\ SendCalls \subseteq Calls /\ CloseCalls \subseteq Calls
  BY DEF Calls
<1>1. ASSUME NEW c \in OpenCalls, NEW a \in Amounts \cup {NoAmount}, OpenChannel(c, a)
      PROVE  pc[c] = "idle" /\ ((\E b, req : Begin(c, b, req)) \/ (\E b : RefuseAtOnce(c, b)))
  BY <1>1 DEF OpenChannel
<1>2. ASSUME NEW c \in SendCalls, NEW a \in Amounts, NEW h, SendMicropayment(c, h, a)
      PROVE  pc[c] = "idle" /\ ((\E b, req : Begin(c, b, req)) \/ (\E b : RefuseAtOnce(c, b)))
  BY <1>2 DEF SendMicropayment
<1>3. ASSUME NEW c \in CloseCalls, NEW h, CloseChannel(c, h)
      PROVE  pc[c] = "idle" /\ \E b, req : Begin(c, b, req)
  BY <1>3 DEF CloseChannel
<1>4. ASSUME NEW c \in Calls, OkReturns(c) \/ ErrorReturns(c) \/ Abandon(c) \/ GivesUp(c)
      PROVE  /\ pc[c] = "waiting"
             /\ \E r \in {"Ok", "Refused", "Transient", "Failed", "Dropped"} : Return(c, r)
  <2>1. \A e \in SdkError : SettlementError(e) \in {"Refused", "Transient", "Failed"}
    BY ErrorsAreTranslated
  <2>2. CASE ErrorReturns(c)
    <3>1. answer[c] \in SdkError
      BY <2>2 DEF ErrorReturns, LedgerError, SdkError
    <3> QED BY <2>1, <2>2, <3>1 DEF ErrorReturns
  <2>3. CASE GivesUp(c)
    <3>1. {"ConnectionError", "Timeout", "Other"} \subseteq SdkError
      BY DEF SdkError
    <3> QED BY <2>1, <2>3, <3>1 DEF GivesUp
  <2> QED BY <1>4, <2>2, <2>3 DEF OkReturns, Abandon
<1> QED BY <1>0, <1>1, <1>2, <1>3, <1>4 DEF Next

LEMMA StepRefines ==
  ASSUME IInv, IInv', [Next]_vars
  PROVE  [Effect!Next]_(Effect!vars)
<1>1. CASE UNCHANGED vars
  BY <1>1 DEF vars, callVars, ledgerVars, Effect!vars, Phase, Claim, Happened
<1>2. CASE Next
  <2>1. PICK c \in Calls :
           \/ pc[c] = "idle" /\ \E a, req : Begin(c, a, req)
           \/ pc[c] = "idle" /\ \E a : RefuseAtOnce(c, a)
           \/ /\ pc[c] = "waiting"
              /\ \E r \in {"Ok", "Refused", "Transient", "Failed", "Dropped"} : Return(c, r)
           \/ Resend(c)
           \/ \E n \in Attempts : Execute(c, n) \/ RefuseRequest(c, n)
    BY <1>2, StepShape
  <2>2. CASE pc[c] = "idle" /\ \E a, req : Begin(c, a, req)
    BY <2>2, BeginRefines DEF Effect!Next
  <2>3. CASE pc[c] = "idle" /\ \E a : RefuseAtOnce(c, a)
    <3>1. \E k \in {"done", "undone", "unknown"} : Effect!Return(c, k)
      BY <2>3, EndRefines DEF RefuseAtOnce, ledgerVars
    <3> QED BY <3>1 DEF Effect!Next
  <2>4. CASE /\ pc[c] = "waiting"
             /\ \E r \in {"Ok", "Refused", "Transient", "Failed", "Dropped"} : Return(c, r)
    <3>1. \E k \in {"done", "undone", "unknown"} : Effect!Return(c, k)
      BY <2>4, EndRefines DEF Return, ledgerVars
    <3> QED BY <3>1 DEF Effect!Next
  <2>5. CASE Resend(c)
    BY <2>5, ResendRefines DEF Effect!Next
  <2>6. ASSUME NEW n \in Attempts, Execute(c, n) \/ RefuseRequest(c, n) PROVE Effect!Next
    <3>1. \E e \in {"done", "void"} : Effect!Settle(c, n, e)
      BY <2>6, DecisionRefines DEF Execute, RefuseRequest
    <3>2. n \in Effect!Tries
      BY DEF Effect!Tries, Attempts
    <3> QED BY <3>1, <3>2 DEF Effect!Next
  <2> QED BY <2>1, <2>2, <2>3, <2>4, <2>5, <2>6
<1> QED BY <1>1, <1>2

\* The settlement implements RemoteEffect: a call that is Ok has been executed, one
\* that is Refused never will be, by the last request that was sent for it.
THEOREM Implementation == Spec => ImplementsRemoteEffect
<1>1. Init => Effect!Init
  BY DEF Init, Effect!Init, Effect!Tries, Attempts, Phase, Claim, Happened, None
<1>2. IInv /\ IInv' /\ [Next]_vars => [Effect!Next]_(Effect!vars)
  BY StepRefines
<1> QED BY <1>1, <1>2, Invariance, PTL DEF Spec, ImplementsRemoteEffect, Effect!Spec

==============================================================================
