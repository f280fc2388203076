----------------------------- MODULE Settlement ------------------------------
(***************************************************************************)
(* TenzroWorkSettlement (work_settlement.rs): open a payment channel, send *)
(* micropayments over it, close it.  Each call is one SDK call, which the  *)
(* SDK may send again when no answer comes; the ledger may execute a       *)
(* request late, also when its caller has gone, and its answer may be lost.*)
(*                                                                         *)
(* The ledger, the SDK and the caller are external.  The caller pays for   *)
(* pieces of work and calls again for one only after an error it takes for *)
(* one that has moved no money (RetryOn).                                  *)
(***************************************************************************)
EXTENDS Naturals, FiniteSets, Functions, SdkErrors

CONSTANTS
  OpenCalls, SendCalls, CloseCalls,  \* calls, each made at most once
  Work,        \* the work each send pays for
  RetryOn,     \* errors after which the caller sends again for the same work
  MaxAttempts, \* 1 + max_retries
  Amounts,     \* decimal strings
  NoAmount,    \* deposit: None
  U64Max,
  NoChannel,   \* channel: None
  Funds        \* what the payer's wallet holds at first

Calls == OpenCalls \cup SendCalls \cup CloseCalls
Attempts == 1..MaxAttempts

\* The channel that the n-th request of an open_channel creates.
Channels == OpenCalls \X Attempts

ASSUME SettlementAssumption ==
  /\ OpenCalls \cap SendCalls = {}
  /\ OpenCalls \cap CloseCalls = {}
  /\ SendCalls \cap CloseCalls = {}
  /\ IsFiniteSet(Calls)
  /\ RetryOn \subseteq {"Refused", "Transient", "Failed"}
  /\ MaxAttempts \in Nat \ {0}
  /\ Amounts \subseteq [integer : BOOLEAN, value : Nat]
  /\ NoAmount \notin Amounts
  /\ NoChannel \notin Channels
  /\ U64Max \in Nat
  /\ Funds \in Nat

VARIABLES
  pc,      \* where each call stands
  asked,   \* its amount, as the caller wrote it
  request, \* what the SDK is given
  sent,    \* how many requests the SDK has sent for it
  answer,  \* the ledger's answer to the last of them
  result,  \* what the call returned
  fate,    \* the ledger: what became of each request
  channel, \* the ledger: channels and the funds in them
  wallet   \* the ledger: the payer's own funds

callVars   == <<pc, asked, request, sent, result>>
ledgerVars == <<fate, channel, wallet>>
vars == <<callVars, answer, ledgerVars>>

------------------------------------------------------------------------------
(* Data                                                                    *)

None == "none"
NoRequest == [channel |-> NoChannel, amount |-> 0, memo |-> None]

\* Mutants: an amount that is too large is cut down to 64 bits, or handed on.
UnitsWrapped(a) == IF a.integer THEN {a.value % (U64Max + 1)} ELSE {}
UnitsUnbounded(a) == IF a.integer THEN {a.value} ELSE {}

\* amount_to_u64: the amount in smallest units, or nothing.  A point, a minus
\* sign, any other text and a number above u64::MAX are all refused.
Units(a) == IF a.integer /\ a.value <= U64Max THEN {a.value} ELSE {}

\* The ledger may refuse for any reason at any time; SettlementError
\* stands for all its errors that come back as Failed.
LedgerError == {"RpcError", "InsufficientFunds", "SettlementError"}

\* What a call asks to be moved, as a number.
Worth(a) == IF a = NoAmount THEN 0 ELSE a.value

\* What `fate' says of the requests of a call.
Executed(c) == {n \in Attempts : fate[<<c, n>>] = "executed"}

\* The funds of all channels, and what has been paid by a send and by all of them.
InChannels == SumFunction([h \in Channels |-> channel[h].funds])
PaidBy(c) == Cardinality(Executed(c)) * Worth(asked[c])
Paid == SumFunction([c \in SendCalls |-> PaidBy(c)])

------------------------------------------------------------------------------
(* The adapter                                                             *)

Begin(c, a, req) ==
  /\ asked' = [asked EXCEPT ![c] = a]
  /\ request' = [request EXCEPT ![c] = req]
  /\ sent' = [sent EXCEPT ![c] = 1]
  /\ pc' = [pc EXCEPT ![c] = "waiting"]
  /\ UNCHANGED <<result, answer, ledgerVars>>

RefuseAtOnce(c, a) ==
  /\ asked' = [asked EXCEPT ![c] = a]
  /\ pc' = [pc EXCEPT ![c] = "done"]
  /\ result' = [result EXCEPT ![c] = "Refused"]
  /\ UNCHANGED <<request, sent, answer, ledgerVars>>

\* No deposit opens an unfunded channel.
OpenChannel(c, a) ==
  /\ pc[c] = "idle"
  /\ \/ a = NoAmount /\ Begin(c, a, NoRequest)
     \/ /\ a # NoAmount
        /\ \E u \in Units(a) : Begin(c, a, [NoRequest EXCEPT !.amount = u])
     \/ a # NoAmount /\ Units(a) = {} /\ RefuseAtOnce(c, a)

\* The caller: the channel is None or one it has been told of.
KnownChannels == {<<o, sent[o]>> : o \in {p \in OpenCalls : result[p] = "Ok"}}

MaySend(c) ==
  \A d \in SendCalls \ {c} :
    Work[d] = Work[c] => pc[d] = "idle" \/ result[d] \in RetryOn

SendMicropayment(c, ch, a) ==
  /\ pc[c] = "idle"
  /\ MaySend(c)
  /\ \/ /\ ch # NoChannel
        /\ \E u \in Units(a) :
             Begin(c, a, [channel |-> ch, amount |-> u, memo |-> Work[c]])
     \/ (ch = NoChannel \/ Units(a) = {}) /\ RefuseAtOnce(c, a)

CloseChannel(c, ch) ==
  /\ pc[c] = "idle"
  /\ Begin(c, NoAmount, [NoRequest EXCEPT !.channel = ch])

Return(c, r) ==
  /\ pc' = [pc EXCEPT ![c] = "done"]
  /\ result' = [result EXCEPT ![c] = r]
  /\ answer' = [answer EXCEPT ![c] = None]
  /\ UNCHANGED <<asked, request, sent, ledgerVars>>

\* Mutant: no answer in time is taken for a payment that went through.
OkUnlessRefused(c) ==
  /\ pc[c] = "waiting"
  /\ answer[c] \in {None, "Ok"}
  /\ Return(c, "Ok")

\* A channel id, a SettlementReceipt for the work, or ().
OkReturns(c) ==
  /\ pc[c] = "waiting"
  /\ answer[c] = "Ok"
  /\ Return(c, "Ok")

ErrorReturns(c) ==
  /\ pc[c] = "waiting"
  /\ answer[c] \in LedgerError
  /\ Return(c, SettlementError(answer[c]))

\* The caller drops the future; the request is not taken back.
Abandon(c) ==
  /\ pc[c] = "waiting"
  /\ Return(c, "Dropped")

------------------------------------------------------------------------------
(* The SDK: without an answer it sends the request again, or gives up.     *)

Resend(c) ==
  /\ pc[c] = "waiting"
  /\ answer[c] = None
  /\ sent[c] < MaxAttempts
  /\ sent' = [sent EXCEPT ![c] = @ + 1]
  /\ UNCHANGED <<pc, asked, request, result, answer, ledgerVars>>

\* "Other": an answer came that the SDK cannot read.
GivesUp(c) ==
  /\ pc[c] = "waiting"
  /\ answer[c] = None
  /\ \E e \in {"ConnectionError", "Timeout", "Other"} : Return(c, SettlementError(e))

------------------------------------------------------------------------------
(* The ledger                                                              *)

\* An answer reaches the call if that one still waits for this very request.
Answers(c, n, a) ==
  \/ /\ pc[c] = "waiting" /\ sent[c] = n /\ answer[c] = None
     /\ answer' = [answer EXCEPT ![c] = a]
  \/ UNCHANGED answer

Pending(c, n) == n <= sent[c] /\ fate[<<c, n>>] = "pending"

Opens(c, n) ==
  /\ c \in OpenCalls
  /\ request[c].amount <= wallet
  /\ wallet' = wallet - request[c].amount
  /\ channel' = [channel EXCEPT ![<<c, n>>] = [open |-> TRUE, funds |-> request[c].amount]]

Pays(c) ==
  /\ c \in SendCalls
  /\ channel[request[c].channel].open
  /\ request[c].amount <= channel[request[c].channel].funds
  /\ channel' = [channel EXCEPT ![request[c].channel].funds = @ - request[c].amount]
  /\ UNCHANGED wallet

\* What is left in a channel goes back to the payer.
Closes(c) ==
  /\ c \in CloseCalls
  /\ channel[request[c].channel].open
  /\ wallet' = wallet + channel[request[c].channel].funds
  /\ channel' = [channel EXCEPT ![request[c].channel] = [open |-> FALSE, funds |-> 0]]

Execute(c, n) ==
  /\ Pending(c, n)
  /\ Opens(c, n) \/ Pays(c) \/ Closes(c)
  /\ fate' = [fate EXCEPT ![<<c, n>>] = "executed"]
  /\ Answers(c, n, "Ok")
  /\ UNCHANGED callVars

RefuseRequest(c, n) ==
  /\ Pending(c, n)
  /\ fate' = [fate EXCEPT ![<<c, n>>] = "refused"]
  /\ \E e \in LedgerError : Answers(c, n, e)
  /\ UNCHANGED <<callVars, channel, wallet>>

------------------------------------------------------------------------------
Init ==
  /\ pc = [c \in Calls |-> "idle"]
  /\ asked = [c \in Calls |-> NoAmount]
  /\ request = [c \in Calls |-> NoRequest]
  /\ sent = [c \in Calls |-> 0]
  /\ answer = [c \in Calls |-> None]
  /\ result = [c \in Calls |-> None]
  /\ fate = [r \in Calls \X Attempts |-> "pending"]
  /\ channel = [h \in Channels |-> [open |-> FALSE, funds |-> 0]]
  /\ wallet = Funds

Next ==
  \/ \E c \in OpenCalls, a \in Amounts \cup {NoAmount} : OpenChannel(c, a)
  \/ \E c \in SendCalls, a \in Amounts, h \in KnownChannels \cup {NoChannel} :
       SendMicropayment(c, h, a)
  \/ \E c \in CloseCalls, h \in KnownChannels : CloseChannel(c, h)
  \/ \E c \in Calls :
       \/ OkReturns(c) \/ ErrorReturns(c) \/ Abandon(c)
       \/ Resend(c) \/ GivesUp(c)
       \/ \E n \in Attempts : Execute(c, n) \/ RefuseRequest(c, n)

Spec == Init /\ [][Next]_vars

------------------------------------------------------------------------------
(* Properties                                                              *)

\* Every variable has its type; what the SDK is given fits 64 bits.
TypeOK ==
  /\ pc \in [Calls -> {"idle", "waiting", "done"}]
  /\ asked \in [Calls -> Amounts \cup {NoAmount}]
  /\ request \in [Calls -> [channel : Channels \cup {NoChannel}, amount : 0..U64Max,
                            memo : {Work[c] : c \in SendCalls} \cup {None}]]
  /\ sent \in [Calls -> 0..MaxAttempts]
  /\ answer \in [Calls -> LedgerError \cup {None, "Ok"}]
  /\ result \in [Calls -> {None, "Ok", "Refused", "Transient", "Failed", "Dropped"}]
  /\ fate \in [Calls \X Attempts -> {"pending", "executed", "refused"}]
  /\ channel \in [Channels -> [open : BOOLEAN, funds : Nat]]
  /\ wallet \in Nat

\* A call that returns Refused has moved no money and never will, unless the
\* SDK had sent it before: whatever is delayed, the request that was refused is
\* not executed, and an amount that is refused on the spot is not sent at all.
RefusedMovesNothing ==
  \A c \in Calls : result[c] = "Refused" => \A n \in Executed(c) : n < sent[c]

\* A caller that pays again only after Refused never pays twice for one work,
\* as long as the SDK has not sent a request of that work again on its own.
PaidOnce ==
  RetryOn \subseteq {"Refused"} =>
    \A c, d \in SendCalls :
      (c # d /\ Work[c] = Work[d] /\ sent[c] <= 1 /\ sent[d] <= 1)
        => Executed(c) = {} \/ Executed(d) = {}

\* What has left the wallet is in a channel or was paid, to the unit that the
\* caller wrote, through boundary amounts, retries, lost answers and closing.
MoneyIsAccounted == Funds = wallet + InChannels + Paid

\* A receipt stands for a payment of this very call that the ledger has made,
\* over a channel that exists and with the memo of the work.
ReceiptIsPayment ==
  \A c \in SendCalls :
    result[c] = "Ok" => /\ sent[c] \in Executed(c)
                        /\ request[c].memo = Work[c]
                        /\ request[c].channel \in Channels

\* work_settlement.rs:15-16: an integer amount is saturated to 64 bits, and only
\* what is not an integer is refused.
IntegersAreAccepted ==
  \A c \in OpenCalls :
    (result[c] = "Refused" /\ sent[c] = 0) => ~asked[c].integer

------------------------------------------------------------------------------
(* The settlement implements RemoteEffect, as the adapters of module       *)
(* Adapters do: Refused says that the last request never moves money, and  *)
(* Transient and Failed say nothing of it.                                 *)

Phase(c) ==
  CASE pc[c] = "idle"    -> "idle"
    [] pc[c] = "waiting" -> "called"
    [] pc[c] = "done"    -> "returned"

Claim(c) ==
  CASE result[c] = None      -> "none"
    [] result[c] = "Ok"      -> "done"
    [] result[c] = "Refused" -> "undone"
    [] OTHER                 -> "unknown"

Happened(r) ==
  CASE fate[r] = "pending"  -> "open"
    [] fate[r] = "executed" -> "done"
    [] fate[r] = "refused"  -> "void"

Effect == INSTANCE RemoteEffect
  WITH MaxTries <- MaxAttempts, tries <- sent,
       phase <- [c \in Calls |-> Phase(c)], claim <- [c \in Calls |-> Claim(c)],
       effect <- [r \in Calls \X Attempts |-> Happened(r)]

ImplementsRemoteEffect == Effect!Spec

==============================================================================
