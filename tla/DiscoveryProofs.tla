--------------------------- MODULE DiscoveryProofs ---------------------------
(***************************************************************************)
(* Theorems about Discovery, for any streams, providers, poll interval and *)
(* call bound.                                                             *)
(***************************************************************************)
EXTENDS Discovery, Integers, TLAPS

\* What a stream holds and how long it may still wait, by where it stands.
StandInv(s) ==
  /\ pc[s] # "listing" => reply[s] = {}
  /\ pc[s] # "yielding" => batch[s] = {}
  /\ pc[s] = "listing" => timer[s] <= RpcBound
  /\ pc[s] = "sleeping" => timer[s] <= PollInterval

\* How long a provider may have been without an announcement.  The list that is
\* under way was read either with the provider in it, or before it joined.
SilenceInv(s, p) ==
  /\ pc[s] = "polling" => silent[s][p] <= RpcBound + PollInterval
  /\ pc[s] = "listing" =>
       /\ silent[s][p] <= 2 * RpcBound + PollInterval - timer[s]
       /\ \A list \in reply[s] : p \notin list => silent[s][p] <= RpcBound - timer[s]
  /\ pc[s] = "yielding" =>
       /\ silent[s][p] <= 2 * RpcBound + PollInterval
       /\ p \notin batch[s] => silent[s][p] <= RpcBound
  /\ pc[s] = "sleeping" => silent[s][p] <= RpcBound + PollInterval - timer[s]

\* A list that is under way was read after a provider it holds was last there.
GoneInv(s, p) ==
  /\ pc[s] = "listing" =>
       \A list \in reply[s] : p \in list => age[p] <= RpcBound - timer[s]
  /\ p \in batch[s] => age[p] <= RpcBound

IInv ==
  /\ TypeOK
  /\ \A s \in Streams : StandInv(s)
  /\ \A s \in Prompt, p \in directory : SilenceInv(s, p)
  /\ \A s \in Prompt, p \in Providers \ directory : GoneInv(s, p)

------------------------------------------------------------------------------
(* One lemma for each kind of step                                         *)

LEMMA AgesAreCapped ==
  ASSUME NEW n \in 0..MaxAge PROVE Older(n) \in 0..MaxAge /\ Older(n) <= n + 1
BY DiscoveryAssumption DEF Older, MaxAge, Freshness

LEMMA InvInitial == Init => IInv
BY DiscoveryAssumption
  DEF Init, IInv, TypeOK, StandInv, SilenceInv, GoneInv, MaxAge, Freshness

LEMMA JoinKeepsInv ==
  ASSUME IInv, NEW q \in Providers, Join(q) PROVE IInv'
<1> USE DiscoveryAssumption
<1>1. TypeOK'
  BY DEF IInv, TypeOK, Join, MaxAge, Freshness
<1>2. \A s \in Streams : StandInv(s)'
  BY DEF IInv, StandInv, Join
<1>3. ASSUME NEW s \in Prompt, NEW p \in directory' PROVE SilenceInv(s, p)'
  <2>1. CASE p = q
    <3>1. silent'[s][q] = 0 /\ StandInv(s) /\ timer[s] \in Nat
      BY DEF IInv, TypeOK, Join
    <3> QED BY <2>1, <3>1 DEF Join, SilenceInv, StandInv
  <2>2. CASE p # q
    <3>1. p \in directory /\ silent'[s][p] = silent[s][p]
      BY <1>3, <2>2 DEF IInv, TypeOK, Join
    <3> QED BY <3>1 DEF IInv, SilenceInv, Join
  <2> QED BY <2>1, <2>2
<1>4. ASSUME NEW s \in Prompt, NEW p \in Providers \ directory' PROVE GoneInv(s, p)'
  BY <1>4 DEF IInv, TypeOK, GoneInv, Join
<1> QED BY <1>1, <1>2, <1>3, <1>4 DEF IInv

LEMMA LeaveKeepsInv ==
  ASSUME IInv, NEW q \in Providers, Leave(q) PROVE IInv'
<1> USE DiscoveryAssumption
<1>1. TypeOK'
  BY DEF IInv, TypeOK, Leave, MaxAge, Freshness
<1>2. \A s \in Streams : StandInv(s)'
  BY DEF IInv, StandInv, Leave
<1>3. \A s \in Prompt, p \in directory' : SilenceInv(s, p)'
  BY DEF IInv, SilenceInv, Leave
<1>4. ASSUME NEW s \in Prompt, NEW p \in Providers \ directory' PROVE GoneInv(s, p)'
  <2>1. StandInv(s) /\ timer[s] \in Nat
    BY DEF IInv, TypeOK
  <2>2. CASE p = q
    BY <2>1, <2>2 DEF IInv, TypeOK, GoneInv, StandInv, Leave
  <2>3. CASE p # q
    BY <1>4, <2>3 DEF IInv, TypeOK, GoneInv, Leave
  <2> QED BY <2>2, <2>3
<1> QED BY <1>1, <1>2, <1>3, <1>4 DEF IInv

\* A step of one stream leaves the directory and the other streams alone.
LEMMA OneStream ==
  ASSUME IInv, NEW s \in Streams, UNCHANGED <<directory, age>>, TypeOK',
         \A r \in Streams \ {s} :
           /\ pc'[r] = pc[r] /\ timer'[r] = timer[r] /\ reply'[r] = reply[r]
           /\ batch'[r] = batch[r] /\ silent'[r] = silent[r],
         StandInv(s)',
         s \in Prompt => /\ \A p \in directory : SilenceInv(s, p)'
                         /\ \A p \in Providers \ directory : GoneInv(s, p)'
  PROVE  IInv'
<1>1. \A r \in Streams : StandInv(r)'
  BY DEF IInv, StandInv
<1>2. \A r \in Prompt, p \in directory' : SilenceInv(r, p)'
  BY DiscoveryAssumption DEF IInv, SilenceInv
<1>3. \A r \in Prompt, p \in Providers \ directory' : GoneInv(r, p)'
  BY DiscoveryAssumption DEF IInv, GoneInv
<1> QED BY <1>1, <1>2, <1>3 DEF IInv

LEMMA StartKeepsInv ==
  ASSUME IInv, NEW s \in Streams, Start(s) PROVE IInv'
<1> USE DiscoveryAssumption
<1>1. TypeOK'
  BY DEF IInv, TypeOK, Start, MaxAge, Freshness
<1>2. /\ pc[s] = "idle" /\ pc'[s] = "polling" /\ reply[s] = {} /\ batch[s] = {}
      /\ \A p \in Providers : silent'[s][p] = 0
      /\ UNCHANGED <<directory, age, timer, reply, batch>>
  BY DEF IInv, TypeOK, Start, StandInv
<1>3. StandInv(s)'
  BY <1>2 DEF StandInv
<1>4. \A p \in directory : SilenceInv(s, p)'
  BY <1>2 DEF IInv, TypeOK, SilenceInv
<1>5. \A p : GoneInv(s, p)'
  BY <1>2 DEF GoneInv
<1> QED BY <1>1, <1>2, <1>3, <1>4, <1>5, OneStream DEF IInv, TypeOK, Start

LEMMA ListSentKeepsInv ==
  ASSUME IInv, NEW s \in Streams, ListSent(s) PROVE IInv'
<1> USE DiscoveryAssumption
<1>1. TypeOK'
  BY DEF IInv, TypeOK, ListSent
<1>2. pc[s] = "polling" /\ pc'[s] = "listing" /\ timer'[s] = RpcBound
      /\ reply'[s] = {} /\ batch'[s] = {} /\ silent'[s] = silent[s]
  BY DEF IInv, TypeOK, ListSent, StandInv
<1>3. StandInv(s)'
  BY <1>2 DEF StandInv
<1>4. ASSUME s \in Prompt, NEW p \in directory PROVE SilenceInv(s, p)'
  <2>1. silent[s][p] \in Nat
    BY DEF IInv, TypeOK
  <2> QED BY <1>2, <1>4, <2>1 DEF IInv, SilenceInv
<1>5. \A p \in Providers : GoneInv(s, p)'
  BY <1>2 DEF GoneInv
<1> QED BY <1>1, <1>3, <1>4, <1>5, OneStream DEF IInv, TypeOK, ListSent

LEMMA ListServedKeepsInv ==
  ASSUME IInv, NEW s \in Streams, ListServed(s) PROVE IInv'
<1> USE DiscoveryAssumption
<1>1. TypeOK'
  BY DEF IInv, TypeOK, ListServed
<1>2. pc[s] = "listing" /\ reply'[s] = {directory} /\ batch[s] = {}
      /\ UNCHANGED <<directory, age, pc, timer, batch, silent>>
  BY DEF IInv, TypeOK, ListServed, StandInv
<1>3. StandInv(s)'
  BY <1>2 DEF IInv, StandInv
<1>4. ASSUME s \in Prompt, NEW p \in directory PROVE SilenceInv(s, p)'
  BY <1>2, <1>4 DEF IInv, SilenceInv
<1>5. \A p \in Providers \ directory : GoneInv(s, p)'
  BY <1>2 DEF GoneInv
<1> QED BY <1>1, <1>2, <1>3, <1>4, <1>5, OneStream DEF IInv, TypeOK, ListServed

LEMMA ListReturnsKeepsInv ==
  ASSUME IInv, NEW s \in Streams, ListReturns(s) PROVE IInv'
<1> USE DiscoveryAssumption
<1>1. PICK list \in reply[s] : batch' = [batch EXCEPT ![s] = list]
  BY DEF ListReturns
<1>2. list \in SUBSET Providers /\ pc[s] = "listing" /\ StandInv(s) /\ timer[s] \in Nat
  BY <1>1 DEF IInv, TypeOK, ListReturns
<1>3. TypeOK'
  BY <1>1, <1>2 DEF IInv, TypeOK, ListReturns
<1>4. pc'[s] = "yielding" /\ reply'[s] = {} /\ batch'[s] = list /\ silent' = silent
      /\ age' = age
  BY <1>1 DEF IInv, TypeOK, ListReturns
<1>5. StandInv(s)'
  BY <1>4 DEF StandInv
<1>6. ASSUME s \in Prompt, NEW p \in directory PROVE SilenceInv(s, p)'
  <2>1. silent[s][p] \in Nat /\ SilenceInv(s, p)
    BY <1>6 DEF IInv, TypeOK
  <2> QED BY <1>1, <1>2, <1>4, <2>1 DEF SilenceInv, StandInv
<1>7. ASSUME s \in Prompt, NEW p \in Providers \ directory PROVE GoneInv(s, p)'
  <2>1. age[p] \in Nat /\ GoneInv(s, p)
    BY <1>7 DEF IInv, TypeOK
  <2> QED BY <1>1, <1>2, <1>4, <2>1 DEF GoneInv, StandInv
<1> QED BY <1>1, <1>3, <1>5, <1>6, <1>7, OneStream DEF IInv, TypeOK, ListReturns

LEMMA EndKeepsInv ==
  ASSUME IInv, NEW s \in Streams, NEW how \in {"ended", "dropped"}, End(s, how) PROVE IInv'
<1> USE DiscoveryAssumption
<1>1. TypeOK'
  BY DEF IInv, TypeOK, End, MaxAge, Freshness
<1>2. pc'[s] = how /\ reply'[s] = {} /\ batch'[s] = {}
  BY DEF IInv, TypeOK, End
<1>3. StandInv(s)' /\ \A p : SilenceInv(s, p)' /\ GoneInv(s, p)'
  BY <1>2 DEF StandInv, SilenceInv, GoneInv
<1> QED BY <1>1, <1>3, OneStream DEF IInv, TypeOK, End

LEMMA YieldKeepsInv ==
  ASSUME IInv, NEW s \in Streams, Yield(s) PROVE IInv'
<1> USE DiscoveryAssumption
<1>1. PICK q \in batch[s] : /\ batch' = [batch EXCEPT ![s] = @ \ {q}]
                            /\ silent' = [silent EXCEPT ![s][q] = 0]
  BY DEF Yield
<1>2. q \in Providers /\ pc[s] = "yielding"
      /\ UNCHANGED <<directory, age, pc, timer, reply>>
  BY <1>1 DEF IInv, TypeOK, Yield
<1>3. TypeOK'
  BY <1>1, <1>2 DEF IInv, TypeOK, MaxAge, Freshness
<1>4. batch'[s] = batch[s] \ {q}
      /\ \A p \in Providers : silent'[s][p] = IF p = q THEN 0 ELSE silent[s][p]
  BY <1>1, <1>2 DEF IInv, TypeOK
<1>5. StandInv(s)'
  BY <1>2, <1>4 DEF IInv, StandInv
<1>6. ASSUME s \in Prompt, NEW p \in directory PROVE SilenceInv(s, p)'
  BY <1>2, <1>4, <1>6 DEF IInv, TypeOK, SilenceInv
<1>7. ASSUME s \in Prompt, NEW p \in Providers \ directory PROVE GoneInv(s, p)'
  BY <1>2, <1>4, <1>7 DEF IInv, GoneInv
<1> QED BY <1>1, <1>2, <1>3, <1>5, <1>6, <1>7, OneStream DEF IInv, TypeOK

LEMMA SleepKeepsInv ==
  ASSUME IInv, NEW s \in Streams, Sleep(s) PROVE IInv'
<1> USE DiscoveryAssumption
<1>1. TypeOK'
  BY DEF IInv, TypeOK, Sleep
<1>2. pc[s] = "yielding" /\ pc'[s] = "sleeping" /\ timer'[s] = PollInterval
      /\ batch[s] = {} /\ reply[s] = {} /\ UNCHANGED <<directory, age, reply, batch, silent>>
  BY DEF IInv, TypeOK, Sleep, StandInv
<1>3. StandInv(s)'
  BY <1>2 DEF StandInv
<1>4. ASSUME s \in Prompt, NEW p \in directory PROVE SilenceInv(s, p)'
  <2>1. silent[s][p] \in Nat
    BY DEF IInv, TypeOK
  <2> QED BY <1>2, <1>4, <2>1 DEF IInv, SilenceInv
<1>5. \A p : GoneInv(s, p)'
  BY <1>2 DEF GoneInv
<1> QED BY <1>1, <1>2, <1>3, <1>4, <1>5, OneStream DEF IInv, TypeOK, Sleep

LEMMA WakeKeepsInv ==
  ASSUME IInv, NEW s \in Streams, Wake(s) PROVE IInv'
<1> USE DiscoveryAssumption
<1>1. TypeOK'
  BY DEF IInv, TypeOK, Wake
<1>2. pc[s] = "sleeping" /\ pc'[s] = "polling" /\ timer[s] = 0
      /\ batch[s] = {} /\ reply[s] = {}
      /\ UNCHANGED <<directory, age, timer, reply, batch, silent>>
  BY DEF IInv, TypeOK, Wake, StandInv
<1>3. StandInv(s)'
  BY <1>2 DEF StandInv
<1>4. ASSUME s \in Prompt, NEW p \in directory PROVE SilenceInv(s, p)'
  BY <1>2, <1>4 DEF IInv, SilenceInv
<1>5. \A p : GoneInv(s, p)'
  BY <1>2 DEF GoneInv
<1> QED BY <1>1, <1>2, <1>3, <1>4, <1>5, OneStream DEF IInv, TypeOK, Wake

\* Time passes on a prompt stream only while its timer runs, and every age grows
\* by no more than the timer falls.
LEMMA TickKeepsInv == IInv /\ Tick => IInv'
<1> SUFFICES ASSUME IInv, Tick PROVE IInv'
  OBVIOUS
<1> USE DiscoveryAssumption
<1>1. \A n \in 0..MaxAge : Older(n) \in 0..MaxAge /\ Older(n) <= n + 1
  BY AgesAreCapped
<1>2. \A s \in Streams : timer'[s] = IF timer[s] > 0 THEN timer[s] - 1 ELSE 0
  BY DEF Tick
<1>3. ASSUME NEW s \in Streams PROVE timer[s] \in Nat
  BY <1>3 DEF IInv, TypeOK
<1>4. UNCHANGED <<directory, pc, reply, batch>>
  BY DEF Tick
<1>5. /\ age' \in [Providers -> 0..MaxAge]
      /\ silent' \in [Streams -> [Providers -> 0..MaxAge]]
  <2>1. 0 \in 0..MaxAge
    BY DEF MaxAge, Freshness
  <2> QED BY <1>1, <2>1 DEF IInv, TypeOK, Tick
<1>6. timer' \in [Streams -> 0..(IF RpcBound < PollInterval THEN PollInterval ELSE RpcBound)]
  BY DEF IInv, TypeOK, Tick
<1>7. TypeOK'
  BY <1>4, <1>5, <1>6 DEF IInv, TypeOK
<1>8. \A s \in Streams : StandInv(s)'
  BY <1>2, <1>3, <1>4 DEF IInv, StandInv
<1>9. ASSUME NEW s \in Prompt PROVE
        /\ pc[s] \notin {"polling", "yielding"}
        /\ pc[s] \in {"listing", "sleeping"} => timer'[s] = timer[s] - 1
  BY <1>2, <1>3, <1>9 DEF Tick, MayWait
<1>10. ASSUME NEW s \in Prompt, NEW p \in directory' PROVE SilenceInv(s, p)'
  <2>1. p \in directory /\ p \in Providers /\ SilenceInv(s, p)
    BY <1>4, <1>10 DEF IInv, TypeOK
  <2>2. CASE pc[s] \in {"listing", "sleeping"}
    <3>1. silent'[s][p] = Older(silent[s][p]) /\ silent[s][p] \in 0..MaxAge
      BY <2>1, <2>2 DEF IInv, TypeOK, Tick, Active
    <3>2. /\ silent'[s][p] \in Int /\ silent[s][p] \in Int
          /\ silent'[s][p] <= silent[s][p] + 1 /\ timer'[s] = timer[s] - 1
      BY <1>1, <1>9, <2>2, <3>1 DEF MaxAge, Freshness
    <3> QED BY <1>3, <1>4, <2>1, <2>2, <3>2 DEF SilenceInv
  <2>3. CASE pc[s] \notin {"listing", "sleeping"}
    BY <1>4, <1>9, <2>3 DEF SilenceInv
  <2> QED BY <2>2, <2>3
<1>11. ASSUME NEW s \in Prompt, NEW p \in Providers \ directory' PROVE GoneInv(s, p)'
  <2>1. p \notin directory /\ GoneInv(s, p) /\ StandInv(s)
    BY <1>4, <1>11 DEF IInv
  <2>2. batch[s] = {}
    BY <1>9, <2>1 DEF StandInv
  <2>3. age'[p] \in Int /\ age[p] \in Int /\ age'[p] <= age[p] + 1
    BY <1>1, <1>11 DEF IInv, TypeOK, Tick, MaxAge, Freshness
  <2> QED BY <1>3, <1>4, <1>9, <2>1, <2>2, <2>3 DEF GoneInv
<1> QED BY <1>4, <1>7, <1>8, <1>10, <1>11 DEF IInv

LEMMA StutterKeepsInv == IInv /\ UNCHANGED vars => IInv'
BY DEF vars, IInv, TypeOK, StandInv, SilenceInv, GoneInv

------------------------------------------------------------------------------
(* The theorems                                                            *)

\* The strengthening of the properties below is an invariant of the streams.
THEOREM Invariance == Spec => []IInv
<1>1. IInv /\ [Next]_vars => IInv'
  BY JoinKeepsInv, LeaveKeepsInv, StartKeepsInv, ListSentKeepsInv, ListServedKeepsInv,
     ListReturnsKeepsInv, EndKeepsInv, YieldKeepsInv, SleepKeepsInv, WakeKeepsInv,
     TickKeepsInv, StutterKeepsInv
  DEF Next, ListFails, Drop
<1> QED BY InvInitial, <1>1, PTL DEF Spec

\* Every variable of the discovery has its type.
THEOREM TypeCorrect == Spec => []TypeOK
BY Invariance, PTL DEF IInv

\* A provider is announced within two calls and one interval of its joining, and
\* again at least that often.
THEOREM AnnouncementsAreFresh == Spec => []JoinedIsAnnounced
<1>1. IInv => JoinedIsAnnounced
  <2> SUFFICES ASSUME IInv, NEW s \in Prompt, NEW p \in directory, Active(s)
               PROVE  silent[s][p] <= Freshness
    BY DEF JoinedIsAnnounced
  <2>1. SilenceInv(s, p) /\ silent[s][p] \in Nat /\ timer[s] \in Nat
    BY DiscoveryAssumption DEF IInv, TypeOK
  <2> QED BY <2>1, DiscoveryAssumption DEF SilenceInv, Active, Freshness
<1> QED BY Invariance, <1>1, PTL

\* A provider that has left is not handed out later than one call after it left.
THEOREM DeparturesAreNoticed == Spec => []LeftIsForgotten
<1>1. IInv => LeftIsForgotten
  BY DiscoveryAssumption DEF IInv, TypeOK, GoneInv, LeftIsForgotten
<1> QED BY Invariance, <1>1, PTL

==============================================================================
