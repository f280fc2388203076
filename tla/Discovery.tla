------------------------------ MODULE Discovery ------------------------------
(***************************************************************************)
(* TenzroDiscovery::start (discovery.rs): a stream that lists the          *)
(* providers on the node, hands them out one by one, sleeps, and lists     *)
(* them again.  The stream is lazy: it moves only while its consumer polls *)
(* it.  A prompt consumer always does; another one may let time pass       *)
(* between two announcements.                                              *)
(*                                                                         *)
(* The node's directory, the SDK and the consumers are external.  Time is  *)
(* discrete, and known only as what is left of a timer or as the age of an *)
(* event, up to MaxAge.                                                    *)
(***************************************************************************)
EXTENDS Naturals

CONSTANTS
  Streams,       \* calls of `start', each made at most once
  Prompt,        \* the streams whose consumer always polls
  Providers,
  PollInterval,
  RpcBound       \* longest time list_providers can take, retries included

ASSUME DiscoveryAssumption ==
  /\ Prompt \subseteq Streams
  /\ PollInterval \in Nat
  /\ RpcBound \in Nat

\* How long a provider can go without an announcement, and one unit more.
Freshness == 2 * RpcBound + PollInterval
MaxAge == Freshness + 1

VARIABLES
  directory,  \* the node: the providers there are
  age,        \* time since each provider joined or left
  pc,         \* where each stream stands
  timer,      \* what is left of its list_providers or of its sleep
  reply,      \* {} or {the list the node has read for it}
  batch,      \* providers still to be handed out
  silent      \* time since it began, the provider joined or was announced last

vars == <<directory, age, pc, timer, reply, batch, silent>>

\* The stream has been started and not dropped, and has met no error.
Active(s) == pc[s] \in {"polling", "listing", "yielding", "sleeping"}

------------------------------------------------------------------------------
(* The directory                                                           *)

Join(p) ==
  /\ p \notin directory
  /\ directory' = directory \cup {p}
  /\ age' = [age EXCEPT ![p] = 0]
  /\ silent' = [s \in Streams |-> [silent[s] EXCEPT ![p] = 0]]
  /\ UNCHANGED <<pc, timer, reply, batch>>

Leave(p) ==
  /\ p \in directory
  /\ directory' = directory \ {p}
  /\ age' = [age EXCEPT ![p] = 0]
  /\ UNCHANGED <<pc, timer, reply, batch, silent>>

------------------------------------------------------------------------------
(* start                                                                   *)

Start(s) ==
  /\ pc[s] = "idle"
  /\ pc' = [pc EXCEPT ![s] = "polling"]
  /\ silent' = [silent EXCEPT ![s] = [p \in Providers |-> 0]]
  /\ UNCHANGED <<directory, age, timer, reply, batch>>

ListSent(s) ==
  /\ pc[s] = "polling"
  /\ pc' = [pc EXCEPT ![s] = "listing"]
  /\ timer' = [timer EXCEPT ![s] = RpcBound]
  /\ UNCHANGED <<directory, age, reply, batch, silent>>

\* The node reads its directory, again if the SDK has sent the call again.
ListServed(s) ==
  /\ pc[s] = "listing"
  /\ reply[s] # {directory}
  /\ reply' = [reply EXCEPT ![s] = {directory}]
  /\ UNCHANGED <<directory, age, pc, timer, batch, silent>>

\* Mutant: the list of an earlier poll is used again.
ListKept(s) ==
  /\ pc[s] = "listing"
  /\ \E list \in reply[s] : batch' = [batch EXCEPT ![s] = list]
  /\ pc' = [pc EXCEPT ![s] = "yielding"]
  /\ timer' = [timer EXCEPT ![s] = 0]
  /\ UNCHANGED <<directory, age, reply, silent>>

ListReturns(s) ==
  /\ pc[s] = "listing"
  /\ \E list \in reply[s] : batch' = [batch EXCEPT ![s] = list]
  /\ pc' = [pc EXCEPT ![s] = "yielding"]
  /\ reply' = [reply EXCEPT ![s] = {}]
  /\ timer' = [timer EXCEPT ![s] = 0]
  /\ UNCHANGED <<directory, age, silent>>

\* The stream is over, and nobody listens to it any more.
End(s, how) ==
  /\ pc' = [pc EXCEPT ![s] = how]
  /\ timer' = [timer EXCEPT ![s] = 0]
  /\ reply' = [reply EXCEPT ![s] = {}]
  /\ batch' = [batch EXCEPT ![s] = {}]
  /\ silent' = [silent EXCEPT ![s] = [p \in Providers |-> 0]]
  /\ UNCHANGED <<directory, age>>

\* map_sdk and `?': the error is handed out and nothing follows it.
ListFails(s) ==
  /\ pc[s] = "listing"
  /\ End(s, "ended")

\* Mutant: the sleep is taken inside the loop over the providers.
YieldAndSleep(s) ==
  \E p \in batch[s] :
    /\ pc[s] = "yielding"
    /\ batch' = [batch EXCEPT ![s] = @ \ {p}]
    /\ silent' = [silent EXCEPT ![s][p] = 0]
    /\ pc' = [pc EXCEPT ![s] = "sleeping"]
    /\ timer' = [timer EXCEPT ![s] = PollInterval]
    /\ UNCHANGED <<directory, age, reply>>

Yield(s) ==
  \E p \in batch[s] :
    /\ pc[s] = "yielding"
    /\ batch' = [batch EXCEPT ![s] = @ \ {p}]
    /\ silent' = [silent EXCEPT ![s][p] = 0]
    /\ UNCHANGED <<directory, age, pc, timer, reply>>

\* Mutant: the time a call may take is added to the sleep.
SleepTooLong(s) ==
  /\ pc[s] = "yielding"
  /\ batch[s] = {}
  /\ pc' = [pc EXCEPT ![s] = "sleeping"]
  /\ timer' = [timer EXCEPT ![s] = PollInterval + RpcBound]
  /\ UNCHANGED <<directory, age, reply, batch, silent>>

Sleep(s) ==
  /\ pc[s] = "yielding"
  /\ batch[s] = {}
  /\ pc' = [pc EXCEPT ![s] = "sleeping"]
  /\ timer' = [timer EXCEPT ![s] = PollInterval]
  /\ UNCHANGED <<directory, age, reply, batch, silent>>

Wake(s) ==
  /\ pc[s] = "sleeping"
  /\ timer[s] = 0
  /\ pc' = [pc EXCEPT ![s] = "polling"]
  /\ UNCHANGED <<directory, age, timer, reply, batch, silent>>

\* The consumer drops the stream.
Drop(s) ==
  /\ Active(s)
  /\ End(s, "dropped")

------------------------------------------------------------------------------
(* Time passes while every prompt stream waits for a timer.                *)

MayWait(s) ==
  s \in Prompt =>
    /\ pc[s] \notin {"polling", "yielding"}
    /\ pc[s] \in {"listing", "sleeping"} => timer[s] > 0

Older(n) == IF n < MaxAge THEN n + 1 ELSE n

Tick ==
  /\ \E s \in Streams : Active(s)
  /\ \A s \in Streams : MayWait(s)
  /\ age' = [p \in Providers |-> Older(age[p])]
  /\ timer' = [s \in Streams |-> IF timer[s] > 0 THEN timer[s] - 1 ELSE 0]
  /\ silent' = [s \in Streams |-> [p \in Providers |->
                  IF Active(s) THEN Older(silent[s][p]) ELSE 0]]
  /\ UNCHANGED <<directory, pc, reply, batch>>

------------------------------------------------------------------------------
Init ==
  /\ directory \in SUBSET Providers
  /\ age = [p \in Providers |-> 0]
  /\ pc = [s \in Streams |-> "idle"]
  /\ timer = [s \in Streams |-> 0]
  /\ reply = [s \in Streams |-> {}]
  /\ batch = [s \in Streams |-> {}]
  /\ silent = [s \in Streams |-> [p \in Providers |-> 0]]

Next ==
  \/ Tick
  \/ \E p \in Providers : Join(p) \/ Leave(p)
  \/ \E s \in Streams :
       \/ Start(s) \/ ListSent(s) \/ ListServed(s) \/ ListReturns(s) \/ ListFails(s)
       \/ Yield(s) \/ Sleep(s) \/ Wake(s) \/ Drop(s)

Spec == Init /\ [][Next]_vars

------------------------------------------------------------------------------
(* Properties                                                              *)

\* Every variable has its type.
TypeOK ==
  /\ directory \subseteq Providers
  /\ age \in [Providers -> 0..MaxAge]
  /\ pc \in [Streams -> {"idle", "polling", "listing", "yielding", "sleeping",
                          "ended", "dropped"}]
  /\ timer \in [Streams -> 0..(IF RpcBound < PollInterval THEN PollInterval ELSE RpcBound)]
  /\ reply \in [Streams -> SUBSET SUBSET Providers]
  /\ batch \in [Streams -> SUBSET Providers]
  /\ silent \in [Streams -> [Providers -> 0..MaxAge]]

\* On a stream that has met no error and is read at once, a provider is
\* announced within one poll interval and two calls of its joining, and again
\* at least that often while it stays: the freshness that with_poll_interval
\* trades for load.
JoinedIsAnnounced ==
  \A s \in Prompt, p \in directory : Active(s) => silent[s][p] <= Freshness

\* A provider that has left is not handed out to such a consumer later than one
\* call after it left, and one that waits to be handed out was there then.
LeftIsForgotten ==
  \A s \in Prompt : \A p \in batch[s] \ directory : age[p] <= RpcBound

\* discovery.rs:108-109: "Stream is infinite": only its consumer ends it.
StreamIsInfinite ==
  \A s \in Streams : pc[s] # "ended"

==============================================================================
