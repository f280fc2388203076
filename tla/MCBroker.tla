------------------------------ MODULE MCBroker -------------------------------
(***************************************************************************)
(* Instances of Broker for TLC.                                            *)
(***************************************************************************)
EXTENDS Broker

CONSTANTS o1, o2, a

\* One offer brings a deadline of its own, the other takes the default.
MCDeadlineSecs == [o \in Offers |-> IF o = o1 THEN 3 ELSE NoDeadline]

\* The clock never stops a call that is still active.
ASSUME ClockIsLongEnough ==
  \A o \in Offers :
    MaxClock >= LastCall + Deadline(o) + 2 * RpcBound + PollInterval

==============================================================================
