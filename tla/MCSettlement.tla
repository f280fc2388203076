---------------------------- MODULE MCSettlement -----------------------------
(***************************************************************************)
(* Instances of Settlement for TLC.                                        *)
(***************************************************************************)
EXTENDS Settlement, TLC

CONSTANTS o1, s1, s2, x1, w1

\* Both sends are for one piece of work.
MCWork == [c \in SendCalls |-> w1]

\* They differ in nothing, and no liveness is checked.
MCSymmetry == Permutations(SendCalls)

\* The unit, the largest and the next amount, and text that is no integer.
MCAmounts ==
  [integer : {TRUE}, value : {1, U64Max, U64Max + 1}]
    \cup {[integer |-> FALSE, value |-> 0]}

==============================================================================
