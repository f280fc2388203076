---------------------------- MODULE MCReceiptSink ----------------------------
(***************************************************************************)
(* Instances of ReceiptSink for TLC.                                       *)
(***************************************************************************)
EXTENDS ReceiptSink

CONSTANTS r1, r2, r3, m1, m2, c1, c2, j1, j2, j3, k1, k2

\* r1 and r2 have a digest each; r3, which is never sent, is given that of r2.
MCDigest == [r \in Receipts |-> IF r = r1 THEN m1 ELSE m2]

==============================================================================
