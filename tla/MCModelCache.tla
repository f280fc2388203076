---------------------------- MODULE MCModelCache -----------------------------
(***************************************************************************)
(* Instances of ModelCache for TLC.                                        *)
(***************************************************************************)
EXTENDS ModelCache

CONSTANTS f1, f2, f3, u1, u2, http, b1, b2

\* Two URIs that name different blobs.
MCNamed == [u \in Uris |-> IF u = u1 THEN b1 ELSE b2]

\* A caller that makes one call after the other.
OneAtATime == \A f, g \in Fetches : Running(f) /\ Running(g) => f = g
SerialSpec == Init /\ [][Next /\ OneAtATime']_vars

==============================================================================
