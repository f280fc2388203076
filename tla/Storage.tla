------------------------------- MODULE Storage -------------------------------
(***************************************************************************)
(* TenzroStorage (storage_backend.rs) over the node's blob store.  A blob  *)
(* is the beginning of a stream of chunks, so that a blob that lacks the   *)
(* end of its stream can be told from a whole one; key and digest, both    *)
(* made from the content, are the blob itself.                             *)
(***************************************************************************)
EXTENDS SdkCall

CONSTANTS Streams, Length  \* the chunks of each stream

ASSUME StorageAssumption == Length \in Nat

VARIABLE store  \* the node: blobs published

Blobs == Streams \X (0..Length)
Meta(key, blob) == [key |-> key, size |-> blob[2], digest |-> blob]

------------------------------------------------------------------------------
\* put: buf is empty.
Put(c, s) ==
  /\ Ready(c, "put")
  /\ pc' = [pc EXCEPT ![c] = "reading"]
  /\ request' = [request EXCEPT ![c] = <<"put", <<s, 0>>>>]
  /\ UNCHANGED <<plan, env, config, sent, answer, result, fate>>

ReadsChunk(c) ==
  /\ pc[c] = "reading"
  /\ Arg(c)[2] < Length
  /\ request' = [request EXCEPT ![c] = <<"put", <<Arg(c)[1], Arg(c)[2] + 1>>>>]
  /\ UNCHANGED <<plan, env, config, pc, sent, answer, result, fate>>

\* Mutant: an error of the stream ends the loop as its end does.
ReadErrorEnds(c) == pc[c] = "reading" /\ Send(c, "put", Arg(c))

ReadFails(c) == pc[c] = "reading" /\ Return(c, "Failed", "none")

Publishes(c) ==
  /\ pc[c] = "reading"
  /\ Arg(c)[2] = Length
  /\ Send(c, "put", Arg(c))

\* blake3_hex is 32 bytes in hex, or it is not.
PutReturns(c) ==
  /\ Replied(c, {"put"})
  /\ LET blob == answer[c][2].blob IN
       IF answer[c][2].hex THEN Return(c, "Ok", Meta(blob, blob))
                           ELSE Return(c, "Failed", "none")

\* The caller: keys that a put has returned.
Keys == {result[p][2].key : p \in {q \in Calls : Op(q) = "put" /\ result[q][1] = "Ok"}}

Get(c, key) == Ready(c, "get") /\ Send(c, "get", key)
Head(c, key) == Ready(c, "head") /\ Send(c, "head", key)

\* The bytes that came, unverified.
GetReturns(c) == Replied(c, {"get"}) /\ Return(c, "Ok", answer[c][2])

\* The metadata of the bytes that came.
HeadReturns(c) == Replied(c, {"head"}) /\ Return(c, "Ok", Meta(Arg(c), answer[c][2]))

\* delete does nothing.
Delete(c) == Ready(c, "delete") /\ Return(c, "Ok", "none")

StorageCall(c) ==
  \/ \E s \in Streams : Put(c, s)
  \/ \E key \in Keys : Get(c, key) \/ Head(c, key)
  \/ ReadsChunk(c) \/ ReadFails(c) \/ Publishes(c)
  \/ PutReturns(c) \/ GetReturns(c) \/ HeadReturns(c) \/ Delete(c)

------------------------------------------------------------------------------
(* The node                                                                *)

PublishServed(c, n) ==
  /\ Op(c) = "put"
  /\ Serve(c, n, [blob : {Arg(c)}, hex : BOOLEAN])
  /\ store' = store \cup {Arg(c)}

FetchServed(c, n) ==
  /\ Op(c) \in {"get", "head"}
  /\ Arg(c) \in store
  /\ Serve(c, n, {Arg(c)})
  /\ UNCHANGED store

==============================================================================
