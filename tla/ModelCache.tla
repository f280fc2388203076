----------------------------- MODULE ModelCache ------------------------------
(***************************************************************************)
(* TenzroModelSource::fetch (model_source.rs): resolve a URI over the      *)
(* network, hash what came, and write it to the file of that hash.  Calls  *)
(* run at once and share the cache directory and nothing else.             *)
(*                                                                         *)
(* tokio::fs::write is std::fs::write on a blocking thread: it truncates   *)
(* the file and then writes it piece by piece at its own offset, no other  *)
(* writer is kept out, and it goes on when the future that awaits it is    *)
(* dropped.  The SDK's resolver and the file system are external.          *)
(***************************************************************************)
EXTENDS Naturals, FiniteSets

CONSTANTS
  Fetches,      \* calls of `fetch', each made at most once
  Uris,
  ForeignUris,  \* those whose scheme is not tenzro
  Blobs,        \* contents, which are also their digests
  NoBlob,
  NoUri,
  Named,        \* the blob a URI names
  Chunks,       \* the number of writes a file takes
  NodeErrs      \* the resolver may hand out another blob than the one named

ASSUME CacheAssumption ==
  /\ ForeignUris \subseteq Uris
  /\ Named \in [Uris -> Blobs]
  /\ NoBlob \notin Blobs
  /\ NoUri \notin Uris
  /\ Chunks \in Nat \ {0}
  /\ NodeErrs \in BOOLEAN

VARIABLES
  pc,      \* where each call stands; the writer is not always awaited
  uri,
  bytes,   \* what resolve returned
  next,    \* the next piece each writer writes
  file,    \* what each file holds: pieces of blobs; a missing piece is a hole
  broken,  \* history: files some write of which was cut short
  alone    \* history: writers whose file nobody else has had open since they opened it

vars == <<pc, uri, bytes, next, file, broken, alone>>

Pieces == 1..Chunks
Whole(b) == {<<b, i>> : i \in Pieces}

\* Mutant: the file is named after the hash in the URI.
PathFromUri(f) == Named[uri[f]]

\* cache_dir.join(digest.to_hex())
Path(f) == bytes[f]

\* The write is to come: awaited, or left to the blocking thread all the same.
Unopened == {"resolved", "queued"}

\* The blocking thread has the file open, whoever still waits for it.
Open(f) == pc[f] \in {"writing", "detached"}
Writers(b) == {f \in Fetches : Open(f) /\ Path(f) = b}

------------------------------------------------------------------------------
(* fetch                                                                   *)

Fetch(f, u) ==
  /\ pc[f] = "idle"
  /\ uri' = [uri EXCEPT ![f] = u]
  /\ pc' = [pc EXCEPT ![f] = IF u \in ForeignUris THEN "failed" ELSE "resolving"]
  /\ UNCHANGED <<bytes, next, file, broken, alone>>

\* The digest is computed from what came; nothing compares it with the URI.
Resolved(f) ==
  /\ pc[f] = "resolving"
  /\ \E b \in (IF NodeErrs THEN Blobs ELSE {Named[uri[f]]}) :
       bytes' = [bytes EXCEPT ![f] = b]
  /\ pc' = [pc EXCEPT ![f] = "resolved"]
  /\ UNCHANGED <<uri, next, file, broken, alone>>

\* resolve, create_dir_all or opening the file fails: nothing is written.
FetchFails(f) ==
  /\ pc[f] \in {"resolving"} \cup Unopened
  /\ pc' = [pc EXCEPT ![f] = IF @ = "queued" THEN "dropped" ELSE "failed"]
  /\ UNCHANGED <<uri, bytes, next, file, broken, alone>>

Opened(at) == IF at = "resolved" THEN "writing" ELSE "detached"
Closed(at) == IF at = "writing" THEN "done" ELSE "dropped"

\* A writer is alone until another opens the same file.
AloneAfterOpen(f) ==
  {g \in alone : Path(g) # Path(f)} \cup (IF Writers(Path(f)) = {} THEN {f} ELSE {})

\* Mutant: a file that is there is taken for the cached artefact.
OpenIfMissing(f) ==
  /\ pc[f] \in Unopened
  /\ alone' = AloneAfterOpen(f)
  /\ IF file[Path(f)] = {}
       THEN pc' = [pc EXCEPT ![f] = Opened(@)] /\ next' = [next EXCEPT ![f] = 1]
       ELSE pc' = [pc EXCEPT ![f] = Closed(Opened(@))] /\ UNCHANGED next
  /\ UNCHANGED <<uri, bytes, file, broken>>

\* The blocking thread opens and truncates the file.
OpenTruncated(f) ==
  /\ pc[f] \in Unopened
  /\ pc' = [pc EXCEPT ![f] = Opened(@)]
  /\ next' = [next EXCEPT ![f] = 1]
  /\ file' = [file EXCEPT ![Path(f)] = {}]
  /\ alone' = AloneAfterOpen(f)
  /\ UNCHANGED <<uri, bytes, broken>>

\* Mutant: the end of the file is not noticed.
WritePastEnd(f) ==
  /\ Open(f)
  /\ file' = [file EXCEPT ![Path(f)] =
       {p \in @ : p[2] # next[f]} \cup {<<bytes[f], next[f]>>}]
  /\ next' = [next EXCEPT ![f] = @ + 1]
  /\ UNCHANGED <<pc, uri, bytes, broken, alone>>

\* A piece takes its place, whatever is there; the others stay as they are.
WritePiece(f) ==
  /\ Open(f)
  /\ next[f] <= Chunks
  /\ file' = [file EXCEPT ![Path(f)] =
       {p \in @ : p[2] # next[f]} \cup {<<bytes[f], next[f]>>}]
  /\ next' = [next EXCEPT ![f] = @ + 1]
  /\ UNCHANGED <<pc, uri, bytes, broken, alone>>

\* An I/O error: what was written stays.
WriteFails(f) ==
  /\ Open(f)
  /\ pc' = [pc EXCEPT ![f] = IF @ = "writing" THEN "failed" ELSE "dropped"]
  /\ broken' = broken \cup {Path(f)}
  /\ UNCHANGED <<uri, bytes, next, file, alone>>

\* Mutant: `fetch' does not wait for the write.
WriteNotAwaited(f) ==
  /\ Open(f)
  /\ pc' = [pc EXCEPT ![f] = Closed(@)]
  /\ UNCHANGED <<uri, bytes, next, file, broken, alone>>

\* write has written everything; `fetch' returns if somebody awaits it.
WriteEnds(f) ==
  /\ Open(f)
  /\ next[f] > Chunks
  /\ pc' = [pc EXCEPT ![f] = Closed(@)]
  /\ UNCHANGED <<uri, bytes, next, file, broken, alone>>

\* The future is dropped at an await; a write that has been handed to the
\* blocking thread goes on, begun or not.
Abandon(f) ==
  /\ \/ pc[f] \in {"resolving", "resolved"} /\ pc' = [pc EXCEPT ![f] = "dropped"]
     \/ pc[f] = "resolved" /\ pc' = [pc EXCEPT ![f] = "queued"]
     \/ pc[f] = "writing"  /\ pc' = [pc EXCEPT ![f] = "detached"]
  /\ UNCHANGED <<uri, bytes, next, file, broken, alone>>

Running(f) == pc[f] \in {"resolving"} \cup Unopened \/ Open(f)

\* The process dies.  Calls not made yet are made by the next one.
Crash ==
  /\ \E f \in Fetches : Running(f)
  /\ pc' = [f \in Fetches |-> IF Running(f) THEN "dropped" ELSE pc[f]]
  /\ broken' = broken \cup {Path(f) : f \in {g \in Fetches : Open(g)}}
  /\ UNCHANGED <<uri, bytes, next, file, alone>>

------------------------------------------------------------------------------
Init ==
  /\ pc = [f \in Fetches |-> "idle"]
  /\ uri = [f \in Fetches |-> NoUri]
  /\ bytes = [f \in Fetches |-> NoBlob]
  /\ next = [f \in Fetches |-> 1]
  /\ file = [b \in Blobs |-> {}]
  /\ broken = {}
  /\ alone = {}

Next ==
  \/ \E f \in Fetches, u \in Uris : Fetch(f, u)
  \/ \E f \in Fetches :
       \/ Resolved(f) \/ FetchFails(f) \/ OpenTruncated(f)
       \/ WritePiece(f) \/ WriteFails(f) \/ WriteEnds(f) \/ Abandon(f)
  \/ Crash

Spec == Init /\ [][Next]_vars

------------------------------------------------------------------------------
(* Properties                                                              *)

\* Every variable has its type.
TypeOK ==
  /\ pc \in [Fetches -> {"idle", "resolving", "resolved", "queued", "writing",
                         "detached", "done", "failed", "dropped"}]
  /\ uri \in [Fetches -> Uris \cup {NoUri}]
  /\ bytes \in [Fetches -> Blobs \cup {NoBlob}]
  /\ next \in [Fetches -> 1..(Chunks + 1)]
  /\ file \in [Blobs -> SUBSET (Blobs \X Pieces)]
  /\ broken \subseteq Blobs
  /\ alone \subseteq Fetches

\* However many writers truncate and overwrite one file at once, awaited or
\* not, the file is whole when the last of them has closed it, unless a write
\* of it has failed or died; a file that is handed out is not missing either.
WholeUnlessBroken ==
  \A b \in Blobs \ broken :
    Writers(b) = {} =>
      /\ file[b] \in {{}, Whole(b)}
      /\ (\E f \in Fetches : pc[f] = "done" /\ Path(f) = b) => file[b] = Whole(b)

\* A fetch that nobody else has disturbed hands out a whole file, whatever a
\* crash or an I/O error of an earlier fetch has left under the same name.
FetchRepairs ==
  \A f \in alone : pc[f] = "done" => file[Path(f)] = Whole(Path(f))

\* A file holds no bytes but those its name is the digest of, also when the
\* node hands out a blob that the URI does not name.
ContentAddressed ==
  \A b \in Blobs : file[b] \subseteq Whole(b)

\* Only a fetch that opens the file takes a whole file away: an overlapping or a
\* detached writer, an I/O error or a crash may cut its own write short, but a
\* file that was whole before that step is whole after it.
TruncationOnly ==
  [][\A b \in Blobs :
       file[b] = Whole(b) /\ file'[b] # Whole(b) =>
         \E f \in Fetches : pc[f] \in Unopened /\ Open(f)' /\ Path(f) = b]_vars

\* model_source.rs:11-12: a second fetch of a URI returns the cached path, with
\* no network round trip.  An artefact that one fetch has handed out whole is
\* not taken away from its user by the next one.
CachedStaysWhole ==
  \A f \in Fetches :
    (pc[f] = "done" /\ Path(f) \notin broken) => file[Path(f)] = Whole(Path(f))

==============================================================================
