-------------------------- MODULE ModelCacheProofs ---------------------------
(***************************************************************************)
(* Theorems about ModelCache, for any number of fetches, URIs and blobs,   *)
(* any file length, and a node that may hand out the wrong blob.           *)
(***************************************************************************)
EXTENDS ModelCache, TLAPS

\* A fetch that has got past its network round trip holds a blob, and one that
\* has been made holds a URI.
Holds(f) ==
  /\ pc[f] # "idle" => uri[f] \in Uris
  /\ pc[f] \in Unopened \cup {"writing", "detached", "done"} => bytes[f] \in Blobs

\* No writer has ever opened the file.
Untouched(b) ==
  /\ file[b] = {}
  /\ Writers(b) = {}
  /\ \A f \in Fetches : pc[f] = "done" => Path(f) # b

\* Every piece is in place or still to be written by a writer that is open: the
\* one thing that truncation, overlapping writes and detached writers leave true.
Covered(b) ==
  \A i \in Pieces : <<b, i>> \in file[b] \/ \E f \in Writers(b) : next[f] <= i

\* A writer that is alone has left no hole behind it.
AloneInv(f) ==
  /\ Open(f) => /\ Writers(Path(f)) = {f}
                /\ \A i \in Pieces : i < next[f] => <<Path(f), i>> \in file[Path(f)]
  /\ pc[f] = "done" => /\ Writers(Path(f)) = {}
                       /\ file[Path(f)] = Whole(Path(f))
  /\ pc[f] \notin {"idle", "resolving"} \cup Unopened

IInv ==
  /\ TypeOK
  /\ \A f \in Fetches : Holds(f)
  /\ ContentAddressed
  /\ \A b \in Blobs \ broken : Untouched(b) \/ Covered(b)
  /\ \A f \in alone : AloneInv(f)

------------------------------------------------------------------------------
(* One lemma for each kind of step                                         *)

LEMMA InvInitial == Init => IInv
BY CacheAssumption
  DEF Init, IInv, TypeOK, Holds, ContentAddressed, Untouched, Writers, Open,
      Unopened, Path

\* A step that leaves the files, the writers and what has been handed out as
\* they are keeps every part that speaks of files.
LEMMA SameFiles ==
  ASSUME IInv, UNCHANGED <<next, file, broken, alone>>,
         TypeOK', \A f \in Fetches : Holds(f)',
         \A f \in Fetches :
           \/ pc'[f] = pc[f] /\ bytes'[f] = bytes[f]
           \/ /\ ~Open(f) /\ pc[f] # "done" /\ f \notin alone
              /\ ~Open(f)' /\ pc'[f] # "done"
           \/ /\ Open(f) /\ Open(f)' /\ bytes'[f] = bytes[f]
  PROVE  IInv'
<1>1. \A b : Writers(b)' = Writers(b)
  BY DEF Writers, Open, Path
<1>2. ContentAddressed'
  BY DEF IInv, ContentAddressed, Whole, Pieces
<1>3. ASSUME NEW b \in Blobs \ broken PROVE Untouched(b)' \/ Covered(b)'
  <2>1. CASE Untouched(b)
    BY <1>1, <2>1 DEF Untouched, Path, Open
  <2>2. CASE Covered(b)
    BY <1>1, <2>2 DEF Covered, Pieces
  <2> QED BY <1>3, <2>1, <2>2 DEF IInv
<1>4. ASSUME NEW f \in alone PROVE AloneInv(f)'
  <2>1. f \in Fetches /\ AloneInv(f)
    BY <1>4 DEF IInv, TypeOK
  <2> QED BY <1>1, <2>1 DEF AloneInv, Path, Open, Unopened, Whole, Pieces
<1> QED BY <1>2, <1>3, <1>4 DEF IInv

LEMMA FetchKeepsInv ==
  ASSUME IInv, NEW f \in Fetches, NEW u \in Uris, Fetch(f, u) PROVE IInv'
<1>1. f \notin alone
  BY DEF IInv, AloneInv, Fetch
<1>2. TypeOK'
  BY DEF IInv, TypeOK, Fetch
<1>3. \A g \in Fetches : Holds(g)'
  BY DEF IInv, TypeOK, Holds, Fetch, Unopened
<1> QED BY <1>1, <1>2, <1>3, SameFiles DEF IInv, TypeOK, Fetch, Open

LEMMA ResolvedKeepsInv ==
  ASSUME IInv, NEW f \in Fetches, Resolved(f) PROVE IInv'
<1>1. f \notin alone
  BY DEF IInv, AloneInv, Resolved
<1>2. PICK b \in Blobs : bytes' = [bytes EXCEPT ![f] = b]
  <2>1. Named[uri[f]] \in Blobs
    BY CacheAssumption DEF IInv, Holds, Resolved
  <2> QED BY <2>1 DEF Resolved
<1>3. TypeOK'
  BY <1>2 DEF IInv, TypeOK, Resolved
<1>4. \A g \in Fetches : Holds(g)'
  BY <1>2 DEF IInv, TypeOK, Holds, Resolved, Unopened
<1> QED BY <1>1, <1>2, <1>3, <1>4, SameFiles DEF IInv, TypeOK, Resolved, Open

LEMMA FetchFailsKeepsInv ==
  ASSUME IInv, NEW f \in Fetches, FetchFails(f) PROVE IInv'
<1>1. f \notin alone
  BY DEF IInv, AloneInv, FetchFails
<1>2. TypeOK'
  BY DEF IInv, TypeOK, FetchFails
<1>3. \A g \in Fetches : Holds(g)'
  BY DEF IInv, TypeOK, Holds, FetchFails, Unopened
<1> QED BY <1>1, <1>2, <1>3, SameFiles DEF IInv, TypeOK, FetchFails, Open, Unopened

LEMMA AbandonKeepsInv ==
  ASSUME IInv, NEW f \in Fetches, Abandon(f) PROVE IInv'
<1>1. pc[f] # "writing" => f \notin alone
  BY DEF IInv, AloneInv, Abandon, Unopened
<1>2. TypeOK'
  BY DEF IInv, TypeOK, Abandon
<1>3. \A g \in Fetches : Holds(g)'
  BY DEF IInv, TypeOK, Holds, Abandon, Unopened
<1> QED BY <1>1, <1>2, <1>3, SameFiles DEF IInv, TypeOK, Abandon, Open, Unopened

\* Opening truncates: the writer that has just opened covers every piece, and
\* whoever was alone on the file is so no more.
LEMMA OpenKeepsInv ==
  ASSUME IInv, NEW f \in Fetches, OpenTruncated(f) PROVE IInv'
<1> DEFINE p == Path(f)
<1>1. p \in Blobs /\ pc[f] \in Unopened /\ ~Open(f) /\ f \notin alone
  BY DEF IInv, Holds, OpenTruncated, Path, Open, Unopened, AloneInv
<1>2. pc' = [pc EXCEPT ![f] = Opened(@)] /\ Opened(pc[f]) \in {"writing", "detached"}
  BY DEF OpenTruncated, Opened
<1>3. file' = [file EXCEPT ![p] = {}] /\ next' = [next EXCEPT ![f] = 1]
      /\ UNCHANGED <<uri, bytes, broken>> /\ alone' = AloneAfterOpen(f)
  BY DEF OpenTruncated
<1>4. TypeOK'
  BY <1>1, <1>2, <1>3, CacheAssumption DEF IInv, TypeOK, AloneAfterOpen
<1>5. \A g \in Fetches : Holds(g)'
  BY <1>1, <1>2, <1>3 DEF IInv, TypeOK, Holds, Unopened
<1>6. ContentAddressed'
  BY <1>1, <1>3 DEF IInv, TypeOK, ContentAddressed, Whole, Pieces
<1>7. \A b : Writers(b)' = IF b = p THEN Writers(b) \cup {f} ELSE Writers(b)
  BY <1>1, <1>2, <1>3 DEF IInv, TypeOK, Writers, Open, Path
<1>8. ASSUME NEW b \in Blobs \ broken' PROVE Untouched(b)' \/ Covered(b)'
  <2>1. CASE b = p
    <3>1. f \in Writers(b)' /\ next'[f] = 1
      BY <1>3, <1>7, <2>1 DEF IInv, TypeOK, Writers
    <3> QED BY <3>1, CacheAssumption DEF Covered, Pieces
  <2>2. CASE b # p /\ Untouched(b)
    BY <1>1, <1>2, <1>3, <1>7, <2>2 DEF IInv, TypeOK, Untouched, Path, Open
  <2>3. CASE b # p /\ Covered(b)
    <3>1. f \notin Writers(b)
      BY <1>1 DEF Writers
    <3>2. \A g \in Writers(b) : next'[g] = next[g] /\ g \in Writers(b)'
      BY <1>3, <1>7, <2>3, <3>1 DEF IInv, TypeOK, Writers
    <3> QED BY <1>1, <1>3, <2>3, <3>2 DEF IInv, TypeOK, Covered, Pieces
  <2> QED BY <1>3, <2>1, <2>2, <2>3 DEF IInv
<1>9. ASSUME NEW g \in alone' PROVE AloneInv(g)'
  <2>1. CASE g # f
    <3>1. g \in alone /\ Path(g) # p /\ g \in Fetches /\ AloneInv(g)
      BY <1>3, <1>9, <2>1 DEF IInv, TypeOK, AloneAfterOpen
    <3>2. pc'[g] = pc[g] /\ next'[g] = next[g] /\ Path(g)' = Path(g)
          /\ Writers(Path(g))' = Writers(Path(g))
      BY <1>2, <1>3, <1>7, <2>1, <3>1 DEF IInv, TypeOK, Path
    <3>3. file'[Path(g)] = file[Path(g)]
      BY <1>1, <1>3, <3>1 DEF IInv, TypeOK
    <3> QED BY <3>1, <3>2, <3>3 DEF AloneInv, Open, Unopened, Whole, Pieces
  <2>2. CASE g = f
    <3>1. Writers(p) = {}
      BY <1>1, <1>3, <1>9, <2>2 DEF AloneAfterOpen
    <3>2. Writers(Path(f))' = {f} /\ pc'[f] = Opened(pc[f]) /\ next'[f] = 1
      BY <1>2, <1>3, <1>7, <3>1 DEF IInv, TypeOK, Path
    <3> QED BY <1>2, <2>2, <3>2 DEF AloneInv, Open, Unopened, Pieces
  <2> QED BY <2>1, <2>2
<1> QED BY <1>4, <1>5, <1>6, <1>8, <1>9 DEF IInv

LEMMA PieceKeepsInv ==
  ASSUME IInv, NEW f \in Fetches, WritePiece(f) PROVE IInv'
<1> DEFINE p == Path(f)
           n == next[f]
<1>1. p \in Blobs /\ p = bytes[f] /\ n \in Pieces /\ f \in Writers(p) /\ Open(f)
  BY CacheAssumption
    DEF IInv, TypeOK, Holds, WritePiece, Path, Open, Writers, Pieces
<1>2. UNCHANGED <<pc, uri, bytes, broken, alone>> /\ next' = [next EXCEPT ![f] = n + 1]
  BY DEF WritePiece
<1>3. file' = [file EXCEPT ![p] = {q \in @ : q[2] # n} \cup {<<p, n>>}]
  BY <1>1 DEF WritePiece
<1>4. TypeOK'
  BY <1>1, <1>2, <1>3, CacheAssumption DEF IInv, TypeOK, Pieces
<1>5. \A g \in Fetches : Holds(g)'
  BY <1>2 DEF IInv, Holds
<1>6. ContentAddressed'
  BY <1>1, <1>3 DEF IInv, TypeOK, ContentAddressed, Whole
<1>7. \A b : Writers(b)' = Writers(b)
  BY <1>2 DEF Writers, Open, Path
<1>8. \A b \in Blobs, i \in Pieces :
        <<b, i>> \in file'[b] <=> <<b, i>> \in file[b] \/ (b = p /\ i = n)
  BY <1>1, <1>3 DEF IInv, TypeOK
<1>9. ASSUME NEW b \in Blobs \ broken' PROVE Untouched(b)' \/ Covered(b)'
  <2>1. CASE Untouched(b)
    <3>1. b # p
      BY <1>1, <2>1 DEF Untouched
    <3> QED BY <1>1, <1>2, <1>3, <1>7, <2>1, <3>1 DEF IInv, TypeOK, Untouched, Path
  <2>2. CASE Covered(b)
    <3>1. ASSUME NEW i \in Pieces, <<b, i>> \notin file[b], ~(b = p /\ i = n)
          PROVE  \E g \in Writers(b)' : next'[g] <= i
      <4>1. PICK g \in Writers(b) : next[g] <= i
        BY <2>2, <3>1 DEF Covered
      <4>2. g = f => b = p
        BY <4>1 DEF Writers
      <4>3. next'[g] = IF g = f THEN n + 1 ELSE next[g]
        BY <1>2, <4>1 DEF IInv, TypeOK, Writers
      <4>4. next'[g] <= i
        BY <1>1, <3>1, <4>1, <4>2, <4>3 DEF Pieces
      <4> QED BY <1>7, <4>1, <4>4
    <3> QED BY <1>8, <1>9, <2>2, <3>1 DEF Covered, Pieces
  <2> QED BY <1>2, <1>9, <2>1, <2>2 DEF IInv
<1>10. ASSUME NEW g \in alone' PROVE AloneInv(g)'
  <2>1. g \in Fetches /\ AloneInv(g) /\ Path(g)' = Path(g) /\ Open(g)' = Open(g)
    BY <1>2, <1>10 DEF IInv, TypeOK, Path, Open
  <2>2. CASE g = f
    <3>1. ASSUME NEW i \in Pieces, i < n + 1 PROVE <<p, i>> \in file'[p]
      BY <1>1, <1>8, <2>1, <2>2, <3>1 DEF AloneInv, Pieces
    <3>2. next'[f] = n + 1
      BY <1>2 DEF IInv, TypeOK
    <3>3. /\ pc[f] # "done"
          /\ Writers(Path(f))' = {f}
      BY <1>1, <1>7, <2>1, <2>2 DEF AloneInv, Open, Path
    <3>4. Path(f)' = p /\ Pieces' = Pieces
      BY <2>1, <2>2 DEF Pieces
    <3>5. \A i \in Pieces : i < next'[f] => <<Path(f)', i>> \in file'[Path(f)']
      BY <3>1, <3>2, <3>4
    <3> QED BY <1>2, <2>1, <2>2, <3>3, <3>4, <3>5 DEF AloneInv, Unopened
  <2>3. CASE g # f /\ (Open(g) \/ pc[g] = "done")
    <3>1. Path(g) # p
      BY <1>1, <2>1, <2>3 DEF AloneInv
    <3>2. file'[Path(g)] = file[Path(g)] /\ next'[g] = next[g]
      BY <1>2, <1>3, <2>1, <2>3, <3>1 DEF IInv, TypeOK, Holds, Path, Open
    <3> QED BY <1>2, <1>7, <2>1, <2>3, <3>2 DEF AloneInv, Unopened, Whole, Pieces
  <2>4. CASE ~Open(g) /\ pc[g] # "done"
    BY <1>2, <2>1, <2>4 DEF AloneInv, Unopened
  <2> QED BY <1>1, <2>2, <2>3, <2>4
<1> QED BY <1>4, <1>5, <1>6, <1>9, <1>10 DEF IInv

\* A writer that fails breaks its file, and only that one.
LEMMA FailKeepsInv ==
  ASSUME IInv, NEW f \in Fetches, WriteFails(f) PROVE IInv'
<1> DEFINE p == Path(f)
<1>1. p \in Blobs /\ Open(f)
  BY DEF IInv, Holds, WriteFails, Path, Open
<1>2. /\ \E x \in {"failed", "dropped"} : pc' = [pc EXCEPT ![f] = x]
      /\ broken' = broken \cup {p}
      /\ UNCHANGED <<uri, bytes, next, file, alone>>
  BY DEF WriteFails
<1>3. TypeOK'
  BY <1>1, <1>2 DEF IInv, TypeOK
<1>4. \A g \in Fetches : Holds(g)'
  BY <1>1, <1>2 DEF IInv, TypeOK, Holds, Unopened, Open
<1>5. ContentAddressed'
  BY <1>2 DEF IInv, ContentAddressed, Whole, Pieces
<1>6. \A b : b # p => Writers(b)' = Writers(b)
  BY <1>2 DEF IInv, TypeOK, Writers, Open, Path
<1>7. ASSUME NEW b \in Blobs \ broken' PROVE Untouched(b)' \/ Covered(b)'
  <2>1. b # p /\ b \notin broken
    BY <1>2
  <2>2. CASE Untouched(b)
    BY <1>2, <1>6, <2>1, <2>2 DEF IInv, TypeOK, Untouched, Path
  <2>3. CASE Covered(b)
    BY <1>2, <1>6, <2>1, <2>3 DEF Covered, Pieces
  <2> QED BY <2>1, <2>2, <2>3 DEF IInv
<1>8. ASSUME NEW g \in alone' PROVE AloneInv(g)'
  <2>1. g \in Fetches /\ AloneInv(g)
    BY <1>2, <1>8 DEF IInv, TypeOK
  <2>2. CASE g = f
    BY <1>2, <2>1, <2>2 DEF IInv, TypeOK, AloneInv, Open, Unopened
  <2>3. CASE g # f /\ (Open(g) \/ pc[g] = "done")
    <3>1. Path(g) # p
      BY <1>1, <2>1, <2>3 DEF AloneInv, Writers
    <3>2. pc'[g] = pc[g] /\ Path(g)' = Path(g)
      BY <1>2, <2>1, <2>3 DEF IInv, TypeOK, Path
    <3> QED BY <1>2, <1>6, <2>1, <3>1, <3>2
          DEF AloneInv, Open, Unopened, Whole, Pieces
  <2>4. CASE g # f /\ ~Open(g) /\ pc[g] # "done"
    BY <1>2, <2>1, <2>4 DEF IInv, TypeOK, AloneInv, Open
  <2> QED BY <2>2, <2>3, <2>4
<1> QED BY <1>3, <1>4, <1>5, <1>7, <1>8 DEF IInv

\* A writer that has written every piece covers none any more.
LEMMA EndKeepsInv ==
  ASSUME IInv, NEW f \in Fetches, WriteEnds(f) PROVE IInv'
<1> DEFINE p == Path(f)
<1>1. p \in Blobs /\ Open(f) /\ f \in Writers(p) /\ next[f] > Chunks
  BY DEF IInv, Holds, WriteEnds, Path, Open, Writers
<1>2. /\ \E x \in {"done", "dropped"} : pc' = [pc EXCEPT ![f] = x]
      /\ UNCHANGED <<uri, bytes, next, file, broken, alone>>
  BY DEF WriteEnds, Closed
<1>3. TypeOK'
  BY <1>2 DEF IInv, TypeOK
<1>4. \A g \in Fetches : Holds(g)'
  BY <1>1, <1>2 DEF IInv, TypeOK, Holds, Unopened, Open
<1>5. ContentAddressed'
  BY <1>2 DEF IInv, ContentAddressed, Whole, Pieces
<1>6. \A b : Writers(b)' = Writers(b) \ {f}
  BY <1>2 DEF IInv, TypeOK, Writers, Open, Path
<1>7. ASSUME NEW b \in Blobs \ broken' PROVE Untouched(b)' \/ Covered(b)'
  <2>1. CASE Untouched(b)
    <3>1. b # p
      BY <1>1, <2>1 DEF Untouched
    <3> QED BY <1>2, <1>6, <2>1, <3>1 DEF IInv, TypeOK, Untouched, Path
  <2>2. CASE Covered(b)
    <3>1. ASSUME NEW i \in Pieces, <<b, i>> \notin file[b]
          PROVE  \E g \in Writers(b)' : next'[g] <= i
      <4>1. PICK g \in Writers(b) : next[g] <= i
        BY <2>2, <3>1 DEF Covered
      <4>2. g # f
        BY <1>1, <4>1, CacheAssumption DEF Pieces, IInv, TypeOK
      <4> QED BY <1>2, <1>6, <4>1, <4>2
    <3> QED BY <1>2, <2>2, <3>1 DEF Covered, Pieces
  <2> QED BY <1>2, <2>1, <2>2 DEF IInv
<1>8. ASSUME NEW g \in alone' PROVE AloneInv(g)'
  <2>1. g \in Fetches /\ AloneInv(g)
    BY <1>2, <1>8 DEF IInv, TypeOK
  <2>2. CASE g = f
    <3>1. Writers(p) = {f} /\ \A i \in Pieces : <<p, i>> \in file[p]
      BY <1>1, <2>1, <2>2, CacheAssumption DEF AloneInv, Pieces, IInv, TypeOK
    <3>2. file[p] = Whole(p)
      BY <1>1, <3>1 DEF IInv, ContentAddressed, Whole
    <3>3. Path(f)' = p /\ Writers(p)' = {} /\ pc'[f] \in {"done", "dropped"}
      BY <1>2, <1>6, <3>1 DEF IInv, TypeOK, Path
    <3> QED BY <1>2, <2>2, <3>2, <3>3 DEF AloneInv, Open, Unopened, Whole, Pieces
  <2>3. CASE g # f
    <3>1. pc'[g] = pc[g] /\ Path(g)' = Path(g)
      BY <1>2, <2>1, <2>3 DEF IInv, TypeOK, Path
    <3>2. Open(g) => Path(g) # p
      BY <1>1, <2>1, <2>3 DEF AloneInv
    <3>3. Open(g) => Writers(Path(g))' = {g}
      BY <1>6, <2>1, <2>3, <3>1 DEF AloneInv
    <3>4. pc[g] = "done" => Writers(Path(g))' = {}
      BY <1>6, <2>1, <3>1 DEF AloneInv
    <3> QED BY <1>2, <2>1, <3>1, <3>3, <3>4 DEF AloneInv, Open, Unopened, Whole, Pieces
  <2> QED BY <2>2, <2>3
<1> QED BY <1>3, <1>4, <1>5, <1>7, <1>8 DEF IInv

\* A crash breaks every file that is open.
LEMMA CrashKeepsInv == IInv /\ Crash => IInv'
<1> SUFFICES ASSUME IInv, Crash PROVE IInv'
  OBVIOUS
<1>1. /\ \A f \in Fetches : pc'[f] = IF Running(f) THEN "dropped" ELSE pc[f]
      /\ \A f \in Fetches : Open(f) => Path(f) \in broken'
      /\ broken \subseteq broken'
      /\ UNCHANGED <<uri, bytes, next, file, alone>>
  BY DEF Crash
<1>2. TypeOK'
  <2>1. pc' \in [Fetches -> {"idle", "resolving", "resolved", "queued", "writing",
                            "detached", "done", "failed", "dropped"}]
    BY DEF IInv, TypeOK, Crash
  <2>2. \A f \in Fetches : Open(f) => Path(f) \in Blobs
    BY DEF IInv, Holds, Open, Path
  <2> QED BY <2>1, <2>2 DEF IInv, TypeOK, Crash
<1>3. \A f \in Fetches : Holds(f)'
  BY <1>1 DEF IInv, TypeOK, Holds, Running, Unopened, Open
<1>4. ContentAddressed'
  BY <1>1 DEF IInv, ContentAddressed, Whole, Pieces
<1>5. \A b : Writers(b)' = {}
  BY <1>1 DEF IInv, Writers, Open, Running
<1>6. ASSUME NEW b \in Blobs \ broken' PROVE Untouched(b)' \/ Covered(b)'
  <2>1. Writers(b) = {} /\ b \notin broken
    BY <1>1, <1>6 DEF Writers
  <2>2. CASE Untouched(b)
    BY <1>1, <1>5, <2>2 DEF Untouched, Path
  <2>3. CASE Covered(b)
    BY <1>1, <2>1, <2>3 DEF Covered, Pieces
  <2> QED BY <2>1, <2>2, <2>3 DEF IInv
<1>7. ASSUME NEW f \in alone' PROVE AloneInv(f)'
  <2>1. f \in Fetches /\ AloneInv(f)
    BY <1>1, <1>7 DEF IInv, TypeOK
  <2> QED BY <1>1, <1>5, <2>1 DEF AloneInv, Running, Open, Unopened, Path, Whole, Pieces
<1> QED BY <1>2, <1>3, <1>4, <1>6, <1>7 DEF IInv

LEMMA StutterKeepsInv == IInv /\ UNCHANGED vars => IInv'
BY DEF vars, IInv, TypeOK, Holds, ContentAddressed, Untouched, Covered, AloneInv,
       Writers, Open, Path, Unopened, Whole, Pieces

------------------------------------------------------------------------------
(* The theorems                                                            *)

\* The strengthening of the properties below is an invariant of the fetches.
THEOREM Invariance == Spec => []IInv
<1>1. IInv /\ [Next]_vars => IInv'
  BY FetchKeepsInv, ResolvedKeepsInv, FetchFailsKeepsInv, OpenKeepsInv, PieceKeepsInv,
     FailKeepsInv, EndKeepsInv, AbandonKeepsInv, CrashKeepsInv, StutterKeepsInv
  DEF Next
<1> QED BY InvInitial, <1>1, PTL DEF Spec

\* Every variable of the model cache has its type.
THEOREM TypeCorrect == Spec => []TypeOK
BY Invariance, PTL DEF IInv

\* However many writers of one file overlap, it is whole once the last of them
\* has closed it, unless a write of it failed or died.
THEOREM FilesEndWhole == Spec => []WholeUnlessBroken
<1>1. IInv => WholeUnlessBroken
  <2> SUFFICES ASSUME IInv, NEW b \in Blobs \ broken, Writers(b) = {}
               PROVE  /\ file[b] \in {{}, Whole(b)}
                      /\ (\E f \in Fetches : pc[f] = "done" /\ Path(f) = b)
                           => file[b] = Whole(b)
    BY DEF WholeUnlessBroken
  <2>1. CASE Untouched(b)
    BY <2>1 DEF Untouched
  <2>2. CASE Covered(b)
    <3>1. Whole(b) \subseteq file[b]
      BY <2>2 DEF Covered, Whole
    <3> QED BY <3>1 DEF IInv, ContentAddressed
  <2> QED BY <2>1, <2>2 DEF IInv
<1> QED BY Invariance, <1>1, PTL

\* A fetch that has its file to itself repairs what a crash has left there.
THEOREM FetchRepairsFile == Spec => []FetchRepairs
<1>1. IInv => FetchRepairs
  BY DEF IInv, AloneInv, FetchRepairs
<1> QED BY Invariance, <1>1, PTL

\* No file ever holds bytes of another content than its name says.
THEOREM FilesHoldTheirContent == Spec => []ContentAddressed
BY Invariance, PTL DEF IInv

\* A piece that is written over a whole file is the piece that was there: the
\* writer holds the content that the file is named after.
LEMMA PieceKeepsWhole ==
  ASSUME IInv, NEW f \in Fetches, WritePiece(f),
         NEW b \in Blobs, file[b] = Whole(b)
  PROVE  file'[b] = Whole(b)
<1>1. Path(f) \in Blobs /\ bytes[f] = Path(f) /\ next[f] \in Pieces
  BY CacheAssumption DEF IInv, TypeOK, Holds, WritePiece, Open, Path, Pieces
<1>2. CASE b = Path(f)
  <2>1. file'[b] = {p \in file[b] : p[2] # next[f]} \cup {<<b, next[f]>>}
    BY <1>1, <1>2 DEF IInv, TypeOK, WritePiece
  <2> QED BY <1>1, <2>1 DEF Whole
<1>3. CASE b # Path(f)
  BY <1>1, <1>3 DEF IInv, TypeOK, WritePiece
<1> QED BY <1>2, <1>3

\* Opening touches one file, and says so.
LEMMA OpenTakesItsOwn ==
  ASSUME IInv, NEW f \in Fetches, OpenTruncated(f),
         NEW b \in Blobs, file[b] = Whole(b), file'[b] # Whole(b)
  PROVE  pc[f] \in Unopened /\ Open(f)' /\ Path(f) = b
<1>1. pc[f] \in Unopened /\ Open(f)'
  BY DEF IInv, TypeOK, OpenTruncated, Opened, Open, Unopened
<1>2. Path(f) = b
  BY DEF IInv, TypeOK, OpenTruncated
<1> QED BY <1>1, <1>2

\* Overlapping and detached writers, I/O errors and crashes leave a whole file
\* whole: only a fetch that opens it takes it away.
THEOREM OnlyOpeningTruncates == Spec => TruncationOnly
<1> DEFINE Step ==
      \A b \in Blobs :
        file[b] = Whole(b) /\ file'[b] # Whole(b) =>
          \E f \in Fetches : pc[f] \in Unopened /\ Open(f)' /\ Path(f) = b
<1>1. IInv /\ [Next]_vars => Step
  <2> SUFFICES ASSUME IInv, [Next]_vars, NEW b \in Blobs,
                      file[b] = Whole(b), file'[b] # Whole(b)
               PROVE  \E f \in Fetches :
                        pc[f] \in Unopened /\ Open(f)' /\ Path(f) = b
    OBVIOUS
  <2>1. file' # file
    BY DEF Whole, Pieces
  <2>2. PICK f \in Fetches : OpenTruncated(f) \/ WritePiece(f)
    BY <2>1 DEF Next, vars, Fetch, Resolved, FetchFails, WriteFails, WriteEnds,
                Abandon, Crash
  <2>3. ~WritePiece(f)
    BY PieceKeepsWhole
  <2> QED BY <2>2, <2>3, OpenTakesItsOwn
<1>2. Spec => [][Step]_vars
  BY Invariance, <1>1, PTL DEF Spec
<1> QED BY <1>2 DEF TruncationOnly

==============================================================================
