# A verification project for tenzro-edge

TLA+ models of the adapters in `crates/tenzro-edge-core`, TLC configurations
that check them on small instances, and TLAPS proofs for all values of their
constants. Paths below are relative to `src/crates/tenzro-edge-core/src/`
unless they begin with `src/`.

Contents: [the system](#the-system), [hard behaviours](#what-is-hard-here),
[the modules](#the-modules), [the runs](#the-runs),
[bounds](#bounds), [fairness](#fairness), [the proofs](#the-proofs),
[disagreements with the documentation](#where-the-code-and-its-documentation-disagree),
[not modelled](#not-modelled), [plan](#plan), [how to run it](#how-to-run-it).

## The system

`tenzro-edge` implements the extension traits of Furcate for the Tenzro
network. Each adapter is a struct with a `TenzroHandle` (a configured
`tenzro_sdk` client) and hardly any state of its own: what makes it correct or
not is how a call is put together from SDK calls, sleeps and file operations,
what it makes of their errors, and what its caller may conclude from the result.

| Component | State | Operations | Talks to |
|---|---|---|---|
| `TenzroBroker` (`broker.rs`) | poll interval, default deadline; a call's task id and start time | `offer` | task marketplace of the node (`post_task`, `get_task`), the clock |
| `TenzroReceiptSink` (`receipt_sink.rs`) | none between calls | `write`, `flush` (does nothing) | `DpopRpc` |
| `DpopRpc` (`dpop_rpc.rs`) | HTTP client, endpoint, JWT, signer, request counter | `call` | the node, directly over HTTP |
| `DpopSigner` (`auth.rs`) | the Ed25519 holder key | `generate`, `from_seed`, `mint_proof` | the clock, the random source |
| `TenzroModelSource` (`model_source.rs`) | the cache directory | `fetch` | the SDK's resolver, the file system |
| `TenzroWorkSettlement` (`work_settlement.rs`) | the payer's address | `open_channel`, `send_micropayment`, `close_channel` | the node's payment channels |
| `TenzroDiscovery` (`discovery.rs`) | poll interval; a stream's position | `start` and the stream it returns | `list_providers`, the clock |
| `TenzroStorage` (`storage_backend.rs`) | none | `put`, `get`, `head`, `delete` | the node's blob store |
| `TenzroRemoteInference` (`remote_inference.rs`) | its id, the default model | `can_serve`, `infer` | the node's models |
| `TenzroAttester` (`attester.rs`) | its id | `sign_receipt`, `sign_digest`, `verify` | the node's signing calls |
| `TenzroAgentRegistry`, `TenzroAgentInvoker` | none | `list`, `search`, `resolve`; `invoke` | the node's agents |
| `map_sdk` in each adapter | none | SDK error to trait error | - |
| `TenzroEdgeConfig`, `TenzroHandle` (`client.rs`) | endpoint, timeout, retries | constructors | the environment, `tenzro_sdk` |
| the command line (`tenzro-edge-cli`) | none | `login`, `status`, `replay` print that they are to come | - |

Interactions inside the repository are few. Every adapter is made from one
`TenzroHandle`, and with it gets the SDK's retries and timeout. Only the receipt
sink does without: it goes through `DpopRpc`, which has its own HTTP client and
asks `DpopSigner` for a fresh proof on every call. The adapters share no memory,
and calls of one adapter run at once, as many as the callers start. They meet on
the node: in the marketplace, on the ledger, in the audit log, in the directory
of providers, and in the cache directory on disk.

What makes each of them correct:

- **broker**: an outcome tells the truth about a task of this very offer; the
  wait is bounded; what settled in time is not missed; the node is not polled
  faster than the interval says.
- **receipt sink**: Ok means that the node has the digest; an error never makes
  the caller drop a receipt that could still be anchored; a retry is never
  refused on account of an earlier attempt.
- **model source**: a file under a digest holds that content, is whole after
  overlapping fetches, and what a crash has left is repaired by the next fetch.
- **settlement**: a refusal has moved nothing; the caller can tell when a second
  payment is safe; amounts arrive to the unit; a receipt is a payment.
- **discovery**: a provider that joined is announced in time and one that left
  is forgotten in time; the stream lasts as long as its consumer wants it.
- **storage**: only whole streams become blobs, and a key reads back what its put
  has told, whatever was retried or broke off.
- **inference**: a prompt that was declined is not served as well; tokens are
  counted without wrapping.
- **attester**: a verification says yes to what the holder of the key that comes
  with the attestation has signed, and to nothing else.
- **agents**: only an error that excludes the delivery says that nothing was
  delivered, and only an agent that is not there is called unreachable.
- **all five**: a node that is not reached is Transient, never a hard failure; the
  environment's word on retries is obeyed; a call ends.

### What is hard here

- *Requests outlive their callers.* A call can be dropped at each of its awaits,
  can time out, and can be retried by the SDK; the node may execute its request
  later, or twice. (`Broker`, `DpopRpc`, `Settlement`, `SdkCall`)
- *Each adapter translates errors by itself*, and the caller acts on the result:
  pays again, falls back, drops a receipt. (`SdkErrors`, `RemoteEffect`)
- *Input may break off*: a stream that fails half way has already been buffered.
  (`Storage`)
- *Answers are snapshots.* A task, a list of providers, an audit log are read at
  one moment and used at another. (`Broker`, `Discovery`)
- *Time is looked at in only a few places.* The deadline of an offer is compared
  between two polls; the sleep of the stream starts when a batch is handed out.
  (`Broker`, `Discovery`)
- *File writes are neither atomic nor exclusive*, and one that has been handed
  to a blocking thread goes on when its future is dropped. (`ModelCache`)
- *Retries need the past forgotten*: a proof's nonce, its time stamp and the key
  it is bound to all outlast the call that minted it. (`DpopRpc`, `ReceiptSink`)
- *Numbers have a width*: amounts are decimal strings on one side and 64 bits on
  the other, tokens are counted in fewer bits than they arrive in, and the
  environment is text. (`Settlement`, `Inference`, `EdgeConfig`)

The list with the line each of these bites at, and the properties that watch it,
is `hazards` in `PROJECT.json`.

## The modules

Names in the modules follow the code: an action is called after the operation or
the step of it that it models, a variable after the local or the field.

| Module | Models | Extends |
|---|---|---|
| `SdkErrors` | the SDK's errors as `map_sdk` matches on them, and what seven adapters make of each | |
| `WorkOffer` | abstract: what `WorkBroker::offer` promises | |
| `Broker` | `TenzroBroker::offer` and the marketplace; implements `WorkOffer` | `SdkErrors` |
| `ReceiptLog` | abstract: what a receipt sink promises to the one that keeps the receipts | |
| `DpopRpc` | `DpopRpc::call`, `DpopSigner::mint_proof`, the node that signs, the network | |
| `ReceiptSink` | `TenzroReceiptSink::write`, its caller, restarts of the process; implements `ReceiptLog` | `DpopRpc` |
| `ModelCache` | `TenzroModelSource::fetch` and the files it writes | |
| `RemoteEffect` | abstract: what a call promises that has its effect on a remote node | |
| `Settlement` | the three operations of `TenzroWorkSettlement`, the SDK's retries, the ledger; implements `RemoteEffect` | `SdkErrors` |
| `Discovery` | `TenzroDiscovery::start`, its stream, the node's directory | |
| `EdgeConfig` | `TenzroEdgeConfig::from_env` and `into_sdk_config` | |
| `SdkCall` | what operations have in common that are one SDK call: the handle, requests and retries, errors, drops | `EdgeConfig`, `SdkErrors` |
| `Storage` | `TenzroStorage` and the node's blobs | `SdkCall` |
| `Inference` | `TenzroRemoteInference` and the node's token count | `SdkCall` |
| `Attester` | `TenzroAttester`, keys and signatures, attestations on their way | `SdkCall` |
| `Agents` | `TenzroAgentRegistry`, `TenzroAgentInvoker` and the node's agents | `SdkCall` |
| `Adapters` | the four above on one handle and one node; implements `RemoteEffect` | the four above |
| `MC...` | constants for TLC | the module of that name |
| `...Proofs` | theorems and their proofs | the module of that name |
| `Sums` | lemmas about sums over finite sets, for `SettlementProofs` | |

### Broker and WorkOffer

One value of `Offers` is one call of `offer`. `pc` says at which await or between
which two statements it stands: `posting` (`post_task`), `checking` (the top of
the loop), `getting` (`get_task`), `sleeping`. `CheckDeadline` and `GetSent` are
the two ways through the comparison at `broker.rs:138`; `GetReturns` is the whole
match on the status, with its inner decode of the output; `Leave` is any way out,
after which the locals are gone. A request of `post_task` may be accepted at any
later time, also after its caller has left, and once for every attempt the SDK
makes (`MarketAccepts`). `GetServed` is the moment at which the node reads the
task; the answer is used later. A status that is not a JSON string reads as the
empty string (`StatusStr`), as `status_str` does.

`WorkOffer` leaves out polling, clock and network: an offer is called, may put
tasks on the marketplace, and returns once, with the state of one of its own
tasks at that moment or with nothing definite. `ImplementsWorkOffer` is the
refinement, with the marketplace's `info` as the abstract status.

### DpopRpc and ReceiptSink

`CallSends` mints a proof with a nonce nobody remembers and sends the request;
the caller waits until `Answered`. Requests stay in `net` until they are lost,
expire or are consumed, and a consumed one may leave a duplicate. `NodeSigns`
needs a proof under the bound key with a nonce not yet seen, and puts the message
in the audit log; its answer may be lost or replaced by the proxy's. `Succeeds`
is the chain of checks at the end of `call`: JSON, status, error member (a null
one counts as an error, as in the code), shape of the result. A 200 without a result, or with one of another shape, is
`OtherShape`; it may come whether the node has signed or not.

`WriteReturns` turns success into Ok and everything else into Transient;
`WriteRejects` is the one place where Rejected is made. What a caller does with
these is external and is part of the model: it keeps Transient receipts and, if
`CallerReplays`, writes them again. `Restart` forgets every call in flight and
makes the signer anew from the seed.

`ReceiptLog` leaves out calls, requests, nonces, keys and restarts: a receipt is
handed over, recorded once or again, and acknowledged once it is on record, or
given up because it can never be. `ImplementsReceiptLog` is the refinement. The
part of the log is played by the node's audit log, the part of the one that hands
over by caller and sink together: that a receipt whose write failed is still
`handed over` is the caller's doing.

### ModelCache

A file is a set of pieces, each tagged with the blob it came from, so that a
partial file, a hole and a mixture of two contents can all be told from a whole
one. `OpenTruncated`, `WritePiece` and `WriteEnds` are the steps of
`tokio::fs::write` on its blocking thread. `queued` and `detached` are writes
whose `fetch` has been dropped before or after the file was opened. A fetch of a
foreign scheme fails at once, as in the code; the digest is taken from what came
and names the file. The history variables `broken` and `alone` are read by
properties only.

### Settlement

A call of any of the three operations is `idle`, `waiting` for the SDK, or
`done`. `Units` is `amount_to_u64`: it yields one number or none. A send without
a channel and an amount that does not parse are refused at once, in that order of
the code, which makes no difference to the result. Every request that the SDK
sends for a call (`Resend`) has a `fate` on the ledger of its own, decided at any
later time; `Answers` lets the caller learn of it only while it waits for that
very request. `KnownChannels` are the ids that an `open_channel` has returned. A
caller sends again for the same work only after an error in `RetryOn`: with
`{"Refused"}` this is the caller that retries only what cannot have been paid.

### Discovery

`Streams` are the streams that `start` has returned. Such a stream moves only while it is
polled, so the consumer is part of the model: a `Prompt` one always takes the
next step at once, another one may let time pass anywhere. `ListSent`,
`ListServed`, `ListReturns` and `ListFails` are `list_providers`, `Yield` hands
out one announcement, `Sleep` and `Wake` are the pause. Time is what is left of
the `timer`, and the age of events, which stops counting at `MaxAge`, one above
every bound a property speaks of.

### SdkErrors

An error is the name of its variant; the text is left out. `Other` stands for the
variants that no `map_sdk` names, so that each goes to the catch-all arm. The
variants that a `map_sdk` names and sends where its catch-all goes
(`SettlementError`, `InferenceError`) are there to show it.

### EdgeConfig and SdkCall

An environment gives each variable a value, `Unset`, `Garbage` or `NotUnicode`,
and `FromEnv` is the set of configurations it yields: one, or none where
`from_env` returns an error. The three `.ok()` of `from_env` take what is not
Unicode for unset (`Number`). `Connect` is `connect_from_env`; every operation
needs the handle it makes.

`pc` of a call is `idle`, `reading` (only `put`: its loop over the stream),
`waiting` (the one await on the SDK) or `done`. `request` is the operation and
what it hands to the SDK. `ErrorReturns` is `.map_err(map_sdk)?` with the
`map_sdk` of the adapter that made the call (`TraitError`). `Abandon` is a future
that is dropped. Below it is the SDK, external: without an answer it sends the
request again as often as the configuration says (`Resend`), or gives up with one
of the errors that stand for a node that was not reached (`GivesUp`). And the
node: each request has a `fate` of its own, decided once and at any time, also
after the caller has gone; the caller learns of it only if it still waits for
that very request (`Answer`). A reply may be replaced by a gateway's error, or
be unreadable (`Serve`).

### Storage, Inference, Attester, Agents and Adapters

- *Storage.* A blob is the beginning of a stream, and its own key and digest:
  both are made from the content. `ReadsChunk`, `ReadFails` and `Publishes` are
  the loop of `put`; `PutReturns` may meet a digest that is not 32 bytes of hex.
  `get` and `head` take keys that a `put` has returned.
- *Inference.* `Infer` declines what is no text completion before anything is
  sent. The node may use a different number of tokens each time it serves.
- *Attester.* A signature is whose key made it and the digest it was made for; a
  `TenzroProof` is a signature and a public key, and travels in the attestation.
  `Verify` takes any attestation of `Presented`: one that a `sign` has returned, one
  with parts altered or put together from several, one that is signed with
  another key or brings another key, one whose proof cannot be read. Only this is
  excluded, that somebody else makes a signature of this node's key. `VerifyServed`
  is checked under the key of the proof (`Holds`), as `attester.rs:114` asks for. The
  two early returns of `verify`, the answer that says no and the error are all there.
- *Agents.* `OfAgent` and `OfSkill` are the descriptors that the lookups make;
  `Invoke` takes a DID that some lookup has found. `Dids` are the node's identities,
  of humans as well (`agent_registry.rs:131`). `agents` are those that have an agent at
  this moment; they come and go (`AgentComes`, `AgentGoes`) without regard to calls.
  `list` finds agents, `search` creators of skills and `resolve` any identity, so that
  what was found need not be there when it is called, or ever. Like the code, the
  model takes an `agent_id`, a `creator_did` and a resolved DID for names of one
  space. `missed`, which only a property reads, are the calls of `invoke` whose agent
  was not there at some moment while they waited.
- *Adapters* puts them on one handle and one node. The adapters' calls share
  nothing else, so that a run may take pairs of calls that can meet.

`RemoteEffect` leaves out requests, answers and errors: a call asks the node one or
more times, each time the effect happens once or never will, also later, and
when the call returns it may claim that the last of them has happened (`done`),
that it never will (`undone`), or nothing. `Claim` gives each result its claim: Ok is
`done`, the refusals are `undone`, and Transient, Failed and a drop claim
nothing. `Settlement` maps to the same specification.

## The runs

| Run | Question | Result |
|---|---|---|
| `broker` | Does one offer, posted up to twice, tell the truth, wait no longer than it may, miss nothing, poll at its pace, return, and implement `WorkOffer`? | holds |
| `broker_deadline` | Does the deadline cap the wait? | violated |
| `receipt_sink` | With two writers, a restart and every fault of the network: does Ok mean logged, is only the unsendable dropped, is no write refused on account of an earlier one, is all of it anchored in the end, and is it an abstract log? | holds |
| `receipt_sink_timeout` | Does a write return if no answer comes? | violated |
| `receipt_sink_offline` | Is a failed receipt sent again without its caller? | violated |
| `model_cache` | Do overlapping, failing, dropped and crashing fetches leave files whole, repairable and under their digest, and does only opening a file take it away? | holds |
| `model_cache_hit` | Does an artefact that was handed out stay whole during a second fetch? | violated |
| `settlement` | Does a refusal move nothing, is work paid for once, is every unit accounted for, is a receipt a payment? | holds |
| `settlement_amount` | Is every integer amount accepted? | violated |
| `discovery` | Are arrivals announced and departures forgotten in time? | holds |
| `adapters` | With broken streams, late, lost, refused and repeated requests, drops and six environments: does each result of storage, inference, attestation and agents tell the truth, is the unreached Transient, does each step bring a call nearer to its end, does each call end, and do they implement `RemoteEffect`? | holds |
| `discovery_ends` | Does the stream last until its consumer drops it? | violated |

Some of the properties need a word on what they do and do not say.

- `BoundedWait` is the bound the code keeps: deadline, one call and one sleep,
  from the end of the post, and one call more from its beginning.
- `NoMissedSettlement` excepts a task that settles within one call and one sleep
  of the deadline: whether that one is seen depends on where the loop stands.
- `OutcomeIsMarketTruth` is about definite outcomes. A deadline, an error and a
  dropped call promise nothing: the task may complete and be charged for. The model
  tells the deadline from a failed task. In the code both are
  `WorkOutcome::Failed` (`broker.rs:139`, `175`) and differ only in the text of the
  reason, so that a caller who matches on the variant cannot tell a task that still
  runs from one that has failed; neither this property nor `ImplementsWorkOffer`
  says that it can.
- `AckedIsLogged` holds although the sink compares nothing: an answer comes on
  the connection of its own request.
- `RetryIsAccepted` is about writes that somebody waits for. It says that the node
  has no ground to refuse them, not that they arrive in time: a request that is
  held up until its proof has expired is refused, and the next write of the
  receipt is under a proof of its own.
- `EventuallyAnchored` assumes a token that stays valid and a seed that is kept.
  With a generated key (`KeyGenerated`, its mutant) every later write is refused.
- `WholeUnlessBroken` is about the moment when nobody has the file open; in
  between it is not whole, which is what `model_cache_hit` shows.
- `TruncationOnly` is what is left of `CachedStaysWhole`: a file that is in use is
  taken away by a fetch that opens it, and by nothing else that may happen to it.
- `RefusedMovesNothing` and `PaidOnce` except requests that the SDK had sent
  again on its own: if the first one was executed and the second refused for want
  of funds, the call comes back as Refused and has paid. The code cannot tell.
  After Transient or Failed a payment may have been made, so nothing is claimed
  of a caller that sends again then.
- `MoneyIsAccounted` counts what the caller wrote, not what the SDK was given, so
  that an amount that is cut down on the way would show.
- `JoinedIsAnnounced` and `LeftIsForgotten` are about prompt consumers. A slow one
  is handed a list of any age.
- `BlobsAreWhole` rests on a node that hands out what the key names: `get` does
  not compare the bytes it is given with the key, and `head` tells of the bytes
  that came.
- `UnreachedIsTransient` is the fail-soft sentence of `lib.rs:27-29`. It is about
  requests that no node has handled and that the SDK ends with an error of the
  transport or a timeout (`GivesUp`); what a node that was reached says no with may
  become a hard error. So may a page of a gateway, if the SDK hands it out as one of
  its other errors: it is then no different from an answer of the node.
- `DeclinedIsNotServed` and `TokensAreCounted` except what the SDK had sent
  before: a prompt that was sent again may have been served, and paid for, twice,
  and the adapter cannot tell.
- `VerifyVouchesForItsKey` says what an Ok of `verify` is worth. Of attestations that
  bring this node's key it is given exactly to those that a `sign` has returned. Of
  those that bring another key it is given to what the holder of that key has
  signed, whoever that is: `verify` hands the key of the attestation to the node and
  compares it with nothing. A caller that means one particular key has to look at it.
- `UnreachableWasAbsent` does not say that what was found can be called. It says that
  an invocation is not answered with Unreachable on account of the link, of a lost or
  repeated request or of an old lookup, but only if its agent was not there at some
  moment while it waited. Of the node it assumes that NotFound is its answer to a
  message for an agent that it does not have, and to no other.
- `EnvironmentIsObeyed` speaks of numbers and of text that is none; a number that is
  too wide for its field is text that is none (`Garbage`), since it fails to parse.
  Of missing variables only `TENZRO_RPC_URL` stops the start; the others have defaults
  (`client.rs:70`, `78`, `86`). A variable that is not Unicode is taken for unset too;
  `client.rs:56-58` speaks of values that fail to parse, so this is no disagreement.
- `CallsReturn` needs both the SDK to give up and the adapters not to wait again.
  `CallsWindDown` is its half that needs no fairness: what may still happen to a
  call (`Left`: chunks, requests and answers to come) becomes less with every
  step that touches it, and no step touches one that has ended.

## Bounds

- `MCBroker`: deadline 3, interval 1, call bound 1. An offer is polled up to four times,
  the deadline can pass in the sleep, in the call and between the two, and
  `PostAttempts = 2` gives an offer two tasks. `ClockIsLongEnough` (an `ASSUME`)
  makes sure that `MaxClock` stops no call that is still active. Offers share only
  the clock, so one is enough for all but the second run.
- `MCReceiptSink`: three receipts, one of which cannot be serialised; the two that can
  be sent have a digest each; two callers; two nonces, which are free again when the
  window has passed; one restart. Nonces that are scarce only hold up a call.
- `MCModelCache`: three fetches, two blobs, files of two pieces: the least with
  which two writers can leave a mixture and a third can follow them.
- `MCSettlement`: one open, two sends for one work, one close, each sent up to
  twice; `U64Max = 2` and amounts 1, 2, 3 and text that is no number; three units
  of funds, so that a channel can be full, short and empty. The sends are
  symmetric: they have one work, and no property of the run is temporal.
- `MCDiscovery`: interval 2, call bound 1, two providers, a prompt and a slow
  consumer. With the bound of `JoinedIsAnnounced` or of `LeftIsForgotten` lowered
  by one unit the run fails, so the instance reaches them.

- `MCAdapters`: two calls, of pairs of operations that can meet: two `put`, or a
  `put` and a `get`, `head` or `delete`; an inference; a `sign` and a `verify`; a
  lookup and an `invoke`. Streams of two chunks, so that one can break off in the
  middle; token counts 1, 2, 3 against `U32Max = 2`; two digests, and a receipt
  that cannot be serialised; this node's key and another; one identity, whose agent
  comes and goes, and one skill of his. Agents stand still beside calls that never
  look at them, and a `verify` waits for the `sign` before it, of which it sees nothing
  but the result (`MCNext`). `DefaultRetries` is 1
  instead of 3 and no number is higher, so that `MaxSends = 2` cuts nothing off: a
  call is sent once or twice, depending on the environment. Six environments: the
  defaults; no retries with a `timeout_ms` that is not Unicode; no retries and no
  signing key; a `max_retries`, and a `timeout_ms`, that is no number; no endpoint.

Deadlock is not checked: in every model all calls may have ended, which is a
state the system may rest in. That a call does not hang is a property of its own
(`OfferReturns`, `EventuallyAnchored`, `CallsReturn`).

## Fairness

- `Broker`: time passes (`Tick`), a call that can go on without waiting does
  (`Local`; the executor runs what is ready), and an SDK call ends (`RpcEnds`; the
  SDK gives every request a timeout and a last retry, `client.rs:47-50`). Nothing
  is assumed of the marketplace: it need not accept, serve or settle. Time does
  not pass while a call is ready, so timing is exact.
- `ReceiptSink`: `ClientFairness` is the executor alone and is all that the
  timeout run assumes. `LinkFairness` adds that time passes, that an unanswered
  write is given up by the transport or the caller, and that a link that keeps
  coming back lets through, for each receipt, some request and some answer. The
  code has no timeout, so the second is an assumption about its surroundings, and
  `receipt_sink_timeout` shows that it is needed.
- `Adapters`: the caller's stream goes on or fails (`Moves`), a call that has its
  answer returns (`Returns`; the executor), and the SDK gives up (`Ends`; its
  timeout and last retry). Nothing is assumed of the node, which need not answer.
- `ModelCache`, `Settlement` and `Discovery` claim safety only. In `Discovery`
  the properties are time bounds: a prompt consumer holds up the clock until it
  has taken its step.

## The proofs

All theorems are about the specifications without fairness, for every value of the
constants that the modules' assumptions allow. Each `...Proofs` module defines a
strengthening `IInv`, proves it of the initial states and of every action, one
lemma each, and takes the properties from it. All of them were model-checked as
invariants before.

- **`BrokerProofs`**: `TypeOK`, `BoundedWait`, `OutcomeIsMarketTruth`,
  `NoMissedSettlement`, `PollsArePaced` and the refinement `ImplementsWorkOffer`.
  `BoundedWait` alone is not inductive: it needs where the call stands in the loop
  and when the call or the sleep in progress ends (`TimeInv`). The truth of an
  outcome needs that a terminal snapshot is still what the marketplace holds
  (`ReplyInv`); `NoMissedSettlement` needs that a task which was open when it was
  polled settled after that poll was sent (`SettleInv`, `LateInv`).
- **`ReceiptSinkProofs`**: `TypeOK`, `AckedIsLogged`, `OnlyUnsendableDropped`,
  `RetryIsAccepted`. The invariant ties a nonce to one message: a request in the
  network and the call with the same nonce carry the same digest (`NetInv`), and a
  call that has an answer with a result has its digest in the log (`CallInv`). For
  `RetryIsAccepted` it says that every proof that is or was under way is of the
  bound key, and that a nonce of a write under way which the node remembers has
  put that write's digest in the log (`RetryInv`). `Implementation` is the
  refinement `ImplementsReceiptLog`; it needs in addition that only receipts that
  were handed over are in the network, and that a write in progress belongs to one
  caller (`HandedInv`).
- **`ModelCacheProofs`**: `TypeOK`, `WholeUnlessBroken`, `FetchRepairs`,
  `ContentAddressed`, `TruncationOnly`. While writers are at work, every piece of
  a file is in place or still to be written by one that has it open (`Covered`),
  and an undisturbed writer has left no hole behind it (`AloneInv`).
  `TruncationOnly` is an action property and follows from `ContentAddressed`: a
  piece that is written over a whole file is the piece that was there.
- **`SettlementProofs`**: `TypeOK`, `RefusedMovesNothing`, `PaidOnce`,
  `ReceiptIsPayment`, `MoneyIsAccounted`. The invariant says that the answer a
  call holds, and the result it made of it, tell the fate of the request it sent
  last (`FateInv`), and that of two sends for one work one has not begun or was
  given back (`WorkInv`). That Refused is made only of missing funds is a lemma
  about `map_sdk` (`ErrorsAreTranslated`). `Implementation` shows that the
  settlement implements `RemoteEffect`. `MoneyIsAccounted` compares what the payer
  had with its wallet and two sums, over the channels and over the calls. Each
  action changes one term of each sum at most, so the proof needs two facts of
  sums, that they are natural numbers and what changing one term does (`SumType`,
  `SumOfChange` in `Sums`), and that a channel which was not opened holds nothing
  (`FundsInv`) and a payment that was sent is over what the caller wrote
  (`AmountInv`). `Sums` proves those facts by the least counterexample: strict
  inclusion of finite sets is well founded, and the subset relation on them is a
  set, so that no theorem with an operator for a parameter is needed. No run
  checks the refinement: on the instance of `settlement` the refinement takes TLC
  longer than all its invariants together.
- **`DiscoveryProofs`**: `TypeOK`, `JoinedIsAnnounced`, `LeftIsForgotten`. The
  invariant adds up the cycle: how long a provider may have been without an
  announcement in each part of it, given what is left of the timer (`SilenceInv`),
  and that a list under way was read while the provider was there or after it had
  joined or left (`SilenceInv`, `GoneInv`).
- **`AdaptersProofs`**: every property of the run `adapters` but `CallsReturn`:
  the eight invariants, the action property `CallsWindDown` and the refinement
  `ImplementsRemoteEffect`. None of the invariants is inductive. The invariant
  says, for each call, how far it stands (`StandInv`), that requests not yet sent
  are open and how many the configuration allows (`SentInv`), that an answer tells
  the fate of the request sent last and an error of refusal means that it is void
  (`AnswerInv`, with `Reply` for what each operation's answer says), and what
  follows for the result (`ResultInv`, `Value`). `VerifyVouchesForItsKey` needs in
  addition that an attestation which brings this node's key and holds is one that a
  `sign` has returned (`VerifyInv`, `PresentedIsOwn`), `TokensAreCounted` that no
  tokens are used before a prompt was served (`UsedInv`). `UnreachableWasAbsent` has
  an invariant of its own (`MissedInv`): who has been told NotFound was missed, and
  nobody else returns Unreachable. `CallsWindDown` has one
  lemma for each step; where a call has an answer and where the SDK may send again
  comes from the same invariant.

Only model-checked: the liveness properties `OfferReturns`, `EventuallyAnchored`
and `CallsReturn`, since the prover does not deal with fairness over enabledness.
Every other property of a run that holds is a theorem.

## Where the code and its documentation disagree

1. `broker.rs:15-17` says the deadline caps the total wait. It is compared only
   between two polls and counts from the end of `post_task` (`broker_deadline`).
2. `client.rs:38` and `47` speak of a per-request timeout. The DPoP client of the
   receipt sink has none (`receipt_sink_timeout`).
3. `src/README.md:131` says that `write` queues a receipt and flushes it on
   reconnect. It keeps nothing and `flush` does nothing; the module's own comment
   leaves the queue to the caller (`receipt_sink_offline`).
4. `model_source.rs:11-12` says that a second fetch of a URI does not use the
   network. It does, and it truncates the file first (`model_cache_hit`).
5. `work_settlement.rs:14-16` says that an amount is saturated to 64 bits. It is
   refused (`settlement_amount`); refusing is the better of the two.
6. `discovery.rs:108-109` says that the stream is infinite. The first error ends
   it (`discovery_ends`).

Two more have no run of their own:

7. `model_source.rs:6-7` and `78` say that the digest is verified. It is computed and
   names the file, but compared with nothing: the digest in the URI is not looked
   at. Whether the wrong bytes can come depends on the SDK's resolver, which is not
   in this repository. `ContentAddressed` holds all the same, since the name is
   made from what came.
8. `src/README.md:133` says that discovery gives an empty stream when Tenzro cannot be
   reached. The stream's first item is then an error, and its last
   (`discovery.rs:111-117`, `ListFails`).

## Not modelled

- Left out of modelled operations: `request_id` (a label nobody reads back),
  HTTP status numbers and header text, `max_price` (handed on unread), the asset,
  counterparty and payer of a payment, the labels and endpoint of an announcement,
  base64, hex and JWS encodings (pure functions with unit tests of their own), the
  text of errors, a system clock before 1970.
- A token that expires: the JWT is fixed when `DpopRpc` is made and never
  refreshed, so that after its expiry every write is Transient.
- Peer ids: providers with an empty id share one `PeerId`; collisions of the
  digest are not considered.
- Of storage, inference, attestation and agents: `can_serve` and the `id`s (they
  change nothing), prompt and text, names, endpoints and meta of descriptors, the
  body of an invocation and the text of its confirmation; a node that hands out
  another blob than was asked for; signatures that are forged.
- Of the configuration: `api_key`, which is handed on unread. Both failures of
  `connect_from_env` leave things as they were.
- Of a price limit: without a `max_price` an offer is posted with `u128::MAX`
  (`broker.rs:112`), which the marketplace alone reads.
- A receipt that the node will never sign is Transient like any other
  (`receipt_sink.rs:142`); whether it holds up others is up to the caller's queue,
  which is not in this repository.
- The command line (it does nothing yet), build and CI.

## Plan

Done, in this order: `SdkErrors`, `WorkOffer` and `Broker`; `DpopRpc` and
`ReceiptSink`; `ModelCache`; `Settlement`; `Discovery`; a proof module for each;
`EdgeConfig`, `SdkCall`, the adapters of one SDK call each and `RemoteEffect`;
the abstract `ReceiptLog`; their proofs.

What is left is little, and the first two wait for the code:

1. A token that expires, once the code refreshes it (`src/README.md:53` promises
   it): then `EventuallyAnchored` should hold without assuming a valid token.
2. A queue inside the sink, once it has one: `QueuedAndFlushed` is the property
   it would have to satisfy.
3. The abstract specifications by themselves: that what a caller is told stays
   true in `WorkOffer`, `ReceiptLog` and `RemoteEffect`, as theorems which the
   refinements then carry over to the detailed modules.

## How to run it

In this directory, with TLC and TLAPS installed:

    tlc -workers 2 -config MCBroker.cfg MCBroker
    tlapm BrokerProofs.tla

and likewise for the other pairs that `PROJECT.json` lists under `runs` and
`theorems`. A definition whose comment begins with "Mutant:" is not part of any
model: it is a plausible mistake in the code, and putting it in the place of the
definition after it makes the property that `PROJECT.json` names fail.
