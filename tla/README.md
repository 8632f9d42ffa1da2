# The rpc-concept bridge in TLA+

A web page calls services of its host (another window, an Electron main process, an iOS or
Android app) over a message channel. This directory models the runtimes at both ends of such a
channel, the channel itself, and the codecs the generator emits for what travels on it. The
modules are translated from the code, TLC checks them on small instances, and TLAPS proves
theorems about them for every instance.

Paths are relative to the root of the repository; `core/` abbreviates
`packages/rpc-core/src/`, `swift/` `packages/rpc-core-swift/Sources/RpcBridge/`, `android/`
`packages/rpc-core-android/src/main/java/com/rpcbridge/`.

## 1. Inventory

| Component | State it keeps | Operations | Modelled by |
|---|---|---|---|
| `RpcClient` (`core/client.ts`) | `closed`, a `StreamManager`, the locals of every pending call | `unary`, `serverStream`, `clientStream`, `bidiStream`, `handleFrame`, abort listener, deadline timer, `close`, transport error, transport close | `RpcClient` |
| `RpcServer` (`core/server.ts`) | `closed`, the service registry, a `StreamManager`, the locals of every `dispatchMethod` | `registerService`, `handleFrame`, `handleOpen`, `dispatchMethod` with four `handleX`, receive iterables, `close`, transport error, transport close | `RpcServer` |
| `Stream`, `StreamManager` (`core/stream.ts`) | state, abort controller, queue, waiter; the map of streams and the id counter | `open`, `setState`, `push*`, `cancel`, `nextItem`, `messages`, `collectUnary`; `createStream`, `registerStream`, `removeStream`, `cancelAll` | `Stream`, and the maps in `RpcClient` and `RpcServer` |
| Frames, codes, patterns (`core/frame.ts`, `errors.ts`, `types.ts`) | none | frame factories and guards, `fromFrame`, JSON conversion | `Frames`; the JSON conversion in `JsonCodec` |
| Transport base, loopback (`core/transport.ts`) | `isOpen`, handler lists, peer | `onFrame`, `onClose`, `send`, dispatch, `close`, `emitError` | `MessageTransport`; as the runtimes see it, `RpcWire` |
| Web and Electron transports (`packages/transport-web`, `packages/transport-electron`) | a port or window, a listener | construct, receive, filter, close, close event of a port | `MessageTransport` |
| iOS host (`swift/Server.swift`, `WKWebViewTransport.swift`, `ViewController.swift` of the demo) | a map of streams behind a lock, a task per stream | four frame handlers, `dispatchToHandler`, `cancelAll`; `sendFrame`, script messages, `tearDown` | `SwiftHost` |
| Android host (`android/RpcBridgeServer.kt`, `NativeBridgeTransport.kt`, `ProtobufHelpers.kt`, `MainActivity.kt` of the demo) | a concurrent map, a channel and a coroutine per stream, a scope | four frame handlers, the coroutine of a stream, `close`; `onReceiveFromWebView`, `sendToWebView`, `close`; `onDestroy` | `KotlinHost` |
| Native web view transport (`packages/transport-native`) | a global callback | `sendRaw` on both platforms, the callback | `NativePage` |
| Code generator (`packages/codegen`) | none: a sequential program | parse, resolve, generate | the codecs it emits in `JsonCodec`; its native dispatchers in `SwiftHost` and `KotlinHost` |
| Frame schema, demos, playground, e2e | | | not modelled |

**Interaction.** The application calls the client; the client posts frames to its transport;
the host's transport dispatches them to the server, which puts requests into a stream; a handler
that awaits a request resumes later; its responses travel the same way back. The two ends share
nothing but the two directions of the channel. Inside one end everything shares the map of
streams: the frame handler, the abort listeners, the timers, `close` and every suspended call.

**What is hard.** In TypeScript a call is many turns of the event loop, and between any two of
them frames, aborts, timers, closes and other calls may run. On a native host a stream is served
by a thread of its own, which looks at the stream in one step and sends in another, while the
thread that handles frames cancels it and the main thread shuts the host down. A stream has five
ways to end (CLOSE, ERROR, CANCEL, deadline, disconnection), several at once, and all must give
back the same things: a place in the map, a timer, an abort listener, a request loop, a task. A
page may be loaded again and count its streams from 1 while the host still serves the old ones.
Frames of an iOS host may overtake each other. And a field of a message passes through up to
four conversions that were written for three languages. `PROJECT.json` lists the hazards at
their lines.

**What makes the components correct.** Streams lose no item and strand no consumer. Requests and
responses arrive in order, once, and completely when the end is announced. The frames of a stream
keep the protocol's order, and a side that is finished is silent. Nothing is left in the maps, and
nothing that is served is missing from them. Cancellations touch the call they are for. Calls
settle and handlers end while the connection lives; a deadline bounds a call whatever the rest of
the world does. Handlers of a transport miss no frame. A host reads what the page wrote.

## 2. Modules

```
Frames <- Stream <- RpcWire <- RpcClient \
                          \ <- RpcServer -- RpcBridge <- RpcProperties <- RpcRefinement <- MCRpcBridge
                                                               |             (RpcContract)
                       StreamProofs <---- RpcProofs <- LifecycleProofs <- WireProofs <- OrderProofs
                                                                          (and RpcRefinement)

Frames <- NativePage <- NativeHost <- HostProperties (HostContract)
                            |              |
                            | SwiftHost    +-- NativeHosts <- MCNativeHosts
                            + KotlinHost  /              |- HostProofs

MessageTransport <- TransportProofs          JsonCodec <- CodecEcho <- MCCodecEcho
                                                              |- CodecProofs
```

### The TypeScript runtime

* **Frames**: the six frame bodies, the status codes, the method patterns. A method name is
  what it finds in the registry: a handler of some pattern, nothing (`UNREGISTERED`), or no
  slash to split at (`MALFORMED`). Payload `n` of a direction is the n-th message sent in it.
* **Stream**: the class as a value and its methods as operators. `waiter` and `queue` are the
  fields; `hand` is the item a promise of `nextItem` was resolved with and whose continuation
  has not run. That gap is where a microtask queue lets others in.
* **RpcWire**: one FIFO of frames per direction and an open flag per side. A frame posted
  before its sender closes still arrives; frames on the way to a side that closes are dropped.
  `Loopback` chooses what a send to a closed peer does: throw (`LoopbackTransport.sendRaw`) or
  vanish (ports, web view bridges).
* **RpcClient**, **RpcServer**: one action per turn of the event loop. An async function is cut
  at its awaits, and `pc` names the await it stands at. `settle` is the hop between a throw or
  return in an inner async function and the `catch` and `finally` of the outer one. All that a
  handler does in one turn is one action: OPEN, MESSAGE and HALF_CLOSE of a single-request call
  are posted together, and a frame handler's `cancelAll` is one step.
* **RpcBridge**: one client, one server, one pair of transports; `Next`, the fairness
  conditions and `Quiescent`, the only state in which the whole may stop.
* **RpcProperties**: what is checked and proved, and what the documents say.
* **RpcContract**: the abstract specification, with neither frames nor queues nor states: a call
  is a sequence of requests one way and of responses the other. `TellEnd` and `Resolve` carry
  the promises: a handler is told of the end only after the last request, a call resolves only
  after the last response.
* **RpcRefinement**: the mapping from the runtime's variables to the contract's, and
  `ImplementsContract`.
* **MCRpcBridge**: the sets of calls, signals and deadlines the runs use.

### The native hosts

* **NativePage**: the page of a native host, seen from the host: the frames a call of each
  pattern sends, aborts, deadlines and consumers that leave, a reload, and what a stream of the
  page hears. `platform` says whose web view it is. A send on Android returns when the bridge
  thread has handled the frame (a `@JavascriptInterface` call), so the page stands still
  meanwhile (`MayAct`); on iOS it is a message to the main actor. The way back differs too:
  posted script calls arrive in order, the tasks an iOS host sends each frame from do not
  (`MayArrive`).
* **NativeHost**: what the two servers share, the map, the objects and what they send.
* **SwiftHost**: frames are handled on the main actor; `dispatchToHandler` and the generated
  dispatcher run elsewhere, one action for each look at shared state.
* **KotlinHost**: three kinds of threads: `bridge` is where the WebView's bridge thread stands
  inside `handleOpen` or `handleCancel`, `pc` where the coroutine of a stream stands, `activity`
  where the main thread stands in `onDestroy`.
* **HostContract**: what any native host promises of a stream, without threads, tasks, maps or
  states. **HostProperties** instantiates it and states what both hosts owe the page.
* **NativeHosts**: the page with either host. **MCNativeHosts**: the calls the runs make.

### Channel and codecs

* **MessageTransport**: two ends of a port, of an Electron port pair, or of two windows. An end
  runs one turn at a time, but a turn calls one handler after the other, and each may
  unsubscribe, register, send or close before the next is called.
* **JsonCodec**: what the generated codecs of TypeScript, Kotlin and Swift make of a field, by
  its type and label, and what the frame around it does to JSON. A message is one of its fields.
* **CodecEcho**: a field goes to a host and comes back. **MCCodecEcho**: the `json` options.

Proof modules are described in section 5.

Correspondence, by example. `SendRequest` of `RpcClient` is the body of the `for await` over
`requests` in `clientStream` and `bidiStream`: its three disjuncts are the `break` for CANCELLED
and ERROR, the `send`, and a `send` that throws. `HandlerFinish` is the code of the four
`handleX` after the handler returned, with the state check and all the frames it sends.
`CheckItem`, `CheckCancellation` and `SendItem` of `SwiftHost` are three consecutive lines of
`dispatchToHandler` between which the main actor may handle a CANCEL. `SweepOne` of `KotlinHost`
is the body of the loop in `close()`, which visits entries that were there at the start and
perhaps later ones, as an iterator of a concurrent map does. `EndClose` of `MessageTransport`
empties the lists after the loop of `close()`. The full map is in `PROJECT.json`.

Definitions introduced as plausible slips (`PushKeepsWaiter`, `StopsNever`, `CalledLive`, ...)
are used by nothing: each is a wrong version of its neighbour, kept so that it can be put in its
place to see the property that guards against it fail.

### What the models leave out or widen

* The order of microtasks is not modelled: any continuation that may run may run next. This
  allows more interleavings than the engine has, so safety results carry over.
* `close()` and a close of the transport leave the same state of a runtime behind and are one
  action of `RpcClient` and `RpcServer`.
* A client never sends ERROR and a server never sends CANCEL. The TypeScript receivers handle
  both, and `ClientReceive` and `ServerReceive` keep those branches; the Swift handler of a
  client's ERROR is left out.
* Handlers are sequential: they run or await one request. `throw()` on generators, `return()`
  while a `next()` is pending, and two concurrent `next()` are not modelled.
* Services are registered before calls are made.
* An uncloneable payload is `StartFails` for the request of a single-request call,
  `RequestsThrow` for a streamed request and `HandlerThrow` for a response.
* Codes of errors that are not `RpcError`s are one value, `LocalError`.
* In the native modules the page is the frames it sends. What `RpcClient` does inside is modelled
  by `RpcClient`, and the two agree on the points that matter to a host: a request loop goes on
  after CLOSE, an abort sends CANCEL twice, a deadline sends nothing.
* `FinishCancel` joins `cancel()` of the job and `remove` of the id: only the coroutine itself,
  which removes the same id, could come between them.
* A wire frame of the native modules carries the call it belongs to as well as its id. No guard
  reads it; it is there to say whose response was heard after a reload.
* Numbers are classes of values (zero, one, a small one, one above 2^53), text is ASCII, Latin-1
  or beyond, and integer types are one narrow signed, one narrow unsigned and one wide.

## 3. Runs

| Run | Module and bounds | Shows | Distinct states |
|---|---|---|---|
| `one_call` | `MCRpcBridge`: 1 call of each pattern, armed or aborted signal, deadline, early return, 2 requests, 2 responses, 1 fault | every safety invariant but `CancellationHasCause`, both silence properties, the contract | 1.5 M |
| `loopback` | the same module: every pair of pattern and method, armed signal, 2 requests, 2 responses, 1 fault, sends to a closed peer throw | wake-ups, order of responses, no leak, silent server and contract when sends throw anywhere | 818 k |
| `two_calls` | 2 unary or server-streaming calls, abortable, no fault | calls do not disturb each other, cancellations have a cause; no deadlock | 662 k |
| `settles` | 1 abortable call, every pair of pattern and method, no fault, fair | calls settle, handlers end; no deadlock | 85 k |
| `deadline` | 1 call with any signal, with a deadline or without, 1 request, 1 response, 1 fault, only the event loop fair | a deadline settles a unary call by itself; a rejected call frees its handler | 374 k |
| `native_host` | `MCNativeHosts`: 1 call of each pattern or to nothing, both platforms, 2 requests, 2 responses, cut calls and unknown bodies on iOS, a shutdown, fair | the contract, silence after a cancellation, the map, no answer from part of the requests, every call answered, every task ended | 291 k |
| `native_reload` | 2 unary calls, 2 loads of the page, both platforms | the map within and across loads, every call hears its own responses, on Android in order | 1.05 M |
| `link` | `MessageTransport`: the three kinds of channel, 2 frames from each end, one more handler at the host, fair | nobody misses a frame, no close handler is called twice, nothing is lost, an Electron host hears that its page went | 1.13 M |
| `codec` | `MCCodecEcho`: every type, label and value, three hosts, all four settings of the `json` options, repeated fields up to 3 | where the codecs agree; absent fields take defaults | 29 k |
| `deadline_strands_server` | client-streaming call with deadline | finding 1 | |
| `android_unknown_cancels` | 1 call on Android, unknown bodies | finding 2 | |
| `codec_oneof_bytes` | codecs on, one element | finding 3 | |

**Why the bounds are enough to be interesting.** A signal that is armed need not be aborted and a
timer need not fire, so in a safety run a call with both behaves in every way a call without them
does; `one_call` therefore makes only calls with a signal and a deadline, and `loopback`, which
has no deadlines, only calls with an armed signal. The runs that check deadlock or liveness also
make calls without a signal, where nothing can abort. Two messages per direction distinguish
order, loss, duplication and "all of them"; one fault (a close or a transport error of either
side, or a request that throws) can fall between any two steps. One call has up to seven
independent actors of its own (request loop, response loop, abort, timer, handler, and both frame
handlers). What is shared between calls (the maps, the counter, the wires) needs a second call,
which `two_calls` adds.

On a native host one call meets every thread there is: frame handling, task, provider, page and
shutdown. A second call and a second load are what it takes for an id to be used twice, which
`native_reload` adds; it makes unary calls, whose frames and steps are those the other patterns
share. The calls are made with the host's own pattern: the page sends the same frames for a unary
call as for a server stream and for a client stream as for a bidirectional one. `Newer` lets the
page of a platform send a body the host does not know, while nothing else is on the way; finding 2
is why it does so only on iOS where properties are to hold. In `link` the ends are alike, so one of
them (`Observed`) may have a second handler; noise is sent while the wire is empty. What the bounds
cannot show, for the properties that matter most, section 5 proves.

**Deadlock.** `two_calls` and `settles` check that the system stops only when everything is
settled (`Terminated`). The other passing runs do not, because their systems may really stop:
after a fault, an early return or a deadline a handler may wait for requests for ever (the
`partial_failure` hazards of `PROJECT.json`), a host that is shut down is quiet, a page that is
gone sends nothing more, and an echo is over when it is over.

## 4. Fairness

**Runtime** (`RpcBridge`). `Runtime` is the event loop: a posted frame is dispatched, a resolved
promise's continuation runs, a timer fires. It is weak fairness of each, which any JavaScript
engine and any of the channels gives. `Application` says that an application that iterates keeps
asking and that its request iterable ends; `Handlers` that a handler that runs finishes. These are
assumptions about the users of the library, and only `settles` makes them. Nothing owes a close,
an error, an abort, a throw or an early return. Weak fairness is per call, so one call cannot be
starved by another. `DeadlineBoundsUnary` and `RejectionFreesHandler` hold under `Runtime` alone.

**Native hosts** (`FairSpec` of `NativeHosts`). Weak fairness of the thread that handles frames,
of the delivery of frames to the page, of an `onDestroy` that has begun, of the end of a call's
requests and of the executor that runs a task. A provider that is asked returns at last: strong
fairness, per call, because a provider that still takes requests or yields responses is
interrupted in returning. Nothing owes an abort, a reload or a shutdown. `Answered` says of a call
that stays that it is told CLOSE or ERROR unless the host is shut down first, `ShutDownEndsTasks`
that after a shutdown no task is left.

**Channel** (`Fairness` of `MessageTransport`). The turns of an end that lives end, what has
arrived is taken, and the close event of a port is delivered. Nothing owes a send, a close or a
crash.

## 5. Proofs

Proved with TLAPS, for every value of the constants. The assumptions are the named ones on the
constants (`WireAssumption`, `ClientAssumption`, `ServerAssumption`, `TransportAssumption`,
`MaxRepeatedAssumption`, `HostsAssumption`, `PageAssumption`, `PlatformsAssumption`), which only
give them their types.

| Theorem | Module | States |
|---|---|---|
| `TypeCorrect` | `RpcProofs` | `Spec => []TypeOK` |
| `NoWakeupIsLost` | `RpcProofs` | `Spec => []NoLostWakeup` |
| `NothingLeaks` | `LifecycleProofs` | `Spec => []NoStreamLeak` |
| `DoneCallsAreSilent` | `LifecycleProofs` | `Spec => ClientSilentWhenDone` |
| `FramesKeepOrder` | `OrderProofs` | `Spec => []FrameOrder` |
| `RequestsArriveInOrder` | `OrderProofs` | `Spec => []RequestsInOrder` |
| `ResponsesArriveInOrder` | `OrderProofs` | `Spec => []ResponsesInOrder` |
| `CancellationsHaveCauses` | `OrderProofs` | `Spec => []CancellationHasCause` |
| `OverIsSilent` | `OrderProofs` | `Spec => ServerSilentWhenOver` |
| `BridgeMeetsContract` | `OrderProofs` | `Spec => ImplementsContract` |
| `HostTypes` | `HostProofs` | `Spec => []TypeOK` |
| `CancelledFallsSilent` | `HostProofs` | `Spec => []CancelSilences` |
| `ListedStaysLive` | `HostProofs` | `Spec => []ListedIsLive` |
| `LiveStaysListed` | `HostProofs` | `Spec => []LiveIsListed` |
| `PartialStaysUnanswered` | `HostProofs` | `Spec => []PartialNeverAnswered` |
| `OwnResponsesHeard` | `HostProofs` | `Spec => []HearsOwn` |
| `HeardInOrder` | `HostProofs` | `Spec => []HearsInOrder` |
| `NobodyMissesAFrame` | `TransportProofs` | `Spec => []HearsWhatIsDue` |
| `ToldOnce` | `TransportProofs` | `Spec => []ClosedOnce` |
| `ChannelTypes` | `TransportProofs` | `Spec => []TypeOK` |
| `PortsLoseNothing` | `TransportProofs` | `Spec => []NothingLost` |
| `PagesAlwaysAgree` | `CodecProofs` | `Spec => []PagesAgree` |
| `AndroidAlwaysAgrees` | `CodecProofs` | `Spec => []AndroidAgrees` |
| `IosAlwaysAgrees` | `CodecProofs` | `Spec => []IosAgrees` |
| `AbsentFieldsTakeDefaults` | `CodecProofs` | `Spec => []AbsentTakesDefault` |

**Runtime, first invariant, `IInv`.** `StreamProofs` shows that every method of `Stream` keeps a
stream `Sound`: it is typed and `Suspended` (a suspended coroutine is the waiter or has its item,
never both, and nobody waits while items are queued). `IInv` says that every stream of either side
is sound for the `pc` of its consumer. It is `TypeOK` and `NoLostWakeup` split by the side that
owns the variables, with one strengthening: a `clientStream` whose request loop runs stands in that
loop (`GoodCall`). Without it the loop's end could move a call that already awaits its response and
register it a second time. One lemma per action; a step of a side restores only its own part and
the wires.

**Runtime, second invariant, `Tidy`.** For the life of calls `IInv` says too little: nothing in it
stops a settled call from still having a timer. `Tidy` adds that a call that has not started or is
settled has no request loop, no armed signal and no timer (`LetGo`), that ids not handed out yet
belong to no call, and that neither map holds a call that is over. The first conjunct makes it
impossible for a settled call to act at all; the second is what makes `createStream` hand out an id
nobody holds. `NothingLeaks` is the third; `DoneCallsAreSilent` follows from the first, because
every step that posts frames to the server is a step of a call that is not settled, and posts that
call's frames only.

**Runtime, third invariant, `Bridge`.** What is on the wires was missing so far. `Life`
(`WireProofs`) says that the frames of each stream on a wire are in the protocol's order
(`Wires`), what a frame that is under way implies of its sender (`Asks`, `Replies`: HALF_CLOSE that
the requests are over, CLOSE or ERROR that the handler is), that nothing exists of a call that has
not started or whose OPEN is still under way (`Fresh`), and what the state of a stream implies of
its handler (`Alive`). `Requests` and `Responses` (`OrderProofs`) follow a direction from the
sender's counter to the receiver (`Flow` in `StreamProofs`): while the receiver is open, what it
was given, what its stream holds and what the wire carries to it are the messages `1, ..., sent`,
each once and in order, and an end is behind all of them and only there when the sender is over.
`Causes` carries a cancellation back to what brought it about. Each of them is shown to survive a
few shapes of steps (a call moves, a handler moves, a side takes a frame, a side ends), and the
lemmas about `Flow` say what appending to a wire, taking from its head and giving an item to the
consumer do to it. No induction over sequences is needed: `Run` compares positions and numbers and
folds nothing.

**Refinement.** `BridgeMeetsContract` is the whole specification, not a step lemma:
`Spec => ImplementsContract`. Most steps change nothing the contract sees. The rest are a start, a
request, a dispatch, a request taken, a response, a cancellation, an end told or an outcome, and
the two contract actions with a guard that is not local, `TellEnd` and `Resolve`, get theirs from
the last conjuncts of `Requests` and `Responses`.

**Native hosts, `HostInv`.** Both hosts share one invariant, with a part for each thing that
threads share: the page (`Paged`), the frames on either way (`ToHost`, `ToPage`), the map
(`Listed`), the threads of an Android host (`Threads`) and the tasks (`Tasks`), where a task is
`SwiftGood` or `KotlinGood`. The last two are the heart: they say of a cancelled stream how many
frames may still go out from the place where its task stands, which is why `CancelSilences` is
inductive at all, and that place counts one look at the state and one send apart. Every step of
either host has one of five shapes (`HostSteps`): a task goes on (`TaskMove`), a frame touches one
task (`Touch`), no task moves (`Still`), the host ends (`Shut`), or the page moves (`PageNext`); an
invariant is shown to survive the shapes, not thirty actions. `LiveIsListed` and
`PartialNeverAnswered` (with `Whole`, what a task that was told of its end implies) are added to
`HostInv` and hold within one load, because there an id belongs to one call (`OwnIds`).

**Native hosts, what is heard.** `AllHeard` says of each call that the responses it has heard and
those on the way are among those its task has made, none of them there twice (`Once`), which
survives frames that overtake each other. On Android, where the first frame is the next to arrive,
it adds that what is heard is `1, 2, ..., k`, that the frames on the way go on from there in
order with the end behind them, and that for a call that still listens nothing is missing
(`InLine`). The steps of the host only put one frame behind the others (`Tells`), and the page
only takes one out.

**Channel, `Good`.** Every step changes one end, so the invariant is about one transport at a time
and says where its two loops stand. Within a turn the handlers still to be called lack exactly the
frame of the turn, and the others lack nothing (`Hears`). Within `close()` the handlers passed have
been told once and the others never; before it nobody has been told (`Closes`). Both need that the
lists have no duplicates: a handler registered twice would be owed a frame twice. Given that, a
handler list may change in any way in the middle of a turn without disturbing `Hears`, because the
loop goes through its copy; and appending to the list of close handlers leaves those passed passed.

**Channel, `FlowInv`.** `NothingLost` needs the wire as well. `FlowInv` adds its type, that an open
transport has its runtime on its list of frame handlers (`Attends`: nobody can unsubscribe it, and
`close()`, which empties the list, comes after `isOpen` is unset), and that the frames due to the
runtime are `1, ..., k` with `k + 1, ...` on the way in order (`Flows`). A port that nothing listens
to yet keeps what arrives, so both hold before there is a transport. As in `Bridge`, `Carried`
compares positions and numbers: the frame at the head of the wire is the least of those under way,
hence `k + 1`. `NothingLost` was first stated with `SelectSeq`, about which nothing can be proved
here; it is now stated with `Carried`, which says the same without recursion.

**Codecs.** An echo is a few steps, and the invariants (`EchoInv`, `KtInv`, `SwiftInv`, `OldInv`)
say what each has put where. The work is in the round trip. A value is a function from `1..n` to
the data of its type; what the encoder makes of a type the decoder takes for that type; and the
zero that is left out of a plain field is the default its absence is read as. The theorems hold for
repeated fields of any length; `PagesAlwaysAgree` with codecs or without, but needs both ends to
agree on it. For a native host the bridge is in between, so a datum is followed through it once
each way (`KtHeardDatum`, `KtSaidDatum`, and the same for Swift); these lemmas are where the
exceptions in `AndroidAgrees` and `IosAgrees` are used. What an Android host sends is, after
parsing, exactly what the page's encoder would have written. An iOS host writes zeros and numbers
where the page writes nothing and strings, so its way back is a case analysis of its own, and
`SwiftHeld` says where it holds something else than the value: nil for empty bytes.

**Only model-checked.** Liveness under fairness is out of the prover's reach (`CallsSettle`,
`HandlersEnd`, `DeadlineBoundsUnary`, `RejectionFreesHandler`, `Answered`, `ShutDownEndsTasks`,
`HostLearns`). The refinement of `HostContract` by the native hosts is within its reach and not
proved. Every other property that a passing run checks is a theorem.

## 6. Findings

Each is a run whose property states what a document or comment says, and which TLC violates.

1. **`deadline_strands_server`** (`core/client.ts:286`). The timer sets ERROR before it calls
   `cancelStream`, which sends nothing in that state, and the request loop then skips HALF_CLOSE.
   The handler of a streaming call waits for requests that never come.
2. **`android_unknown_cancels`** (`android/ProtobufHelpers.kt:100`). A body the Android host does
   not know is decoded as CANCEL, so the stream is cancelled. `docs/COMPATIBILITY.md:25` says that
   receivers must ignore it.
3. **`codec_oneof_bytes`** (`packages/codegen/src/gen-typescript.ts:367`). The member of a oneof is
   put into the JSON object as it is: a byte array becomes an object with numbered keys, where the
   comment above promises the proto3 JSON mapping.

Seen while modelling, and visible in the models, without a run of their own:

* `core/client.ts:177`: the request loop of `bidiStream` stops for CANCELLED and ERROR only and
  goes on sending after the server's CLOSE; `docs/PROTOCOL.md:108` forbids frames after CLOSE "by
  either side".
* `core/client.ts:274`: an abort sends CANCEL from the listener and again from the `catch` clause.
  `docs/ARCHITECTURE.md:315`: "No further frames should be sent on a cancelled stream."
* `core/client.ts:220`: a CLOSE that is under way when a call is aborted makes the cancelled
  stream a closed one.
* `core/client.ts:135`: a `clientStream` whose own request iterable is silent notices a
  disconnection only when the iterable moves; `docs/COMPATIBILITY.md:90` promises a rejection.
* `ViewController.swift:95` of the iOS demo: every outgoing frame is sent from a task of its own,
  so responses may overtake each other and CLOSE may overtake responses, where
  `docs/TRADEOFFS.md:63` has frames in order. `HearsInOrder` is therefore stated for Android.
* `swift/Server.swift:250`: a method its registered service does not have is answered INTERNAL;
  `docs/COMPATIBILITY.md:59` says UNIMPLEMENTED.
* `swift/Server.swift:194`: after a reload, a call that is refused as a duplicate has sent its
  HALF_CLOSE under an id the stream of an earlier load still has, and `handleHalfClose` (276) gives
  it to that stream. `PartialNeverAnswered` is stated within one load.
* `android/RpcBridgeServer.kt:107`: an id that is still served is overwritten after a reload, so
  two tasks answer under one id. `HearsOwn` and `LiveIsListed` are stated within one load.
* Swift writes 64-bit integers as JSON numbers, a Kotlin `UInt` becomes a string, `AnyCodable`
  (`swift/Frame.swift:53`) turns 0 and 1 into booleans, `btoa` takes text for Latin-1 where the
  Android host takes it for UTF-8 (`native-webview-transport.ts:91`), and the playground makes its
  clients without the `json` option (`setup-client.ts:40`). These are the exclusions in the
  premises of `AndroidAgrees`, `IosAgrees` and `PagesAgree`.

## 7. Not modelled, and what could come next

* **Refinement of `HostContract`**, within one load of the page, step by step: `HostInv` and the
  shapes of `HostSteps` are what it starts from; it needs of the requests on the way to a task what
  `InLine` says of the responses.
* **The generator's own algorithms** (`parser.ts`, `cli.ts`, and in the three back ends name
  conversion, import resolution and the text they print). It is a sequential program whose result
  is text; what matters of that text at run time, the codecs and the dispatchers, is modelled.
* **Set-up of channels**: how a port reaches the other side before a transport is built on it, and
  the warnings of the native transport when there is no host.
* **Parsing of malformed frames** beyond what becomes of them: text that does not parse goes to the
  error handlers, an unknown body is ignored or, on Android, is finding 2.
* **Demos, mocks, playground, the proto schema, logging**: they use the runtime and add no logic
  the components depend on. What the demo hosts do add (`onDestroy`, the view that is covered, the
  frames sent from tasks) is in `KotlinHost`, `NativePage` and `SwiftHost`.
