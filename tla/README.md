# Formal models of the gateway

TLA+ specifications of the LLM gateway in this repository, the TLC
configurations that check them on small instances, and machine-checked proofs
(TLAPS) of what matters most. Everything is translated from the Python source;
`PROJECT.json` maps each definition to the lines it stands for.

## 1. The system

A request travels

    client -> edge (ASGI pass-through, picks gateway or backup)
           -> gateway routes (chat / anthropic / responses)
           -> FailoverAdapter (breaker, backup chain, daily budget)
           -> ZenDirectAdapter (walk over sibling buckets)
           -> EgressPool.acquire  -> a lease on one egress ("bucket")
           -> bun child or httpx -> CONNECT tunnel of the device's egress agent
           -> the free upstream, seen from that device's public address

and the outcome travels back through `EgressPool.release`, which benches the
bucket, and through the rotator's observer, which may have the device's ONT
rebooted for a new address. The gateway is one asyncio loop: the code between two
awaits is one atomic step. The ESP32 adapter is the only threaded part.

### Inventory

| component | state | operations | interacts with | hard behaviour | what makes it correct |
|---|---|---|---|---|---|
| **Egress pool** `egress/pool.py`, `models.py` | per bucket: in-flight count, failure streak, cordon and its reason, cooldown, health, rotating flag, recorded address, soft-failure streak; session bindings; probe clients | `acquire` (with a sleep at the cap), `release`, `abandon`, probe loop, `mark_rotating`, `apply_rotation_success` | called by the zen adapter and the rotator; calls the observer; reads the agents' `/healthz` | a queued request decides on what it read before its sleep; verdicts of parallel attempts in any order; probes and rotations in between | slots exact, a benched bucket silent, no bench cut short, lifts only on evidence, one conversation on one address |
| **Egress rotator** `egress/rotate.py` | one task and one retry timer per bucket | `on_release`, `request_rotation`, the task, `_retry_later`, `aclose` | pool (flag, success), counters, agent (`POST /rotate`) | flag and task are two records of one fact; retries race with admin requests, rollover and shutdown | flag iff task, every rotation ends, reboots bounded and spaced, failures retried without traffic |
| **Egress counters** `egress/counters.py` | per bucket and window: meter, latch, attempts, last result; snapshot file | `record`, `should_rotate_*`, `note_rotation_*`, `load`, `_save` | rotator | lazy rollover, restarts, crash between two saves | a latch loses its owner only with the process; the budget survives restarts |
| **Device agent** `src/egress-agent` | address, last probe, tunnel count | CONNECT tunnels, `/healthz`, `/rotate`, probe loop, bounded shutdown | pool and rotator over HTTP; ONTs | an old probe answers after the reset; two rotations at once; a client that leaves while it is answered | ready tells the truth both ways, counts exact, one reset per request |
| **Zen adapter** `upstreams/zen` | per request: attempt, tried buckets, lease | walk over at most 4 buckets, classify the answer, hand the lease to the stream | pool, bun transport | each exit path must return the lease once | every lease returned, no bucket tried twice |
| **Failover adapter** `upstreams/failover.py` | breaker (hold, half-open streak), daily budget | try primary, prefetch the first chunk, walk backups | zen adapter, other upstreams | budget checked before and charged after an await; late successes and failures | a circuit breaker, overrun bounded, every hold ends |
| **Stream relay, bun transport** `openai_http.py`, `routes/_pipeline.py`, `zen_bun_transport.py`, `forward.ts` | two nested generators, a child process, end reason | relay, stall watchdog, close hook, client watchdog | zen adapter, client | end, stall, cut, deadlines and hang-up race for the outcome; a generator nobody closes waits for the collector | the hook runs, once, with an outcome that does not blame the bucket for its client; the child of a response is ended |
| **Protocol formats** `formats/` | per turn: tool slots, open block, announced items | convert a request's items, convert the deltas of an answer | routes | tool calls interleaved with text and each other | blocks opened and closed once, nothing lost |
| **Edge** `edge/` | mode, probe state, counters; per request what it knows | probe, route, fall back, retry the primary, deliver | gateway and backup | mode and probe change under requests on their way | the switch happens before the first byte; an answer about the request is kept; billing hidden |
| **ESP32 bucket** `egress-agent-esp32` | control connection, peer, network, pending tunnels, active count, rotate lock; firmware slots | threads per connection; firmware tasks | gateway, two routers | HELLO in three unlocked writes; TREADY against its timeout; the device roams | no slot or lock lost, data goes to its tunnel, everything ends |
| **Key store** `auth/keystore.py`, `core.py` | keys in memory and in a file | mint, revoke, start | admin routes | the write fails, the process dies between write and answer | what the admin was told stays true |
| **Free-model catalog** `egress/catalog.py` | last good list, staleness | refresh loop | `/v1/models_cus` | upstream away or without free models | not stale means recent |
| **Event log** `egress/eventlog.py` | a file and its shifted predecessors | append, shift, disable | everyone | a write or any rename of a rotation fails | the latest events survive, in order |
| **Wire shaping, configuration, logging, insights, scripts** | none that outlives a call | pure translation, reports | | | not modelled, see section 8 |

`PROJECT.json` lists the hazards each of these has, at the line where it bites.

## 2. Modules

| module | models | builds on |
|---|---|---|
| `EgressPool` | the pool with an arbitrary rotator and arbitrary probe answers | |
| `EgressPoolHistory` | history variables: the address a bench was about, the last probe answer | `EgressPool` |
| `EgressPoolProofs` | the theorems about it | `EgressPool`, TLAPS |
| `EgressRotation` | rotator, counters, snapshot and device, composed with the pool | `EgressPool` |
| `EgressRotationHistory` | history variables: attempts of the window over all processes, the address a verdict blamed | `EgressRotation` |
| `RotationProofs` | the theorems about the composition | `EgressRotationHistory`, `EgressPoolProofs` |
| `RetryWalk` | `ZenDirectAdapter.chat` and its exchanges over the pool, several requests at a time | `EgressPool` |
| `RetryWalkProofs` | the theorems about it | `RetryWalk`, `EgressPoolProofs` |
| `Breaker` | abstract: what a circuit breaker promises | |
| `Failover` | the failover adapter: hold, streak, budget, concurrent requests | implements `Breaker` |
| `FailoverProofs` | the theorems about it, the refinement included | `Failover` |
| `StreamRelay` | one streamed turn from the upstream to the client | |
| `Protocols` | one turn through the `/v1/responses` or `/v1/messages` converter | |
| `TurnProofs` | the theorems about both sides of a turn | `StreamRelay`, `Protocols`, TLAPS |
| `Edge`, `EdgeProofs` | the public port and the theorems about it | |
| `DeviceTunnel` | the ESP32 adapter's threads and the firmware's tasks | |
| `DeviceAgent` | the agent on a device | |
| `DeviceProofs` | the theorems about both kinds of device | `DeviceAgent`, `DeviceTunnel` |
| `KeyStore` | the minted keys | |
| `FreeCatalog`, `EventLog` | the free-model list; the event log | |
| `Stores`, `StoreProofs` | the three stores of the process side by side, and the theorems about them | `KeyStore`, `FreeCatalog`, `EventLog` |
| `MC*` | the instances TLC runs where a module needs definitions for them | the module in their name |

The modules meet where the components do. `EgressPool` is shared by `RetryWalk` and
`EgressRotation`, which extend it. `StreamRelay` ends in the outcome with which
`RetryWalk`'s `StreamEnds` releases the lease, and begins with the exchange that
`RetryWalk` sees as one step; its prefetch and its deadline are the await behind
`Failover`'s place "primary". `DeviceAgent` is the inside of what `EgressRotation`
knows as `dev`. No module declares a RECURSIVE operator.

`EgressPool` doubles as the abstract specification of the composition: its
`RotatorStep` and `ProbeStep` are what an unspecified rotator and unspecified
agents may do, and `EgressRotation` (which extends it and keeps its variables,
so the refinement mapping is the identity) is checked, and proved, to implement it
(`PoolImplemented == Spec`).

### EgressPool and the code

- `st[b]` is `EgressState`. Deadlines are kept as time still to run (`cordon` is
  `cordoned_until - now`), which makes the state finite without a clock; `Tick`
  is one unit of time. `Past` is how long ago an expired deadline is remembered:
  a request that wakes from the queue compares deadlines with the clock it read
  when it entered (`now` of `acquire`), so `Lease` takes the age of that reading.
- `req[r]` is one attempt of a request with its `Lease`: idle, queued at the cap,
  holding a live lease, or still referring to a released one (for a second
  `release` or `abandon`, which must be ignored).
- `affinity[s]` is a row of `_affinity`; `idle` its age.
- `Acquire` is `acquire` up to its only await; `Enqueue` is reaching that await;
  `Dequeue` is one wake-up of the polling loop, with the deadline; `CancelWait` a
  cancellation in the sleep.
- `Release` is `release` with the observer's effect inside (`mark`), because the
  rotator marks the bucket before `release` returns. `Judged` is the chain of
  branches on the outcome, `EnterCordon`/`EnterCooldown`/`LiftCordonOnSuccess`
  the helpers of the same names.
- `ProbeUnreachable`, `ProbeNotReady`, `ProbeReady` are the three exits of
  `_probe_one`. The fold of an answer is atomic (no await after the response);
  the answer itself may be anything, as late as it likes.
- The round-robin cursor is abstracted: among buckets that are otherwise equal
  any may be chosen.
- Bench durations are sets of constants. A free-tier 403 uses `TierCordons`
  (empty in keyed mode, where it is not judged), a hard 429 `QuotaCordons`.
- Failure streaks and soft-failure streaks are counted as far as a rule looks
  (`FailureCap`, `Tolerance`), which the assumptions make exact for the cooldown.

### EgressRotation and the code

- `rec[b]` and `disk[b]` are a row of the counters in memory and in the snapshot.
  The window is an event, `Rollover`, which makes a row `old`; `_record_for`
  refreshes it the next time it is looked up (`Current`), and `load` drops it
  (`Loaded`). Every place where the code saves assigns `disk`.
- `task[b]` is the rotation task: created, inside the POST, polling. `timer[b]` is
  the sleep of `_retry_later`. `dev[b]` is the device: its address, whether the
  uplink is up, and what its agent last found out.
- `ReleaseObserved` is `release` plus `on_release` plus `request_rotation`, one
  step as in the code. `AdminRotate` is the admin route (`force`, no cap).
- `Shutdown` is `aclose` followed by a start; `Crash` a start from whatever the
  snapshot held.

### RetryWalk and the code

- `req` and `st` are the pool's; `walk[r]` is what the running `chat` of a request
  knows: how many attempts are left, the set `tried`, and what it would hand to the
  failover wrapper if no sibling were left. `handoff` says why the wrapper goes to the
  backup chain: "quota" (a 429 relay) and "outage" (a 5xx, the gate's 503, a transport
  error) are verdicts of the walk; "wrapper" is what the wrapper decides by itself, for a
  4xx it does not pass through, for any other exception, and at its two deadlines.
  `resting` is a request that ended or never began.
- `Begin` is `chat` up to the await of its first `acquire`, `Served` the end of a
  wait in the queue, `TryNext` a later `acquire` (no session key, `tried` excluded).
- `AttemptSucceeds`, `StreamStarts`, `AttemptFails`, `AttemptBreaks` are the exits
  of the exchange as `chat` sees them: an answer for the client, a relay that takes
  the lease over, a failure of the bucket, an exception `chat` does not catch (the
  wrapper does, and turns to the backup). Each contains the pool's `Release`, because the
  exchange releases before it returns. `StreamEnds` is the relay's close hook, and
  `FirstChunkLate` the close of a prefetched stream whose first chunk was too late.
- A verdict and the `acquire` after it are two steps: after an answer the response
  is closed between them (`aclose` is awaited in `_consume_ok`), so other requests
  may run and the client may hang up there. Where nothing is awaited in between the
  model has more interleavings than the code.
- `Cancelled` is the `except BaseException` branch: `abandon`, which is a no-op on a
  lease that was released, and the cancellation of a queued `acquire`. `HangUp` is a
  client that leaves, `PrimaryLate` the wrapper's `ZEN_FALLBACK_PRIMARY_TIMEOUT_S`,
  after which the request goes to the backup.
- `MaxLost` bounds how often reading the body of an error answer raises
  (`BodyLost`). That is httpx; with the bun transport a body that breaks off is an
  end of file, and `MaxLost` is 0. `lost` is a history variable that counts the
  leases forgotten that way, and no action looks at more of it than its bound.

### Failover and the code

- `until` is `_fallback_until` as time still to run: `NoHold` is 0.0 (closed), a
  positive value a running hold, 0 a hold that ran out and was not cleared (half
  open). `streak` is counted as far as `zen_fallback_recover_after`.
- `place[r]` is the await a `chat()` is in. A success or a failure of the primary is
  one step whenever the request began, so those that started before a trip count.
- `TodaysBudget` is the lazy change of the day, done by whoever looks at the budget
  (`Looked`); the check is in `Divert` and `PrimaryFails`, the charge in
  `BackupAnswers`, and the backup's await lies between them.
- `Breaker` knows neither clock nor budget. The mapping reads its mode off `until`.

### StreamRelay and the code

- `inner` is where `StreamRelay.chunks` stands (not started, waiting for bytes, parked at
  a yield, at the synthesised finish or `[DONE]`, closed), `outer` the same for
  `relay_stream`. A generator is closed by its consumer, or by the collector
  (`CollectOuter`, `CollectInner`), and one that never ran has no `finally`.
- `AfterLoop` is the code after the loop: a missing terminal chunk, a missing `[DONE]`,
  and the close. `reason` is `end_reason`; `Closes` turns it into the outcome the
  lease is released with, "disconnected" if there is none.
- `child` is the bun process: running, reaped by `aclose`, or loose, when `post` is
  cancelled while it waits for the headers, or fails on a malformed line, and forgets
  it. The event loop keeps a loose child's transport, so nobody ends it: it ends by
  itself (`LooseChildEnds`) or stays.
- `setup` says how the turn is served: bun or httpx, prefetched or not, through a
  converter that closes what it wraps or through one that does not. Each run starts
  from every setup (`AllSetups`).

### Protocols and the code

- A turn first converts the request's items (`ConvertItem`), is sent, then converts
  deltas (`Delta`), a finish reason and the end. `shown` is what a client has put
  together from the events: for each block or item its kind, its call, how many
  fragments of name and arguments it holds and how often it was closed. A fragment
  is a count, not a text, so "nothing lost" means that the numbers agree.
- `slots` and `order` are the converters' dictionaries of tool calls; `pos` is the
  index under which a call was announced.
- A text block of a client's turn may be absent, blank or hold text (`Texts`); the roles
  "blank" and "silent" of what is sent tell a message whose only content was blank, and is
  now null, from one made of a turn that had neither text block nor call.
- `Nameless` says what upstream is allowed to send. In the listed run a call's id and
  name come with its first delta; `ProtocolClaims` drops that.

### Edge and the code

- `req[r]` is what `_forward` has in its local variables: whether the body is
  replayable, whether the mode allowed or forced the backup when the request
  arrived (`mode` is read once), the route, the answer, whether the backup was found
  `dead`, how many retries were spent, and how many answers were started.
- `FailoverReason`, `OutOfQuota`, `Deliverable` are `policy.py`'s judgements on a
  class of answers; `PrimaryAnswers` and `BackupAnswers` are those classes.
- `Probe` changes what `/healthz` shows; `SetMode` is the admin call.

### DeviceTunnel and the code

- `session[n]` is how far the adapter's thread of a control connection is: `HelloPeer`,
  `HelloSsid` and `HelloTakes` are the three writes of a HELLO, each of its own because
  no lock is held over them. `esp`, `peer`, `ssid` are the globals they write.
- `tunnel[t]` is `open_tunnel` and its caller: `Ask` registers and counts under the
  lock, `Order` sends `CONNECT` on the control channel as it is by then, `Wake` is the
  end of the wait (TREADY, ERR or timeout). `job[t]` is the firmware's task:
  `TakeJob`, `Dial`, `DataConnect`, `Tready`, `TaskEnds`.
- `rotation[r]` walks through `mifi_rotate`'s three steps with a tunnel for each.
  The router a step talks to is that of the network the device is on at the time.

### DeviceAgent and the code

- `probe` is the loop: asking, answered, sleeping, with the time it has left; `age` is
  the time since `probe_at`, `dead` how long the uplink has been down. Both are cut at
  `Grace`, beyond which nothing looks.
- `conn[k]` is a CONNECT handler; `upstream[k]` whether its connection to the target
  is still open; `tunnelsActive` is `tunnels_active`.
- `rotate[q]` walks through login (with the telecom retries), reset, recovery and
  redial; there is no lock in the code and none here. The ONT is the environment:
  after an accepted reset it serves for a moment more, goes down, comes back, dials.
- `server` is `close()`: wait `CLOSE_GRACE_S` for the handlers, abort them, stop.

### Stores and the code

- `KeyStore`: `CreateBegins` and `RevokeBegins` change memory, `Saved` or `SaveFails` is
  the write of the whole file, `Answered` what the admin is told; `Killed` may come
  between any two of them, and `Started` loads the file or, when that cannot be read,
  nothing (`intact` then is false: what is promised is promised for a readable file).
- `FreeCatalog`: `Fetched`, `FetchFails`, `FetchBegins`, `OperationEnds` are the refresh
  loop; time passes in its sleep and its fetch only. `timeout_s` limits each operation of
  a fetch (httpx), not the fetch: an upstream that trickles could hold it for ever. The
  bound on the number of operations, `Operations`, is an assumption about the upstream.
- `EventLog`: `Emit` with the rotation of full files. Each rename of a rotation may fail
  by itself and the loop goes on (`Rotations` are the sets of files that do move,
  `Shifted` what is left then), so a newer file may replace one that could not move.
  After it the write succeeds, or fails and disables the log (`EmitFails`); `Configured` is
  the next start. `clean` is a history variable: how many rotations have gone through
  since a rename failed. A write that fails is taken to leave nothing in the file.
- `Stores` lets one of the three move in an instance: they share nothing, so
  interleaving them would only multiply states.

## 3. Runs

| run | instance | shows |
|---|---|---|
| `PoolVerdicts` | 1 bucket, 2 requests, 2 addresses, cap 1, benches of 1, 2, 3 units | `SlotAccounting`, `CordonNeverShortened`, `LiftNeedsEvidence`, `QueueDrains` |
| `PoolSessions` | a normal and a last-resort bucket, 2 requests, 1 session, no cap | `BenchedNeverLeased`, `MigrationNeedsCause`, `BenchEnds` |
| `RotationRestarts` | pool, rotator, counters, devices: 1 request, a rollover, an orderly restart and a crash for one bucket; an orderly restart for two, of which one is in its first attempt; the attempts of a window are counted over all processes | `RotationSound` (typing, and the flag follows the task), `RebootBudget`, `LatchKeepsOwner` (a closed latch is left for nothing only by a restart that cancels this attempt, and by an orderly one only if it records another) |
| `RotationLives` | the same in one process and one window, 2 addresses, under fairness | `RotationEnds`, `FailedRetried`, `StormGuard`, and that the composition implements the pool (`PoolImplemented`) |
| `WalkSiblings` | 2 buckets, cap 1, 2 requests, one broken error answer per bucket | `SlotsReturned`, `NoBucketTwice`, `SiblingsFirst` (for the verdicts of the walk), `CapYieldsOnlyAfterWait` |
| `FailoverHold` | 3 requests, 3 days, both scopes of the hold | `OverrunBounded`, `HoldEnds`, and that the adapter implements the breaker (`BreakerImplemented`) |
| `StreamEnds` | one turn of at most 3 chunks, every setup | `RelaySound` (typing, one record), `WireTerminated`, `BlameIsFair`, `LeaseComesBack` |
| `ProtocolTurns` | 2 items, 4 deltas, 2 calls, both protocols | `ProtocolsSound` (typing, blocks closed once), `RequestUsable`, `NothingLost` |
| `EdgeRouting` | 2 requests, 2 retries, any mode and probe | `EdgeSound` (typing, the counters add up), `BillingSwallowed`, `AnswerKept` |
| `TunnelLives` | 1 CONNECT, 2 rotations, 1 control session, 1 tunnel slot | `TunnelSound` (typing, slots, count, lock), `DataHasOwner`, `TunnelsEnd` |
| `AgentHealth` | 2 CONNECTs, 1 rotation, pause 2, timeout 1, grace 4, two login attempts | `AgentSound` (typing, count, one reset), `ReadyIsTrue`, `AgentMovesOn` |
| `StoresKept` | 2 keys, 2 model ids, fetches of up to 2 operations, 9 events in files of 2, 2 of them shifted; failing writes and renames, kills, restarts | `StoresSound` (typing, not stale means recent as far as a fetch is bounded, the log keeps its latest events in order: `LatestKept`), `WordKept`, `CatalogRecovers` |

Run them with `tlc -config <run>.cfg <module>`; the module of each run is in
`PROJECT.json`. The runs take from seconds to about three minutes on two workers.

These configurations hold as well and are kept for changes in their module:

| configuration | module | shows |
|---|---|---|
| `PoolQueue` | `MCEgressPool` | the queue with 2 buckets, cap 1 and 3 requests |
| `PoolProbes` | `EgressPoolHistory` | `PulledOnlyByProbes`: a bucket is pulled by a hard answer or by a whole run of soft ones |
| `RotationRules` | `MCEgressRotation` | `PoolImplemented` and `StormGuard` with two requests that queue at a cap over a rotating bucket |

**Why these bounds.** What two attempts on one bucket can do to each other needs
two requests and one bucket; a third request or a second bucket adds only copies,
because verdicts touch one bucket. Selection and migration need a second bucket
and a tier that is not the first; the queue needs a full bucket and a request that
waits. Bench lengths 1 < 2 < 3 with two of them under different names cover shorter,
equal and longer verdicts with and without relabelling. Rotation state is per
bucket; only shutdown couples buckets, and `RotationRestarts` has two: the one whose
attempt is recorded and the one whose attempt is not. Its constraint `Bounded` lets one
bucket do whatever it may, through every restart, or do so with quiet surroundings while
the other one is in its first attempt, until a shutdown ends both; that no transport
and no probe fails, and that the gate leaves no failure behind its bench, keeps it small.
`RotationLives` has failing transports and probes; the theorems of section 5 have no such
bound. Two attempts per window (`MaxRotations`) let one fail, be retried and reach the cap, and
`MinInterval = 2` keeps the storm guard shut for longer than a retry takes. A walk
needs a sibling to go to and another request that fills or benches it meanwhile:
two buckets, two requests, and the cap, so that the walk also sleeps in the queue.
The free-tier gate is left out of that instance: to the walk and to selection it is
one more bench. The budget is overrun by the requests at the backup together: three,
so that "less than their number" differs from "by one", and three days, so that a
request that began on one day is charged to another. Three chunks let the terminal
chunk come first, last or not at all, with and without `[DONE]`. Four deltas let two
calls and a text interleave, each continued after another began. Two edge requests
are enough for the counters; each is judged on its own. Two rotations make the lock
matter, and one slot makes a CONNECT and a rotation compete. `Interval`, `Timeout`
and `Grace` are the smallest numbers with a pause longer than a probe and
pause + timeout < grace, the relation the constants of the code have (30, 8 and 45 s).

**Model bounds.** `Rollovers`, `Shutdowns`, `Crashes`, `LastDay`, `MaxSessions`,
`MaxNow`, `MaxEvents` bound how many of those events a behaviour contains, `MaxChunks`,
`MaxItems`, `MaxDeltas` the length of a turn, `MaxLost` the broken answers of a bucket,
`Operations` those of a fetch. `Bounded` is the state constraint of `RotationRestarts`.
`FailureCap`, `Tolerance`, `MaxRotations + 1`, `RecoverAfter`, `Grace` and `Longest` cut
counters at the largest value a rule distinguishes; `Threshold` cuts the meter.

**Symmetry.** `Alike` (requests and buckets) in `WalkSiblings`, `BucketSymmetry` in
`RotationRestarts`, `RequestSymmetry` in `RotationRules` and `PoolSplitSession`: safety
properties only, requests and buckets of one tier are interchangeable there. The view `Live`
of `WalkSiblings` drops why a finished walk ended, which only the step that ends it is about.

**Fairness.** What the code's scheduling gives, and no more:

- `FairSpec`: time passes, the loop resumes a sleeper whose timer
  fired (`Dequeue`), and an attempt ends, because header deadline, read timeout and
  stall watchdog bound every exchange.
- `RunningSpec` (one process, one window) and `RotationFairSpec`: time, created tasks
  and due timers run, and the POST to the agent, which has a timeout, returns. No
  client, operator, ISP or device is obliged to do anything.
- `FailoverFairSpec`: the clock of the hold goes on. No request has to end: a hold
  ends even if none does.
- `RelayFairSpec`: a wait for headers or bytes ends (both have a deadline), the
  server asks for the body of a response or gives it up, a client that takes nothing
  is cut off by its watchdog, and the collector closes generators nobody holds. No client
  hangs up or reads, and no loose child has to end.
- `TunnelFairSpec`: the adapter's threads and the firmware's tasks run, and each of
  their waits has a timeout. No device connects and no network comes back.
- `AgentFairSpec`: the event loop runs the probe loop and the shutdown, and requests
  to the ONT have timeouts. No tunnel ends and no ONT comes back.
- `StoresSpec`: the refresh loop sleeps and fetches (`CatalogMoves`). `CatalogRecovers`
  is about an upstream that stays up from some time on.

Runs check for deadlock except where the system may really stop: `StreamEnds` and
`ProtocolTurns` (one turn), `TunnelLives` (all clients and rotations over, the last
control session gone), `AgentHealth` (the server stopped), `StoresKept` (all keys
minted, all events written).

**Deliberate faults.** Operators whose comment starts with "Fault:" are plausible
bugs (a dropped guard, a missing reset). They are used by nothing in the
specifications; each replaces one definition in a mutation run to show that the
property it targets would notice.

## 4. Where code and documents disagree

Each property below states what a comment, a docstring, a document or a test says,
and TLC finds it violated by what the code does. The configurations are kept beside
the runs; where one names several properties, check one at a time to see each
violation. The quoted lines are in `PROJECT.json` under `findings`.

| configuration | module | property | what TLC shows |
|---|---|---|---|
| `PoolClaims` | `EgressPoolHistory` | `BenchedNeverLeased` | a request that queued at the cap is given a bucket it selected before its sleep, cordoned meanwhile; `BenchSilent` proves that this needs the cap |
| | | `FreshAddressFreed` | an answer that is not ready yet records the new address, so the ready one after it sees no change and the bench of the old address stays |
| | | `HardAnswerPulls` | a non-200 status is folded as a soft failure and tolerated |
| | | `LabelKept` | a longer verdict relabels a live cordon |
| `PoolRotatingLeg` | `EgressPoolHistory` | `RotatingOnlyWhenAlone` | the tier of probe-dead legs does not look at the rotating flag |
| `PoolSplitSession` | `MCEgressPool` | `MigrationNeedsCause` | with the cap on, two queued requests of one session are served by two buckets and each rebinds it; `SessionsStay` proves that this needs the cap |
| `RotationClaims` | `MCEgressRotation` | `LatchHasOwner` | `aclose` cancels all tasks and awaits them one by one; those that end meanwhile are never recorded, and their latch stays closed until the window ends (`LatchKeepsOwner` shows that nothing else does that) |
| | | `RetryInItsWindow` | a rollover keeps the last result, so a retry that slept across it runs |
| `RotationRestart` | `MCEgressRotation` | `FailedRetried` | retry timers do not survive a restart |
| `RotationStaleFrom` | `EgressRotationHistory` | `BlamedAddressLeft` | the address to leave is the pool's record, which may be blank or old |
| `WalkClaims` | `MCRetryWalk` | `ErrorsReleased` | httpx: an error answer whose body breaks leaves `_exchange_via_httpx` with the lease unreturned; `SlotsReturned` shows it is the only way to lose a slot, `BunReturnsSlots` proves the bun transport has none |
| | | `SiblingAlwaysFirst` | a deadline of the wrapper, an exception and a 4xx it does not pass through go to the backup with siblings untried (`SiblingsFirst` holds for the verdicts of the walk) |
| `FailoverClaims` | `Failover` | `CapNotPassed` | the budget is checked before the backup's await and charged after it; `OverrunBounded` bounds the excess |
| | | `ClosedByProbes` | successes of requests from before the trip close the breaker inside its hold |
| `StreamClaims` | `MCStreamRelay` | `HookFires` | a client that leaves before the body is asked for leaves a relay that never ran: nothing returns the lease (`LeaseComesBack` holds with the prefetch) |
| | | `StallBlamed` | a first chunk that never comes runs the hook with "disconnected" before the reason is set |
| | | `BreakBlamed` | a body that breaks in a bun child ends its output and is taken for a cut |
| | | `FinishedIsCompleted` | silence after the terminal chunk is a stall |
| | | `ClosedNotCollected` | a converter that does not close what it wraps leaves the relay to the collector |
| `ProtocolClaims` | `Protocols` | `CutIsShown` | an answer cut at its length is "tool_use" or "completed" |
| | | `ResultsFollowCalls` | a user turn's text goes before its tool results |
| | | `ResultsHaveIds` | a `function_call_output` without an id becomes a tool message without one |
| | | `BlocksClosed` | a call that was never announced is closed under another item's index |
| | | `NullContentDropped` | an assistant turn with a text block without text is kept, with null content (`RequestUsable` shows that a turn with no block at all is not) |
| `EdgeClaims` | `Edge` | `ProbeRoutes` | no request reads what the probe found |
| | | `DrainKept` | in mode "fallback" a billing answer of the backup leads to the primary |
| `TunnelClaims` | `DeviceTunnel` | `ActiveExact` | tunnels of a rotation, and CONNECTs whose client left, are never counted down |
| | | `PeerIsCurrent`, `HomeHidden` | the three writes of a HELLO interleave with another HELLO and with readers |
| | | `OnlyMifiRebooted` | the router is identified through one tunnel and reset through another |
| `AgentClaims` | `DeviceAgent` | `RefreshedByNextProbe` | a probe answered before the reset and folded after it restores the old address |
| | | `BackAfterReboot` | the first poll meets the ONT before it went down |
| | | `UpstreamTornDown` | a client that left before the 200 leaves the connection to the target open |
| `StoresClaims` | `Stores` | `AlreadyRevokedStays` | revoke, failed write, revoke again ("already revoked", no write), restart: the key works |
| | | `StaleOrAbsent` | when no relayed model is free any more the seed is listed as fresh |
| | | `RetriesSooner` | the first refresh, if it fails, is retried after the whole TTL |

One more needs no configuration: the docstring of `_lift_cordon_on_success` still
says that acquire falls back to cordoned buckets, while `acquire` says it never does.

## 5. What is proved

With tlapm, for every value of the constants that meets the module's assumptions.

`EgressPoolProofs` (from `ActorAssumption` and `DurationAssumption`; any number of
buckets, sessions and addresses, any finite set of requests, any durations):

- `TypeCorrect == Spec => []TypeOK`. `TypeOK` carries one fact that is not a type:
  a request that holds or held a lease names a bucket. Without it the records a
  release updates are outside the domain of `st`, so it is what makes the rest
  inductive. One lemma per helper says that it maps an egress state to an egress
  state (`HelperTypes`, `JudgedType`), one per action that it preserves `TypeOK`.
- `SlotsAccounted == Spec => []SlotAccounting`. The inductive invariant is
  `Inv(e)` with `e` zero: `TypeOK`, and the in-flight counter equals the number of
  holders. A lease adds one to both (`LeaseAccounts`, needs a request that held
  nothing), a return takes one from both (`ReturnAccounts`: the counter is then at
  least one, so the code's `max(0, ...)` never hides a loss), every other step leaves
  both alone. Every verdict keeps the count that `Freed` left (`JudgedType`).
- `BenchSilent`: with `MaxInflight = 0`, `Spec => BenchedNeverLeased`. The invariant
  is that nobody is queued; then a lease is granted only by `Acquire`, from
  `Sticky` or `Usable`, and neither contains a benched bucket.

- `BenchStands == Spec => CordonNeverShortened` and
  `BenchLiftedOnEvidence == Spec => LiftNeedsEvidence`. `BenchStep(b)` states both for
  one bucket and one step that is not time: a live cordon stays or grows, or it
  becomes `Past` with the evidence in hand. One lemma per kind of step (`FinishBench`,
  `ProbeBench`, `RotatorBench`, `WaitBench`) shows it; `JudgedBench` says that of all
  verdicts only a completed request lifts, and clears the failures with it. Time
  itself takes one unit, so it never ends a bench that had more than one left.
- `SessionsStay`: with `MaxInflight = 0` and `AffinityTtl > 0`, the defaults,
  `Spec => MigrationNeedsCause`. Nobody queues, so the step that binds a session is the
  one that looked at its binding: either the bound bucket still qualified and is
  the only one offered, or it did not and that is the cause.
- `CapYields == Spec => CapYieldsOnlyAfterWait`: `Acquire` grants a bucket only after it
  filtered for room (`AcquireHasSlot`), so a full one is granted by `Dequeue` alone, and
  there only at its deadline (`DequeueGrants`). No other step grants anything.

`RotationProofs` (about `EgressRotation` and its histories; from `RotationAssumption` and
the assumptions of the pool; any buckets, thresholds, caps, durations, rollovers and restarts):

- `RotationTypeCorrect == RotationSpec => []RotationTypeOK` and
  `RotationStaysSound == RotationSpec => []RotationSound`. `RotationSound` is inductive as
  it stands. Typing is needed for the flag: an address a poll reports must be one
  the pool may store before `SucceedRotation` is a step of the pool. Then no step of a
  request, a probe or time moves a flag (`ServeFlag`, `ReleaseFlag`, `ProbeFlag`,
  `TickFlag`), every step of the rotator moves flag and task of one bucket together
  (`FlagMoved`), and a restart clears both.
- `PoolRefined == RunningSpec => PoolImplemented`: each step of one process in one window
  is a step of the pool or leaves it alone (`RunningStepsPool`). A restart is not: the
  pool has no step that forgets everything.
- `StormGuarded == RotationSpec => StormGuard`. Of all steps only a release both ends a
  lease and starts a task, and within `MinInterval` of a success only the meter fires,
  which takes a completed request, which clears the failures of its bucket.
- `BudgetKept == RotationHSpec => []RebootBudget`, with the attempts counted over all
  processes of a window. The budget itself is not inductive: the attempts of the
  history are not what the code compares. `BudgetInv` adds that they are accounted
  for in memory and in the snapshot alike (`Backed`): an attempt is saved before its
  reboot, so no crash between the two loses one, and only the end of a window takes
  attempts off the record (`SpentRules`).
- `LatchKept == RotationSpec => LatchKeepsOwner`, for any number of rotating buckets and
  restarts. The invariant beside the types is `Saved`: what the snapshot and memory
  disagree on is a rollover. So the latches a new process finds are those of the old one
  (`RestartFromDisk`), and of the owners only the attempts under way can be missing; a
  shutdown records at least one of those it cancels (`ShutdownKeeps`). Every other step
  leaves each owned latch owned (`Carried`, one lemma per kind of step).

`RetryWalkProofs` (from `WalkAssumption` and the assumptions of the pool; any
buckets, requests, durations and number of attempts):

- `WalkTypeCorrect == WalkSpec => []WalkTypeOK`. The inductive invariant is
  `WalkInv`: typing, and `Follows(r)` for every request, which says that a walk and
  its lease keep in step (walking: queued or leased; streaming: leased; otherwise no
  live lease), that a walk that goes on has an attempt left, and that a queued
  request was offered nothing it has tried. Without the second part the attempt
  counter could leave its range; without the first the second would not follow.
- `WalkReturnsSlots == WalkSpec => []SlotsReturned`. Every step of a walk except
  `BodyLost` is a step of the pool or leaves it alone (`StepIsPool`). The pool's
  accounting is proved for an in-flight count that exceeds the number of holders by
  any fixed amount (`Accounts(e)`; `SlotsAccounted` takes 0), so it carries over
  with `e = lost`, and `BodyLost` moves one holder over to `lost`
  (`BodyLostAccounts`). `Follows` turns "holds a lease" into "is in an attempt or a
  stream". `BunReturnsSlots` is the case `MaxLost = 0`.
- `WalkTriesOnce == WalkSpec => NoBucketTwice`, with either transport. A lease
  is taken by `Begin` (nothing tried yet), by `TryNext` (from `Usable(tried)`) or out
  of the queue, where `Follows` keeps what was offered apart from what was tried.
- `WalkTriesSiblings == WalkSpec => SiblingsFirst`, which is about the verdicts of the walk;
  what the wrapper decides over its head is in section 4. A walk ends in an outage or a 429
  when its attempts are spent or `Usable(tried)` is empty. The first is about a number and
  the property about the set: the invariant ties them (`Counts`: attempts left and
  buckets tried add up to the attempts there are); for the second, `ExhaustedIsEmpty`
  says that no tier of the selection hides a healthy bucket that is free.
- `WalkCapYields == WalkSpec => CapYieldsOnlyAfterWait`, through `StepIsPool`.

`FailoverProofs` (from `FailoverAssumption`; any number of requests, hold time,
threshold, budget, and days):

- `FailoverTypeCorrect == FailoverSpec => []FailoverTypeOK`.
- `BudgetOverrun == FailoverSpec => []OverrunBounded`. The property is inductive given
  the types: nobody enters a spent backup (`RoomWhileAway`: the request that crosses
  the cap was not elsewhere), each charge takes one request off the backup
  (`LeavesBackup`), and a change of the day only lowers the count.
- `BreakerRefined == FailoverSpec => BreakerImplemented`: initial states map to initial
  states, and each step to a step of `Breaker` or a stutter. `Tick` is the only step
  that moves the mode without a request, from open to half open.

`TurnProofs`, on the relay (from `RelayAssumption`; answers of any length, any choice of setups):

- `RelayInvariant == RelaySpec => []RelayInv`. The properties look at the end of a turn,
  so none is inductive. `RelayInv` ties the stand of the relay to what is known by
  then: it exists once the headers came and has run its hook exactly when it is closed
  (`LinkAndRelay`); the reason is found when the body ends and says what the link did
  (`ReasonMatches`); what the wire still lacks is what the relay is about to add
  (`WireGrows`); and the outer generator pulls exactly while the inner one waits for it,
  and is dropped only by a client that is gone (`ConsumerStands`).
- `RelayStaysSound` (`RelaySound`), `WireEndsOnce` (`WireTerminated`) and `BlameStaysFair`
  (`BlameIsFair`) are parts of it.

`TurnProofs`, on the converters (from `ProtocolAssumption`; any number of calls, items and
deltas):

- `TurnInvariantHolds == ProtocolsSpec => []TurnInvariant`. What a client has at the end is
  promised, what it has on the way is not, so the invariant says it of every moment: a
  call and its block know each other (`Placed`); a call is in the order once, and has
  arguments only when it has a block (`Ordered`); for each text and each call the
  fragments in the blocks add up to those sent (`AddedUp`); and the open block is the
  last one (`OpenIsLast`; `ItemsOpen` for the items of `/v1/responses`). A delta changes one
  block or adds one, and one slot (`PlacedKept`, `PlacedMore`, `AddedUpCall`, `OrderedSeen`).
- `ProtocolsStaySound` (`ProtocolsSound`) and `NothingGetsLost` (`NothingLost`) follow for
  every `Sensible` turn: `/v1/messages` always, `/v1/responses` when a call begins with its
  name, which is where section 4 shows that it fails otherwise.
- `RequestStaysUsable` (`RequestUsable`) holds for every order of items, blank text blocks
  included: a message is made of no turn without text block and call, and the request
  as a whole is not empty. That a blank block leaves null content is in section 4.
- `Total` and `Unstarted` are recursive functions. `Induction` derives from the principle of
  the smallest element (`WFMin`) what the proofs need: a recursion over `0..k` has a
  solution (`SumsExist`, `LatesExist`), and it is the only one (`TotalIsLast`). How a sum
  changes with one weight then needs no induction (`TotalBump`, `TotalAppended`,
  `TotalPadded`).

`EdgeProofs` (from `EdgeAssumption`; any number of requests and retries):

- `RequestsStand == EdgeSpec => []EdgeInv`. `Standing(q)` says what a request knows at
  each place: `Blank` until an answer is chosen, `Justified` from the moment it goes to
  the backup, dead exactly on the retry path. No other request, no probe and no
  change of mode touches it (`Moves`), which is why the properties follow for any
  number of requests.
- `SwitchBeforeFirstByte` (`Committed`), `PrimaryAnswersKept` (`AnswerKept`) and
  `BillingNeverShown` (`BillingSwallowed`) are consequences.
- `CountersTellTrue == EdgeSpec => []EdgeCounts` and `EdgeStaysSound == EdgeSpec =>
  []EdgeSound`. That the counters add up says nothing of any one of them, so the
  invariant is that each is the number of the requests it tells of (`Tally`). A step
  moves one request and increments the counters it comes to be told by (`Counts`,
  `CountsHold`); the balance follows because the tallies partition the requests that
  have begun (`CountedApart`).

`DeviceProofs`, on the agent (from `AgentAssumption`, of which Interval + Timeout < Grace
matters; any tunnels, rotations and addresses):

- `LoopStaysInTime == AgentSpec => []LoopInv`. The two properties are not inductive:
  that a leg is ready now says nothing of the next tick. `LoopInTime` adds the time
  the loop has left: age and outage, plus the timer, stay below the pause and the
  timeout.
- `SucceedingAgentIsReady`, `DeadLegsAreNoticed` and, together, `ReadinessIsTrue`
  (`ReadyIsTrue`): under the stated relation of the constants, `ready` is true to the
  uplink in both directions. That time passes for the loop only when it is not due
  (section 2) is part of the model.
- `AgentInvariant == AgentSpec => []AgentInv` and `AgentStaysSound == AgentSpec =>
  []AgentSound`: typing, `tunnels_active` is the number of handlers that pump, and no
  request resets an ONT twice. The last needs that none did before its step
  (`AtMostOneReset`); the count needs that one handler moves at a time, shutdown included.

`DeviceProofs`, on the ESP32 bucket (from `TunnelAssumption`; any finite sets of clients
and rotations, any number of control sessions and slots):

- `TunnelInvariant == TunnelSpec => []TunnelInv`. `Paired` relates a thread of the adapter
  to the task of its tunnel in the device: no task before its order, and a data
  connection with traffic only for a thread that waits for it or relays it. `Counted`
  puts `active` between the threads that live and those that have started: an exact
  count would be false (section 4), the lower bound alone leaves the counter untyped.
  All but a few steps move one tunnel (`TunnelMoves`): its thread, its task, its entry in
  the table, and the counter and the slots by at most one, in step with them
  (`CounterKept`, `SlotsBalance`); the lemmas `...Moves` show it of each, and
  `UnlinkKeeps` that lost orders held no slot.
- `TunnelStaysSound` (`TunnelSound`) and `DataKeepsOwner` (`DataHasOwner`) follow. They hold
  for every number of control sessions, so with a device that roams, where the run
  has a single one.

`StoreProofs` (from `KeyAssumption`, `CatalogAssumption` and `LogAssumption`; any number of
keys, ttls, models, events and files):

- `AnswersAreTrue == KeySpec => []KeyInv`. What was answered holds of memory and of the
  file alike (`Holds`, `Has`), and from the write to the answer the two are equal
  (`RequestUnderWay`): that is why a kill in between can lose an unanswered change, and
  never an answered one.
- `DeadKeysStayDead`, `MintedKeysAreKept` and, together, `KeysKeepTheirWord` (`WordKept`).
- `StoresInvariant == StoresSpec => []StoresInv` adds the catalog and the log. For the
  catalog the age of the list plus the time the loop has left, operations to come
  included, is bounded while it is not marked stale (`CatalogInv`). For the log, `LaidOut`
  says what any mixture of failing renames leaves: the files hold their events in order
  (`Ordered`), the last `MaxFile` events are in the file being written or the one behind
  it (`LastKept`), and after i rotations that went through the last i files' worth is in
  the first i files behind it (`Reaches`). A rotation keeps the three whatever set of
  files moves (`ShiftOrders`, `ShiftKeepsLast`, `CleanShiftReaches`), an append too
  (`AppendKeeps`).
- `LatestEventsStay` (`LatestKept`) and `StoresStaySound` (`StoresSound`) follow.

## 6. What is only model-checked

- Liveness: `BenchEnds`, `QueueDrains`, `RotationEnds`, `FailedRetried`, `HoldEnds`,
  `LeaseComesBack`, `TunnelsEnd`, `AgentMovesOn`, `CatalogRecovers`. Temporal properties
  under fairness are outside the prover.

## 7. Plan

Every safety property a run checks is proved, under the hypotheses section 5 states. What is
left is width:

- properties of the probes of `EgressPool`: an answer read before a rotation and folded
  after it, and the one probe a lift of an address-scoped bench hangs on;
- properties of `EgressRotation`: the retry that sleeps across the end of its window, and
  the address to leave that is read when a task starts;
- the bodies the formats convert whole, beside the streamed ones of `Protocols`.

## 8. Not modelled, and why

- **Configuration, logging**, the updater stub and the opencode-serve adapter: static
  data and formatting, no state of their own.
- **Zen wire shaping** (`body.py`, `prompt.py`, `protocol.py`, `tools.py`): builds bodies
  and headers, holds no state between calls. So do the parts of the formats that convert whole
  (non-streamed) bodies, count usage, mask names and check the tool and field contracts.
- **Insights and scripts**: offline reports over the event log, and operator tools.
- **Request validation and the wiring of routes**: no state; the streamed answer of a
  route is `StreamRelay`, the stores the application creates are `Stores`.
- **The non-streamed exchange with a bun child** is one step of `RetryWalk`; writing
  the body to the child's stdin is left out.
- **The WiFi admin commands of the ESP32 adapter**: the firmware does not know them.
- **Requests and estimated tokens** are one meter of the rotator: the code treats them
  alike and fires on either.
- **The counters' snapshot write succeeds**: `_save` logs and goes on when it does not,
  which makes a crash lose what an earlier save would have kept. A corrupt snapshot is
  left out.
- **An agent that answers `/rotate` in another shape** than the agents of this repository:
  where `results` is a list of something else than objects, `rotate.py:478` raises out of
  the rotation task, which then leaves its bucket marked. `RotationSound` is about the
  answers these agents give.
- **The adapter's unlocked `stats["active"] -= 1`** (line 410) is one step of
  `DeviceTunnel`; Python does not promise that.
- **`EDGE_FAILOVER_STATUSES` with a status below 500**: `Edge` takes an outage for a 5xx.
- **A torn line of the event log**: a write that fails half-way may leave one.
- The list of leased-then-unreachable devices, prefix audit, payload dumps, logs and
  metrics have no influence on decisions. `start`/`aclose` of the pool set up and close
  HTTP clients.
- **ONTs, routers, ISPs and networks** are environment: `ResetLands` and `Redial` in
  `EgressRotation`, `OntStep` in `DeviceAgent`, `WifiLost` and `WifiJoins` in `DeviceTunnel`.
