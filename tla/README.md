# TLA+ models of the Meshtastic channel

This directory specifies the Meshtastic channel of picoclaw
(`src/src/pkg/channels/meshtastic/`): an adapter between a chat agent and a
LoRa radio that is reached over a serial line or over HTTP. The modules are
written from the Go code, checked with TLC on small instances, and proved with
TLAPS where a statement should hold for every value of the constants.

    tlc -config Chunks.cfg MCSubmission.tla     # one run
    tlapm SubmissionProofs.tla                  # one proof module

All paths below are relative to `src/src/pkg/channels/meshtastic/` unless they
say otherwise.

## 1. Inventory

### Goroutines

| goroutine | started by | ends |
|---|---|---|
| caller of `Send` (any number) | the agent | `Send` returns |
| caller of `Start`, `Stop` | the channel manager | returns |
| lifecycle (`meshtastic.go:354`) | the first `Start` | `runCtx` done |
| dispatcher (`meshtastic.go:337`) | the first `Start` | `runCtx` done |
| transport closer (`meshtastic.go:391`) | `runAttempt` | attempt context done |
| heartbeat (`meshtastic.go:466`) | `runAttempt`, serial only | attempt context done, or a write fails |
| handshake watchdog (`watchdog.go:20`) | `runAttempt`, and after a reboot | its Stop, expiry, attempt context |

The receive loop is the lifecycle goroutine itself: `runAttempt` reads one
frame, handles it to the end, and reads the next.

### Components

**Outbound submission** (`send.go`). *State:* `sendGate` (one call at a time),
`pending` (the acceptance table: packet id -> waiter), `queueKnown/queueFree`,
`lastPacing`, `dutyWaiting/dutyMinutes`, the published `channelState`.
*Operations:* `Send` splits a text into at most 8 chunks and calls
`sendPhysical` for each; `sendPhysical` takes a snapshot of a ready attempt,
paces, draws a packet id, registers a waiter, writes, waits for a verdict, and
retries after failures that show nothing was or will be transmitted.
*Interacts with* the receive loop through the table, with the lifecycle through
the snapshot and `failPending`, with Stop through `runCtx`. *Hard:* the snapshot
is stale when it is used; five parties may decide one waiter; a radio answer
may be late, repeated or missing; a dozen ways out of one iteration.
*Correct when:* no chunk is transmitted twice; chunks go out in order; the
result of `Send` is true; no waiter is leaked or left to nobody; every call
ends once the channel or its context does.

**Acceptance table and radio control frames** (`inbound.go:54-211`,
`failPending` of `meshtastic.go`). *State:* the table above. *Operations:*
`recordQueueStatus`, `recordPacketControl` (echo, routing error),
`recordNotification`, `failPending`. *Correct when:* the first decision stands,
and an entry never says more than the radio did.

**Pacing and retry delays** (`send.go:172-181, 342-470`). *State:* `lastPacing`, the
deadlines, the quiet window's start. *Correct when:* a retry waits for what it
must wait for, counts from the right moment, and no wait is put off for ever by
further frames.

**Lifecycle** (`meshtastic.go:291-541`, `watchdog.go`, Open/Close of
`serial.go` and `http.go`). *State:* `started/stopped/runCtx` under
`lifecycleMu`, the attempt with its config id, the transport, the watchdog,
`channelState`. *Operations:* `Start`, `Stop`, the attempts, the configuration
handshake and its repetition after a reboot. *Hard:* Close races Open; the
watchdog expires while a frame is handled; deferred calls wait for up to three
other goroutines. *Correct when:* nothing survives `Stop`; the transport is open
in one attempt at a time; readiness follows a handshake of this attempt; `Stop`
returns.

**Bounded caches** (`cache.go`). *State:* a map of live keys and a ring of
additions. *Used for* inbound deduplication and for recognising replies to the
bot's packets. *Correct when:* a key is remembered for its ttl or until it is
pushed out by `capacity` further additions, no less and no more.

**Inbound prompts** (`inbound.go:19-40, 213-346`, `trigger.go`,
`meshtastic.go:337-352`). *State:* what the attempt has learnt of the device
(number, short name, roles of its channels), the copy of it that `publishReady`
makes, the two caches, the prompt queue of 64. *Operations:* a frame about the
device, a text packet, the dispatcher's turn. *Interacts with* `Send` through
`sentBot` and with the lifecycle through readiness. *Hard:* two copies of one
identity; the memory of packets outlives attempts, reboots and devices; a packet
is remembered before it is queued. *Correct when:* a packet makes at most one
prompt while it is remembered, nothing else is remembered, the bot does not
prompt itself, the queue neither blocks the receive loop nor stays full, and
mentions and replies are recognised as documented.

**Chunking** (`chunk.go`, `send.go:54-77`). *State:* that of one call: the chunk
being built, the count, the total. *Hard:* the numbering takes room, and so
changes the number it shows; a word may be longer than a packet. *Correct when:*
the passes agree on a number, every chunk fits, the chunks hold the text, and
the notice replaces only what cannot be sent.

**Serial framing** (`serial.go:144-229`). *State:* the locals of
`ReceiveFromRadio`, and the read timeout of the port, which outlives the call.
*Hard:* lost, damaged and foreign bytes; a frame that stops half way. *Correct
when:* the body stays in its buffer, no read waits for ever within a frame, and
an intact frame is found whatever came before.

**HTTP transport** (`http.go`). *State:* the client, the context that Close
cancels; a request at a time in each direction. `mayHaveWritten` is derived from
trace callbacks. **Configuration**, **factory**, **error labels**
(`src/src/pkg/agent/outbound_error.go`): no behaviour over time.

**Installer** (`src/scripts/install.sh`), **patch generator**
(`src/tools/`): work on a checkout before the program is built.

The hazards, each at its line, are the `hazards` of `PROJECT.json`.

## 2. Plan

| order | module | about | state |
|---|---|---|---|
| 1 | `Submission`, `Delivery` | outbound submission, and what it promises | done |
| 2 | `SubmissionInvariant`, `SubmissionProofs` | its inductive invariant and theorems | done |
| 3 | `Pacing`, `PacingProofs` | the timed waits, and theorems | done |
| 4 | `Lifecycle`, `LifecycleProofs` | Start, Stop, attempts, handshake, watchdog, over serial and HTTP; theorems | done |
| 5 | `BoundedCache`, `BoundedCacheProofs` | the caches, and theorems | done |
| 6 | `Inbound`, `InboundProofs` | what the channel learns of the device, triggers, deduplication, queue, dispatcher; replies that come before `commitAccepted`; theorems | done |
| 7 | `Chunking`, `ChunkingProofs` | packing and the fixpoint, against the fewest chunks there can be; theorems | done |
| 8 | `SerialFraming`, `SerialFramingProofs` | buffer, timeouts, resynchronisation; theorems | done |
| 9 | `DeliveryProofs` | that `Submission` implements `Delivery` | done |

Every safety property that a passing run checks is stated by a theorem. Left to
do: the forgetting of `Inbound` is open, and could be tied to `BoundedCache`,
whose theorems say when a cache forgets; the part of the lifecycle that
`Submission` contains could be shown to be implemented by `Lifecycle`.

## 3. The modules and the code

### Submission

| in the model | in the code |
|---|---|
| `pc[m]`, `chunk`, `packet`, `snapshot` | the place and locals of one call of `Send`/`sendPhysical` |
| `gate` | `sendGate` |
| `pending[i]` | `Channel.pending[id]`; terminal `"none"` is "not in the map" |
| `queue` | `queueKnown`, `queueFree` |
| `attempt`, `ended`, `link`, `published` | the lifecycle's attempts as senders see them |
| `running`, `runDone` | `IsRunning`, `runCtx` |
| `radio`, `owner` | the radio (external) and a history of what each id was drawn for |

`CallSend` and `LockGate` are the head of `Send`; `TakeSnapshot`,
`ChannelUnavailable`, `StopWaitingReady` are `readySnapshot` and the checks
after it; `StopPacing`, `CannotBuild`, `Register` go up to the table;
`WriteBytes`, `SendReturns`, `SendFails`, `RetryZeroBytes` are `SendToRadio`
and the classification of its error; `QuietWindowEnds`, `AcceptanceExpires`
and `Dispatch` are `waitAcceptance` and the `switch` on the terminal kind;
`QueueRecovers`, `DelayEnds`, `StopRecovery` are the recovery waits. The record
actions are the receive loop's. `WriteBytes` is a step of its own because the
radio may act on the bytes before `SendToRadio` returns, and because the
attempt may end in between. It may also be taken on an attempt that has ended:
`context.AfterFunc` cancels the context of `SendToRadio` from another goroutine.

`link` is the part of the lifecycle that senders meet: an attempt is made,
publishes readiness, reboots (`Reboot`, then `FailPending`), and ends
(`EndAttempt`, `Invalidate`, `FailPending`: three steps, as in the code, since a
sender may run between any two). `Lifecycle` has the rest of it.

Abstractions: texts, routes and reply ids are valid and not represented; the
destination check of the routing error is left out; packet ids are drawn once
(`newPacketID` excludes ids in the table only, a repetition within 2^32 draws is
not modelled); time is left out, so that any timer may fire at any moment,
which only adds behaviours. Whether a byte was written (`mayHaveWritten`), and
whom a refusal is meant for, are taken to be told exactly. `snapshot` holds an attempt number.

The radio is external. What it does is read off from what the code counts on:
it refuses a packet (`full`, `error`) or holds it, transmits a held one at most
once, or gives it up for the reason it reports. It reports truthfully, late,
repeatedly, in any order, or never. Loss over the air is beyond this code.

### Delivery

The abstract specification: per message, how many chunks are accepted, which
packets are on the air, what `Send` returned. Its three actions say all that a
caller may rely on. `Submission!KeepsPromise` is the refinement: `air` is
computed from `owner` and `radio`, `accepted` from `chunk` and the result.

### Pacing

The same functions with a clock, for the one call inside `sendGate` (which is
what makes one thread of chunks enough; `NoLeakedWaiter` shows it). `lastPacing`,
`notBefore`, `waiter.at`, `waiter.queueAt`, `duty` are the fields and locals of
the same names or meanings. `began` is when `submitCtx` was made. `queueAt` is
`waitAcceptance`'s copy of `waiter.queueAt`: the code copies it and unlocks
(`LookAtQueueStatus`), compares the copy with the clock, and under the lock looks
again only whether the packet is pending (`QuietWindowEnds`); frames may come
between the two steps. `written`, `handled`, `roomed`, `least` and `quietSince`
are histories the properties speak of. A submission may be interrupted anywhere (`Interrupt`: context, Stop, lost attempt). The unit
of time is arbitrary; `DutyCap` stands for the 60 minutes that also serve for a
notification without minutes.

A timer may be served arbitrarily late (a loaded machine), and the lower bounds
must still hold. `late` is a history of whether one was: the upper bounds
(`BoundedWaits`) are about behaviours in which none was.

### Lifecycle

`life` is the place of the lifecycle goroutine: `next` and `delay` between
attempts, then the places of `runAttempt` from `opening` to `closing`, its
deferred calls included in the order in which they run (`LeaveAttempt` cancels,
`JoinHelpers` waits for heartbeat and watchdog and closes the transport,
`Teardown` waits for the closing goroutine). Each other goroutine is a variable:
`dispatcher`, `watching` (closing goroutines), `beating` (heartbeats),
`watchdog`. `port[a]` separates "opened" from "installed", the window in which
Close races Open. `frame` holds the frame being handled, because `Reset` of the
watchdog comes between receiving and handling it.

Frames are reduced to what the handshake tells apart; a `config_complete_id`
may answer any config id asked for so far, also an earlier one. `heard` is a
history. `transport` is chosen once: HTTP installs its client in one step
(`InstallClient`) and has no heartbeat, so that the context of an HTTP attempt is
cancelled only after the watchdog has been stopped.

### Inbound

| in the model | in the code |
|---|---|
| `node`, `name`, `Transmit` | the attached device and its name, what is on the air (external) |
| `attempt` | `attemptState`: `ownNode`, `shortName`, the usable `channels`, `gotMyInfo` |
| `state` | `channelState`: `ready`, `ownNode`, `shortName` |
| `seen`, `sentBot` | `inboundDedup`, `sentBot` |
| `queue`, `dispatcher`, `busy` | `c.inbound`, the dispatcher goroutine and its prompt |

The receive loop handles a frame to its end, so each frame is one action
(`HearMyInfo`, `HearNodeInfo`, `HearChannel`, `HearComplete`, `HearRebooted`,
`Receive`). `Heeded`, `Triggered` and `Refused` are the early returns of
`handleInboundPacket` before, at and after the triggers; `Receive` is what
follows them. `HearMyInfo` brings the device's number or 0, which takes back what
the attempt knew and leaves a published state ready (section 6). A text is reduced to the mention it holds, whether it begins with
a prefix, and whether its body is empty, a command that is not allowed, or
anything else: `Mentioned` says which identity it is matched against. The device
may be renamed at any moment and swapped between attempts. The caches may forget
at any moment (`ForgetSeen`, `ForgetSent`); `BoundedCache` says when they do.
`settled` and `forgets` are histories, and `forgotten` counts what `inboundDedup`
forgot, for the bound. `Connect` and `LoseAttempt` stand for the
attempts of `Lifecycle`, `CommitAccepted` for the one of `Submission`.

### Chunking

A text is a sequence of words, a word the sequence of the widths of its runes; a
chunk is a sequence of pieces, each a range of runes of one word. `AddWord`
takes a token through the body of `scanChunks`' loop, with `Flush` for `emitCur`
and `Split` for the inner loop over the `Fragments` of a word, which `Extend`
cuts rune by rune; `Scan` is a whole pass. `CountChunks` and `NumberChunks` are
the passes of `chunkCount`, `EmitChunks` the one of `Send`. The loops are
recursive functions (`Bytes`, `Fragments`, `ScanWith`), not `RECURSIVE`
operators, so that they can be reasoned about.

`fitsPhysical` is monotonic in the length of the text and otherwise depends on
the route and reply only, so one number stands for it. The prefix has the same
length for every number up to eight. `RuneAssumption` says that a prefix leaves
room for a rune (6 and 4 of more than 200 bytes in the code), which excludes the
error of `chunk.go:153`. `NoticeAssumption` says that the notice has at most as
many words as there may be chunks, and that a packet holds each of them (seven
short words in the code): so the notice, which is scanned without numbering, is
itself never too long.

`Holds` says that chunks divide the first words of a text, and `LeastChunks` is
the reference for their number: `Least` computes the fewest steps to come to a
number from the steps that lead to it. `FragmentWays` are the steps through the
runes of a word, `ChunkWays` those through the words of a text, among all its
divisions.

### SerialFraming

`parser` holds the locals of `ReceiveFromRadio`, `timed` whether
`serialInterByteTimeout` is armed on the port. Each state of the `switch` is an
action for one byte. The line hands bytes over one at a time (`SendByte`), loses,
damages or adds some, or is silent for longer than the timeout (`Gap` between
frames, `Stall` within one): then the read returns no byte if the timeout is
armed, and nothing happens if it is not. `LosePort` and `Open` stand for the end
of an attempt and the start of the next. Whether bytes of a broken frame decode
is left open; intact ones do. `due` is a history: the frame under way must be
found, because the one before it was, or the line was silent, or the port is
fresh, or the parser looks for a start byte at that moment.

### BoundedCache

`entries`, `ring`, `next`, `gen` are the fields of `boundedCache`; each method
is one critical section. The caller reads the clock before it takes the lock,
so an operation may come with a reading up to `Skew` old, after an operation
with a newer one. `any` visits a Go map, in no order, and stops at the first
match: any subset of the expired entries may have been removed by then.
`latest` is a history of the additions.

A consequence of the stale readings is kept in the model: an entry removed by
an operation with a newer reading can be added again by one with an older
reading for which it would still have been live. `NoDuplicateWithinWindow`
therefore judges freshness by the clock.

### Mutants

An operator marked `\* Mutant:` is a variant of the definition below it with
one plausible mistake (a dropped guard, a missing reset, a wrong origin of a
deadline). No run uses it. `PROJECT.json` pairs each with the property that
fails when it takes that definition's place, so that every property is known to
be able to fail.

## 4. Runs

| run | shows | instance |
|---|---|---|
| `Chunks` | `AtMostOnce`, `NoLeakedWaiter`, `NoOrphanWaiter`, `ContextErrorMeansNothingSent`, `SuccessMeansQueued`, `ChunksInOrder`, `TerminalDecidedOnce`; `Submission` implements `Delivery` | 1 message, 2 chunks, 2 packets, 2 attempts |
| `SendsEnd` | after `runCtx` is done every call returns, the call inside `sendGate` also once its context ends; the table is exact with two callers | 2 messages, 1 chunk, 1 packet, 1 attempt |
| `Pacing` | `PacedAfterVerdict`, `RoomBeforeRetry`, `DutyRetryNotEarly`, `AcceptedMeansQuiet` with late timers, `BoundedWaits` without | 3 packets, 8 units of time |
| `Interval` | the documented minimum interval does *not* hold (section 6) | 2 packets, 5 units |
| `Lifecycle` | `StopIsFinal`, `OnePort`, `ReadyIsConfigured`, `WatchedUntilReady` | 2 Start, 2 Stop, 2 attempts, 3 config ids, both transports |
| `LifecycleEnds` | `StopTerminates`, `LostAttemptIsReplaced` | 1 Start, 1 Stop, 2 attempts, 3 config ids, both transports |
| `BoundedCache` | `RemembersExactly`, `MapIsBounded`, `NoDuplicateWithinWindow` | 3 keys, capacity 2, ttl 2, skew 1, 6 additions |
| `Inbound` | `EachPromptOnce`, `NothingVanishes`, `NeverSelf`, `QueueDrains` | 7 texts, 2 devices, 2 names, 2 channels, queue of 2, 2 trigger settings |
| `StaleName`, `EarlyReply` | a new name, and an early reply, do *not* trigger (section 6) | as `Inbound` |
| `Chunking` | `ChunksFit`, `TextKept`, `NumberingIsTrue`, `FewestChunks` | all 781 texts of up to 4 words of 5 kinds, 7 soft and 2 physical limits, 3 chunks |
| `SerialFraming` | the buffer and the armed timeout (`TypeOK`), `WholeFrames` | 3 frames, 7 faults, bodies of up to 2 bytes |

**Bounds.** Two attempts are needed for a snapshot or an answer of an earlier
attempt to be stale, and one more would only repeat it. Two packets of one chunk
are needed for a retry, or for both chunks. Two callers make the table and the gate shared. Three config ids allow a reboot
in either attempt, so that a completion of an earlier request can arrive in both.
Two Stop calls give the one that cancels and the one that finds the work done.
In `Pacing` every delay is at least one unit, they differ, and eight units fit
a refused packet, its full recovery and a second refusal; a success reported
again after `waitAcceptance` looked at the first, and the acceptance by the
first, come within five. Three keys in a cache
of two fill it, wrap the ring twice in six additions, and let a key expire and
return while its old slot is still there. In `Inbound` the packets cover each
early return and each trigger: a direct command on a channel that is not
listed, a text of the other device, a name with a reply, a node id on an
unlisted channel, a packet without id, from a stranger, and without sender; a
queue of two can hold two prompts, be full and drop a third; a text of A with a
prefix is its own, and a prompt once A has withdrawn its number. No text of the
run is addressed to node 0, which counts as direct then; the theorem has those
too. In `Chunking` the
words range from one byte to one that needs three pieces under the numbering;
soft targets below, between and above the physical limits occur, and three
chunks are enough for a count that grows when the numbering is added and for one
that grows past the limit. In `SerialFraming` the bytes have their real values;
seven faults make a whole false frame of stray bytes and damage besides. The proofs of section 5 make the
bounds immaterial for the safety properties; the liveness properties rest on
them.

`CHECK_DEADLOCK FALSE` is set in every run because these systems may stop: all
calls are done and the radio is silent, the channel is stopped, or a bound is
reached.

**Fairness** is assumed only where a run has a liveness property.
*Submission:* each sender step is weakly fair (goroutines are scheduled, timers
fire), an attempt whose context is done ends, and its two last steps are taken.
Nothing is assumed of the radio, of the caller, or of Stop. Weak fairness of the
sender includes that `SendToRadio` returns; HTTP is bounded by its context,
whereas a blocked serial `Write` is not interrupted by one, so for serial this is
an assumption about the driver (`Close` of the port ends the write).
*Lifecycle:* the lifecycle goroutine, Stop calls, dispatcher and closing
goroutines are weakly fair; the helpers once they have been told to end;
`ReceiveFromRadio` returns once its context is done or its transport is closed,
but no frame ever need come and no watchdog timer need fire. `BeginAttempt` is
strongly fair: the random source that draws the config id may fail repeatedly,
not for ever.
*Inbound:* the dispatcher goroutine is weakly fair, which includes that
`HandleInboundContext` returns (the message bus is external); nothing is assumed
of the radio or of the connection.

## 5. What is proved

Each proof module proves `Spec => []Inv` for an inductive invariant (`IInv` in
`Submission`, `Pacing` and `BoundedCache`), and draws the safety theorems from
it. Each invariant was checked with TLC, on the instance of the module's run,
before it was proved. The assumptions are those the modules state on their
constants:

| module | assumed of the constants |
|---|---|
| `Submission` | at least one chunk and one attempt; `None` is not an id, a message or an owner |
| `Pacing` | delays are positive, and `AcceptanceTimeout <= DutyCap` (60 s against 60 min in the code) |
| `BoundedCache` | the capacity and the ttl are positive, and there is a key |
| `Lifecycle` | the bounds are numbers, the transports are serial and HTTP |
| `Inbound` | packets and policies are records of the shape the runs give them, "no sender" is no node, and "no prompt" is no prompt |
| `SerialFraming` | payloads are bytes and fit the buffer, two bytes can say the buffer's size, and the two start bytes differ |
| `Chunking` | the three of section 3: the limits are positive and there are at most nine chunks, the prefix leaves room for a rune, the words of the notice fit |

**Submission.** None of the properties is inductive. `AtMostOnce` needs to know
that whenever a packet is registered, every earlier packet of the chunk can no
longer be transmitted (`SpentInv`, and for pairs `OneAlive`). A retry
re-establishes it because the kind the call retries on says what the radio did:
`VerdictInv` relates an entry's terminal kind to the radio's state, which in
turn needs that an entry belongs to the call that waits for it (`TableInv`) and
that only one call is inside (`GateInv`). `AcceptedInv` gives order and the
meaning of success, `LinkInv` that a snapshot names an attempt that exists and
that older attempts are cancelled: this is why a waiter registered on a stale
snapshot is never orphaned. The proof has one step per action and one per
conjunct under it. The properties follow: `TypeCorrect`,
`TransmittedAtMostOnce`, `TableIsExact`, `WaitersHaveAnAttempt`,
`ContextErrorIsSafe`, `SuccessIsAcceptance`, `InOrder`, `DecidedOnce`.

**Pacing.** `PacedInv` places `lastPacing` and the verdict between the last
write and now; `QuietInv` says that a packet was quiet since before the start of
its window and before the copy of it that `waitAcceptance` compares, whichever
is the later, so that the copy being stale does no harm; `MinutesInv` and
`RoomInv` carry what was known when a wait began to where it ends; `DeadlineInv` bounds the clock when timers are
served in time. `AcceptanceTimeout <= DutyCap` is needed there: a verdict may
come as late as the acceptance deadline, and a duty wait counts from it.
Theorems: `TypeCorrect`, `RetryHasRoom`, `PacedAfterEveryVerdict`,
`DutyIsRespected`, `AcceptedIsQuiet`, `WaitsAreBounded`.

**BoundedCache.** `RingInv` says which generation each slot holds, from `next`,
`gen` and the capacity alone: the slots hold the last `Capacity` additions in
order, so the oldest slot is the one about to be reused, and no two slots in use
share a generation. `EntryInv` says that an entry is the latest addition of its
key and owns a slot, and that a recent, fresh addition has its entry. An eviction
then takes exactly the entry whose addition is pushed out, which a leftover slot
of the same key is not. That the map is bounded follows because every entry's
key is the key of a slot. Theorems: `TypeCorrect`, `Exact`, `NoDuplicate`,
`Bounded`.

**Delivery.** `DeliveryProofs` proves `Spec => KeepsPromise`: the initial states
of `Submission` are initial for `Delivery`, and each step is one of its actions
or changes nothing it speaks of. `AirFrame` says that only the radio's
transmission changes `air`; it is a `Transmit` (`TransmitStep`), which needs
`OneAlive`, so that no packet of the chunk is on the air yet, and `SpentInv`, so
that the chunks before it are accepted and the call has not returned a denial.
`commitAccepted` is an `Accept` (`AcceptStep`), and every other return a
`GiveUp` (`GiveUpStep`): `SpentInv` and `GateInv` show that nothing was accepted
or sent when the result says so. None of this holds of a step from an arbitrary
typed state: the refinement rests on the same `IInv`.

**Lifecycle.** Not even `TypeOK` is inductive: that `attempt` is a number of an
attempt whenever one is used needs `AttemptInv`. `CallInv` relates the three
parties of a stop: a call of Stop has marked the channel, waits only if there
was a Start, and returns only after both goroutines are gone. `AttemptInv` says
that nothing is left of an attempt that is over, neither a closing goroutine nor
a heartbeat nor a port; `PortInv` follows the port of the running attempt
through the window in which Close races Open. `WatchdogInv` and `ReadyInv` tie
the watchdog and readiness to what was heard since the radio was last asked.
Theorems: `TypeCorrect`, `StopEndsAll`, `OnePortOpen`, `ReadyMeansConfigured`,
`HandshakeIsWatched`, and `NothingAfterStop`: once a call of Stop has returned
the channel takes no step any more, whatever is called.

**Inbound.** `CopyInv` says of every prompt there is, queued, at the dispatcher
or handled, that it was taken before its packet was last forgotten, or is the
one it is remembered for: so a packet that is not remembered has no prompt of
its present copy, and taking it makes the first (`TakenIsNew`). `OwnInv` says
that what an attempt and a published state know of a number is the number of the
device now attached, because a device is swapped between attempts only, and that
only the attempt can have lost it since; hence `NeverSelf`. Theorems: `TypeCorrect`, `PromptedOnce`, `RememberedWasTaken`,
`NeverAnswersItself`.

**SerialFraming.** `LineInv` says that what is still to come is a suffix of an
encoded frame, `DueInv` that a frame that is due is read in step: each number of
bytes sent stands for one state of the parser and fixes its locals (`InStep`).
`LengthBytes` is the arithmetic of the two length bytes. A stray start byte
before the frame leaves the parser in `seekSecond`, which is why the invariant
allows that state before the first byte; a second start byte is then taken for
the first (`ReadsInStep`). Theorems: `TypeCorrect`, `FramesAreWhole`.

**Chunking.** These theorems are about what recursive functions compute for
every text, of any length. They are proved by induction on the argument: a
nonempty set of numbers has a least element (`LeastElement`, from the
well-foundedness of `<`), so there is no least argument for which a statement
fails (`UpTo`), and a recursion defines a function (`Recursion`). From these:
`FragmentsCut` and `ScanDivides` (a pass divides the text, each chunk within its
limits), and `NoticeNeverOver`. For the minimum, the cost of coming to a number
by the cheapest ways (`LeastOf`) rises with the number if each way can be cut
short (`LeastRises`) and falls when there are more ways (`LeastFalls`).
`FragmentsLeast` and `ScanIsLeast` then carry along the scan that what it has
sent, together with what it holds, is the least cost of the words so far, and
that the first word it holds already made it one more (`AddWordSnug`): the
greedy scan is optimal. A longer prefix costs at least as much
(`NumberingCosts`), so a pass never counts fewer than the one before
(`CountRises`), and the error "chunk count decreased" of `chunkCount` is never
returned. The invariant of the passes is then short: the last total is the
number the numbering was made for (`TotalInv`), and while passes remain it is no
more than the next count (`NumberInv`). Theorems: `PacketsFit`, `WholeText`,
`TrueNumbering`, `AsFewAsCanBe`.

**Only model-checked:** the liveness properties `StopEndsSends`,
`CancelEndsSend`, `StopTerminates`, `LostAttemptIsReplaced` and `QueueDrains`:
liveness under fairness is out of the reach of TLAPS.

## 6. Findings

**Minimum interval.** `src/src/docs/channels/meshtastic/README.md:75` calls
`send_delay_ms` the "Minimum interval between physical text submissions for this
channel instance." The code counts the delay from the *verdict* of a packet and
only for outcomes that commit it or lead to a retry: `lastPacing` is set by
`commitAccepted` and on queue-full, rate and duty refusals. After a permanent
or an ambiguous outcome (no verdict in time, the attempt lost, a rejection of
another kind) `sendPhysical` returns without touching it, and the next call
writes at once, although the packet before may well have been transmitted. Run
`Interval` shows it; `PacedAfterVerdict` states what does hold, and is proved.

**Current short name.** Line 118 of the same file says that a mention "falls back
to the current Meshtastic short name". A NodeInfo that comes after readiness
reaches `attemptState.shortName` (`inbound.go:25`), but mentions are matched
against the copy that `publishReady` made; until the next handshake the bot
answers to its former name only. Run `StaleName` shows it.

**Early replies.** Line 113 names "a native reply to a recent bot packet" as the
first trigger. `sentBot` learns of a packet in `commitAccepted` (`send.go:393`),
after the echo or the quiet window, and not at all when the outcome is
ambiguous; the packet may have been received by then. A reply that comes in
between is not recognised. Run `EarlyReply` shows it. `NeverSelf`,
`EachPromptOnce` and `NothingVanishes` hold all the same.

Two observations contradict nothing that is written down, and are no findings.

*The latest quiet window need not be over.* A success reported again restarts the
window (`inbound.go:64`). When that happens after `waitAcceptance` has copied
the former start (`send.go:346`), the packet is accepted by the former one: line
357 does not compare the time again. `AcceptedMeansQuiet` therefore speaks of a
whole window after a success that no refusal followed, which is what the README
of the channel promises ("no correlated local rejection arrived during a
four-second window"), and not of the window of the latest success.

*A device that withdraws its number.* A MyNodeInfo with number 0 after readiness
sets `attempt.ownNode` to 0 and leaves `state.ready` (`inbound.go:20-23`). Until
the next handshake the device's own packets that carry its number are not
recognised at `inbound.go:235` and may become prompts; in `Inbound` they do, and
`NeverSelf` excepts exactly that state (`Withdrawn`).

## 7. Not modelled

Parsing and formatting of strings (routes, reply ids, error texts), logging and
protobuf. Of the triggers, whether a text holds a given mention or prefix: a pure
match of strings, taken as an input of `Inbound`. `net/http` and the serial
driver: requests, redirects and status codes are seen as a frame, an error, or an
error after the first byte; the poll interval of HTTP and the heartbeat's
`lastWrite` are left out with the time. Validation of the configuration, the
factory and the error labels have no behaviour over time. The installer and the
patch generator work on a checkout before the program is built: sequential
scripts without state of their own.

The channel roles that `Send` looks at are the published ones; `Submission`
takes their answer as open (`PublishReady`).
