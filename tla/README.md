# demonTD in TLA+

demonTD is a TouchDesigner component that streams audio from a DEMON pod. It
asks a queue API for a pod, opens a WebSocket to it, uploads a source track and
then plays a loop that the pod keeps rewriting in slices while the operator
turns knobs. TouchDesigner allows its objects to be touched from the main thread
only, so the program is a main thread that drains an event queue once per frame,
surrounded by threads that must not wait for it: one that owns the socket, one
that sends parameters sixty times a second, one that polls the queue API, one
that PortAudio calls for samples, and short-lived ones for slow HTTP calls.

What is hard about it is between those threads: events that arrive after the
connection they belong to has been replaced, retries that overtake the user, a
ring buffer that three threads share, an outbound queue with several kinds of
traffic and one writer. Unit tests exercise each class alone. The modules here
are about the orders nobody wrote a test for.

## Inventory

| Component | Source | State | Operations | Hard part | What makes it correct |
|---|---|---|---|---|---|
| Session life cycle | `demon_ext.py` | `_connected`, `_saw_ready`, `_failover_attempts`, `_session_id`, `_wsc`, `_ws_gen`, `_pending_*`, `_send_fail_streak`, `_inbound` | Connect, Disconnect, discrete sends, one handler per event, failover worker, pacer watchdog | late events, ticks without a generation, `close()` that gives up after 2 s | one live connection, sessions released only when dead, config sent once per connection, bounded retries, a dead session is noticed |
| WSClient | `ws_client.py` | `_outbound`, `_latest_params`, `_pending_send`, `_closing`, `_ws`, recv thread | connect, close, send_text/binary, send_params, `_run`, `_flush_outbound` | backpressure, fragmentation, eviction, close during any of them | order kept, nothing lost but by eviction, reading resumed, closed exactly once |
| BinaryRouter and the ring | `binary_router.py`, `demon_ext.py` | `_detached`, `_expecting_initial`, `_stem_blobs_pending`, `_router` | sniff_text, handle_binary, detach; open, swap, disconnect around them | meaning of a binary depends on the texts before it; wipe against a frame in hand | one track at a time, router in step with the pod, wipes last |
| LoopBuffer | `audio.py` | `_frames`, `_position`, `_patched_chunks` | init, clear, patch, add_delta, mark_patched, read_into | seam and wrap arithmetic, bitmap outside the lock | every frame heard once per lap, writes land pointwise, coverage exact |
| ParamsPacer, params stream | `params_pacer.py`, `demon_ext.py` | `send_fail_streak`, `_dirty`, `_params_snapshot`, LoRA debounce | tick, build message, watchdog, debounce flush | message built before a reconnect and sent after it | gate shut before `ready`, newest values win |
| Queue heartbeat | `queue_worker.py`, `demon_ext.py` | `_hb_worker`, its stop event, `_hb_extend_requested`, `_hb_extend_ctx`, `_auto_extend_backoff_until`, `_extensions_used` | poll, pop the flag, extend, apply, request, ensure a worker | answers without a session, one context slot, a flag tested and cleared by two threads, a stop that gives up | one worker, polling resumed, refusals not repeated, low leases extended |
| QueueClient | `queue_client.py` | none | join, status, claim, extend, leave | network | stateless |
| SpeakerOut | `audio.py`, `demon_ext.py` | `_stream`, `_sample_rate`, `_frames_per_buffer`, `_sample_format_pa`, `_device_index` | start, stop, callback, device switch | callbacks begin inside `start()`, blocks longer than the scratch, a loop replaced under a block | one stream, in the format it was opened with; blocks seamless; the device picked |
| LoRA triggers | `lora_triggers.py`, `demon_ext.py` | `_lora_ids`, `_lora_triggers`, `_lora_catalog_sig`, `_lora_par_to_id` | build, strip, inject; toggle, send, catalog | catalog, toggles and prompt change at different times | the words of the enabled LoRAs lead the prompt, saved toggles are loaded |
| Parameter schema, session config | `params.py`, `session_config.py`, `events.py` | none | filter, settle, build | | in ParamsStream and LoraPrompt, where they matter |
| Wire codec | `wire.py` | none | encode, decode | | stateless |
| Telemetry, contract check, sign-in, build scripts, TD glue | the rest | counters, files | | | nothing else depends on them |

Interactions: recv threads call back into DemonExt, which only posts to
`_inbound` (texts, open, close) or hands binaries to the current router, which
writes the ring at once. The main thread drains `_inbound` each frame and calls
the handlers. `_open_ws` closes the old client, detaches the old router, bumps
`_ws_gen` and starts a new client; events carry the generation and older ones
are dropped, except `failover-tick`, `loop-initialized` and the heartbeat's
results, which carry none. The pacer reads the session's flags and writes the
client's params slot. The audio callback reads the ring.

The hazards found in reading, each at its line, are in PROJECT.json; a hazard
without a property says why.

## Modules

### Session (`Session`, `MCSession`)

One step is one whole main-thread operation or event handler, or one step of a
recv thread. Variables carry the names of the fields they stand for.
`inbound` holds the connection-scoped events; `sleepers` are failover workers
between their close and their tick; `thread[g]` is the recv thread of generation
`g`; `closing` holds the clients told to close, since a thread may go on after
`close()` has given up waiting. `given`, `readySent`, `sessionOf`, `joined`,
`left`, `connects`, `tries` and `wanted` are history, read by properties and, for
`given` and `readySent`, by the pod's side of the protocol.

Abstractions. A message is accepted iff the client is up and not closing
(`SendOk`), which is what `WSClient._enqueue` answers. The failure of a join at
any point of `_hosted_join_and_open` is a choice: refused, accepted without an
active pod, or followed by `_open_ws`, which itself may stop for want of source
audio. The queue poll that blocks the main thread is one step. The branch in
which building a `WSClient` object raises is left out. A thread's `on_close`
call and the end of the thread are one step. `Connect` takes its mode from the
Mode parameter; calling it with an explicit mode is a `SetMode` before and after.
The pacer thread is reduced to what the watchdog sees: its failure streak can
reach the limit while `_open_ws` waits in `close()` for a client it is still
sending to, and ends with the next tick.

### WSClient and Channel (`WSClient`, `Channel`, `MCWSClient`)

`Channel` is the promise: an ordered stream of discrete messages, written at most
once and in order, and one slot of parameters of which only the newest counts.
`WSClient` is the class: the program counter `thread` follows `_run` and
`_flush_outbound`; eviction is the second half of a send (`Evict`), because the
queue's lock is released in between; a frame in hand (`inHand`) is sent fragment
by fragment with reads in between. `ImplementsChannel` is the refinement: the
stream is the message in hand, then the deferred one, then the queue.

### Inbound audio (`StreamPath`, `MCStreamPath`)

Each frame takes the recv thread three steps: pick up `self._router`, test
`_detached`, act. The main thread opens, swaps and disconnects between them.
Audio is reduced to the track it belongs to, so mixing two tracks or playing a
header is visible in `ring`. The pod (`Sends`) is external: it follows the
protocol the router is written for. `close()` waits two seconds for the recv thread
and no longer, so the main thread never waits here, and the threads of old
connections work on beside the newest; a thread told to close still hands on the frame
it is reading, and reads on between the fragments of an upload, where nobody looks at
`_closing` (`Onward`). `stray` is history: a frame has slipped past a detached test,
either because it was past it when its router was detached, or because its thread
picked up the router of a later connection.

### The params stream (`ParamsStream`, `MCParamsStream`)

Three parties meet in two dicts: the main thread writes `dirty` (a knob moved, a
curve sampled, the seed on `ready`, a settled LoRA strength), the pacer merges it
into `snapshot` and sends the whole, and Connect or Disconnect empty one or the
other. The pacer's tick is three steps, `PacerGate`, `PacerBuild` (under `_lock`)
and `PacerSend`, and the main thread may run a handler between any two. A toggled
LoRA is two steps of the main thread, because the filter cache is refreshed before
the message is queued, and so are the seed and the opening of the gate on `ready`.
The client is reduced to what `WSClient` promises: a queue that goes first and a
slot for the newest params. `None` in a dict is an absent key. The debounce's clock
is one bit, `quiet`; the override window ends at any time. The catalog of LoRAs is
taken as known, the LoRA pars as present. `retry` counts failover workers asleep: Connect does not cancel
them, and the tick of one that it has overtaken joins, dials and replaces whatever
connection there is. `borrowed` is history: the gate stands open from the ready of an
earlier connection. A message is marked with the connection whose ready let it through
(`for`; None while borrowed). A script's
`SetParam` goes past the dicts as a discrete message; `EnableLora` and `DisableLora`,
which go past the toggles, are in LoraPrompt only. The pod (`Applies`, `PodReady`) is
external: it applies params once it has its config, and strengths only to LoRAs it has
loaded.

### LoopBuffer (`LoopBuffer`, `MCLoopBuffer`)

A sample is abstracted to the frame it came from, a crossfaded one to the pair of
tail and head frame. `ReadInto` copies runs as `read_into` does; `Stepwise` is the
reference, one sample at a time. `mark_patched` is a step of its own as it runs
outside the lock. Loops of fewer than four frames (no seam) are not modelled;
`seek` has no caller; `peek` and `playhead_estimate` change nothing.

### The queue heartbeat (`QueueHeartbeat`, `MCQueueHeartbeat`)

`thread[t]` is a worker thread with the place it has reached in its cycle
(`status`: the poll is out; `pop`: the flag is about to be popped; `extend`: the
extension is out), the session id it read, and its stop event; `cur` is
`_hb_worker`. There are two thread slots so that a second live one would show. The
main thread joins (`Connect`, `FailoverTick`), drains open and close, disconnects,
keeps the worker alive from the frame driver, and applies the answers in the order
they were posted. `flag`, `ctx` and `backoff` are the fields; `backoff` is "blip" for
the 5 s after an error and "parked" for the 24 h after a refusal. The queue API is
external: it grants `MaxExtensions` per session and then answers with the unchanged
count, which is what the code takes for a refusal. `lowered` is the clock: which
leases have come under 60 s. `taint` is history: an answer that belonged to an
earlier session has been applied to this one, or its backoff was inherited from one.
`switches` counts changes of the Mode menu, which the join, the close handler and the
frame driver read live (`Hosted`); connections in direct mode have no session and are
left out. Taken on: Autoextend is on, and the main thread drains one cycle's answers
before the next poll goes out, 5 s later. The frame driver's throttle of a second is a
delay and left out, as are waiting-line display and texts.

### SpeakerOut (`SpeakerOut`, `MCSpeakerOut`)

Composes LoopBuffer (`Loop`, by INSTANCE: its loop, playhead and reader, without the
pod's writes) with the streams of PortAudio. `start()` is `Opens` (which may call back
at once), then `Started`, which stores what was negotiated; `Found` is the first of the
sixteen ways to open a device that PortAudio takes, in the order the code tries them.
`Stopped` waits for the callback. The callback is `CallbackBegins` and one
`CallbackReads` per pass over its scratch buffer; between two passes the lock is free
and the recv thread may replace the loop. `doing` is where the main thread is.
`offline` is history for `DevicePicked`. Faithful oddities: a fallback to another rate
or block size is stored and is what the next start asks for first (audio.py:1281);
switching Speakerout off does not stop a stream; a `loop-initialized` drained after
Disconnect starts the speaker again, which then plays silence. The device probe is
taken to succeed; a paused callback changes nothing and is a stutter.

### LoRA prompts (`LoraPrompt`, `MCLoraPrompt`)

The functions of `lora_triggers.py` as operators on sequences of tokens, and the
handlers that use them: a toggle (`OnParChange`) re-sends the prompt, `SendPrompt`
sends what it is given, the config at Connect carries Initprompt, a par of its own, a catalog
(with `ready` or later) sets the ids (a set here, in the order of `Order`) and the words,
and makes missing pars.
`pars` and `on` survive from one launch to the next, the catalog does not, so `Init`
allows any saved toggles with an empty catalog. `inStep` is history: the prompt on the
wire was sent by the program from the par, and only toggles have moved since. The
OnParChange of a toggle that the catalog switches on is taken as immediate. Promptb is
handled as Prompt is and left out. So are SendPrompt's tags, which the next re-send
overwrites.

## Runs

| Run | What it shows |
|---|---|
| `session` | two Connects, either mode, one failover each: one live client, no live session released, config not lost, retries bounded, the gate opened by the current pod; a dead session is noticed and everything comes to rest |
| `session_leak` (violated) | a failed join leaves a session id that the next join overwrites without a leave |
| `wsclient` | order, losses, progress, close, and that WSClient implements Channel |
| `stream_path` | two connections with swaps and stems, the old recv thread beside the new one: until a frame slips past a detached test, one track, router in step, loops not wiped late, a wiped loop stays wiped |
| `stream_linger` (violated) | the frame of a detached connection changes the loop |
| `params_stream` | three connections, overtaken failover ticks included, two changes of pars or scripted values: no edit lost, every message complete, what passes a shut gate was let through by an earlier ready, override and debounce honest, the pod converges |
| `params_gate` (violated) | a pod that has not sent ready is sent params |
| `queue_heartbeat` | two sessions, one extension each, one error, one press, one change of mode: one worker, polling resumed, refusals bounded, a day's backoff only after a refusal, low leases extended |
| `loopbuffer` | seam, wrap and coverage arithmetic against references |
| `speaker_out` | two devices that take different ways to be opened, loops replaced under blocks longer than the scratch: one stream in its own format, blocks as one read |
| `lora_prompt` | three LoRAs, two of them with one word, saved toggles, two catalogs: with auto-prepend on, the prompt leads with the words of the enabled ones, once each |
| `lora_saved` (violated) | the first session of a launch loads none of the LoRAs saved as enabled |

Every property of a passing run has a mutant: a defect planted in one mapped
definition that makes TLC report the property violated. Mutated forms stand
before the operator they replace and are used nowhere else.

Bounds. Two Connects are the least in which a tick, an event or a session of the
first meets the second, and `MaxFailover = 1` the least that has a retry. The proofs
below lift the safety results to every bound. A WSClient queue of two with four
messages fills, evicts and wraps its order; one message in two fragments is interrupted
at each point. Two connections with one swap each are enough for a frame of one track
to meet the loop of another, on the same connection or across two. Loops of 4 frames
have a seam clamped to a quarter and an incomplete last chunk, loops of 9 the full
seam, and blocks of 6 exceed a lap of the shorter one. In ParamsStream three connections
let a message built for one meet the next, and an overtaken failover tick replace the
second of them (`Steps` bounds connections and changes together, `Saved` the values a
project file starts with); one knob that is also under a curve
meets both writers; two changes are enough for a value to be overtaken by a newer one
in each place it can be (dict, slot, pod), and three strengths with `Delta = 1` have one
difference that counts as jitter and one that does not. In QueueHeartbeat two sessions
let an answer about one meet the other, and one extension per session has both a grant
and a refusal; one error, one press and one change of mode fall anywhere between them. In SpeakerOut a block
of 5 takes three passes of a scratch of 2, the last of them short, over loops of 4 and 9
frames; the two devices and the default one accept different formats, rates and blocks,
so that start() reaches its later attempts; three waiting events are an open, a loop and a
close. LoraPrompt has three LoRAs, two of which share a word and one of which is on by default,
and texts that lead with words of the catalog, one of them twice. Deadlock is not
checked: the user and the pod may stop at any time, and a finished client stays
finished.

Fairness. The host calls the drain every frame, so draining an event (and the
watchdog after it) is weakly fair, as are the tick of a sleeping worker, a dial
(30 s timeout) and the recv loop's look at `_closing` (socket timeout 0.1 s). In
WSClient the recv thread is weakly fair: each of its calls has a timeout. The pacer ticks
every 16 ms and is weakly fair. The heartbeat's thread is scheduled and its HTTP calls
end (10 s timeout), the frame driver looks after it every frame, and five seconds pass.
Nothing is assumed of the user, the pod or the queue API (`PodConverges` speaks of
connections that stay, `LeaseExtended` of a queue API that still grants), and no choice
within a thread is fair, so a dial may always fail.

## Findings

The four violated properties are findings, with the quoted text and the trace's
story in PROJECT.json. In short: `_session_id` is overwritten without a leave
(`session_leak`); a message past the ready gate is sent to whatever client there is by
then, and an overtaken failover tick leaves the gate open (`params_gate`); the detached
test is passed once per frame, and the callbacks ask the router of the day, so a
connection that was detached still changes the loop (`stream_linger`); `_enabled_loras`
asks a catalog that a new launch does not have before its first `ready` (`lora_saved`).

### Known behaviours

What follows has no run of its own. The first four contradict a text of the repository,
the others none, or only a loose reading of one. Where a definition is named, naming it
in the module's `.cfg` makes TLC show the trace.

- A LoRA enabled between the building of the config and the `open` event is in neither
  the config nor an `enable_lora`, yet its strength is streamed, though
  demon_ext.py:2974-2976 says that strengths for LoRAs not loaded were causing disconnects
  (`StrengthsOfLoadedOnly` in ParamsStream).
- After a pod hung up the speaker plays on; a device picked then is only stored, and the
  next Connect's `start()` returns at once, though README.md:312-313 says that it "applies
  on the next Connect" (`DevicePicked` in SpeakerOut).
- With auto-prepend off, trigger words that lead the operator's text are taken off, as
  tests/test_lora_triggers.py:169-175 asks, though params.py:334-335 has "user includes
  triggers in Prompt/PromptB themselves" and lora_triggers.py:18-20 leaves the workflow to
  the operator (`OwnWordsKept` in LoraPrompt). `PromptInStep` speaks of auto-prepend on.
- An overtaken failover tick that finds `_saw_ready` set streams to its pod from the
  start, against demon_ext.py:2000 (`params_gate`; `ReadyIsCurrent` in Session is the same
  seen from there). Until that pod's own `ready` seeds it, the message is whatever the
  snapshot holds: the one of the connection replaced, or nothing, if a Disconnect cleared
  the seed before the first merge. `MergedViewIsUi` and `StreamIsFull` exempt that time (`borrowed`).
- `failover-tick` is the one session event that carries no generation and does not look
  at what the user did meanwhile. After Disconnect it joins the queue again
  (`JoinsOnlyWanted` in Session).
- A LoRA enabled again at another strength is set back to the snapshot's older one until
  the fader leaves the committed value (`MergedStrengthIsCommitted` in ParamsStream).
- A script that sends while the socket is open and its open event is not yet drained is
  ahead of the config (`ConfigFirst` in ParamsStream). A value set by `SetParam` lasts
  until the pacer's next message, which says what the par shows.
- An `hb-extend` answer that belongs to the session before is applied to the new one and
  may put its automatic extension off for a day; `ParkedIfRefused` and `RefusalsBounded`
  exempt it (`taint`). The backoff also survives a failover.
- At Connect the config carries Initprompt, which gets no trigger words, and a word learnt
  after its LoRA was enabled is not sent, until the next toggle or send.

Eviction. ws_client.py:113-114 says that discrete messages are never dropped, but
what a full queue evicts is always one of them, as params have had a slot of their
own since. `NoneLost` shows that eviction is the only loss.

The join timeout. If `close()` gives up on a recv thread that then delivers a
frame, the callback hands it to the router of the *new* connection, since it reads
`self._router` when called. That is one of the two ways a frame slips past a detached
test, and what `stream_linger` is about. Until it happens, old threads at work do no harm:
`OneTrack`, `RouterInStep` and `RingInStep` are checked and proved with all of them
alive, up to the first such frame (`stray`).

## Proofs

Every invariant and action property that a passing run checks, and both refinements, are
proved as well, for every value of the constants. Only liveness is left to TLC.

| Module | Theorems | Assumed |
|---|---|---|
| `SessionProofs` | `TypeCorrect`, `TriesBounded`, `OneLiveClientAlways`, `ReleasedOnlyDeadAlways`, `ConfigNotLostAlways`, `GateOpensOnReadyAlways` | `SessionAssumption` |
| `WSProofs` | `TypeCorrect`, `WireInOrderAlways`, `NoneLostAlways`, `ImplementsChannelAlways` | `WSClientAssumption` |
| `StreamProofs` | `TypeCorrect`, `OneTrackAlways`, `RouterInStepAlways`, `RingInStepAlways` | `StreamAssumption` |
| `ParamsProofs` | `TypeCorrect`, `MergedViewAlways`, `StreamIsFullAlways`, `GateHoldsAlways`, `HeldByUserAlways`, `DebounceTracksAlways` | `ParamsAssumption`, `ParamsNames` |
| `QueueProofs` | `TypeCorrect`, `OneWorkerAlways`, `ParkedIfRefusedAlways`, `RefusalsBoundedAlways` | `ConstantsAreNat` |
| `LoopProofs` | `TypeCorrect`, `ReadIsStepwiseAlways`, `LapPlaysEachFrameOnceAlways`, `WriteIsPointwiseAlways`, `CoverageExactAlways` | `LoopAssumption` |
| `SpeakerProofs` | `TypeCorrect`, `StreamInHandAlways`, `BlockIsOneReadAlways`, `ImplementsLoop` | `SpeakerAssumption` |
| `LoraProofs` | `TypeCorrect`, `PromptInStepAlways` | `LoraAssumption` |

The assumptions are on the constants only, and TLC evaluates them in the runs.

### Session

Types need counting first: generations and queue sessions are numbered up to
`MaxTries`, so `TypeOK` is only inductive with `Counting`, which says that attempts
made, ticks outstanding and retries the current session may still ask for are
together paid for by the Connects. Before the first Connect nothing may be owed,
and a drained event shows that there has been one (`IdleBeforeConnect`).

Ownership rests on `Inv = CountInv /\ Owners /\ Queue`. `OneLiveClient` alone is
not inductive: one must know that `_wsc` is the newest generation or None and that
later generations have no thread. `ReleasedOnlyDead` needs the event queue: the
close handler may release `_session_id` only because a drained, current close
event means that the thread of the newest generation is done (`CloseIsLast`),
hence no client is live. `ConfigNotLost` needs `Staged`: while the open event of
the current generation is to come, the one-shot config is still there; an open
event occurs once (`OpenOnce`), before anything is given (`GivenIsUp`). The gate
opens in `EvReady` only, whose event was posted by a pod that had sent it.
Lemmas about the queue (`QueueDrain`, `QueuePost`) are stated once; one lemma per
handler shows that it keeps `Owners` and `Queue`.

### WSClient and its channel

`Basic` says where the one message that has left the queue can be (in hand or deferred,
not both) and that nothing is written before the dial; `closes` is tied to the program
counter, which gives "on_close at most once". `WireInOrder` is inductive with `Order` and
`Newest`: what has been written is older than what left the queue, which is older than
what is still queued, and nothing is numbered higher than the call under way.

The refinement maps the channel's stream to `Lead \o outbound`, where `Lead` is the
message in hand or deferred, as a sequence of at most one. Each action is then a step of
Channel (accept, displace by eviction, deliver, publish, deliver params, forget when the
thread ends) or leaves the mapped state alone; the lemmas before it say what appending
to and removing from `f \o q` does. `ImplementsChannel` states safety only, so nothing of
it is left to TLC.

### Inbound audio

`Newest` always holds: every connection but the newest has a detached router, and the
newest one's thread picks up its own. The rest holds until a frame slips past a detached
test (`Calm`): a frame past the test is the newest connection's (`Own`), so that only one
thread acts on router and ring, however many are alive. `InStep` extends `RouterInStep` to
the middle of a frame (`Knows`: what the router must know for a frame of this kind to be
read right), and `Loop` says what the ring holds at each such point. `Unopened` starts the
induction for the next connection.

### The params stream

`Posted` counts the events of the newest client, so that a drained close means that
nothing follows it. `Staged` and `Heard` say what cannot be in flight: a config that is
still staged has no ready pod, and whatever was heard of a pod is of the present one,
unless the gate is `borrowed`. Of failover workers nothing is assumed: any number may be
asleep, and their ticks meet any state. `Merged` is
`MergedViewIsUi` from the seed on, including the time between the seed and the gate; it
is kept by every pair of writes to a par and `_dirty`, and by the pacer's merge, which
changes nothing in what a next merge would say. `Carried` follows a message from the gate
to the slot: if the present connection let it through, its pod was ready, and its content was
merged after the seed, or the socket is dead. The debounce needs only `Waits`: a strength
that waits is the fader's.

### The queue heartbeat

`OneWorker` is inductive as `CurIsAlive`: the thread that runs is the one `_hb_worker`
holds, told to stop or not. The bound of two answers in the queue, part of the types,
follows from where that one thread is in its cycle (`Cycles`).

`ParkedIfRefused` compares counts that are read at three times: when the extension is asked
for, when the queue API answers, and when the answer is drained. `Leased` says that no
answer is ahead of the queue API and that an answer to an extension is the last one
waiting; `Counted` says, for a session no earlier one has touched and that was refused
nothing, that what is known while an extension is asked for (`Requested`) is at most what is
granted, and that a granted answer on its way is above every count known before it
(`Above`). So an answer that brings no new count is a refusal.

`RefusalsBounded` counts along a whole session, so its invariant is a budget: what was
refused, plus `ToCome`, the refusals the session can still come to by itself, stays
within 3 + 2 per press + 1 per failed call. `ToCome` is 3 while extensions are left. After
that it is what is under way if the session is parked (a failure on its way may take the
backoff off: two more), 2 if the latest request was automatic and made at the last count
(`Final`: its refusal parks), and otherwise what is under way and two more. The number 3
is reached: a poll's answer drained after the last grant asks at the old count
(`Outdated`), so its refusal does not park; while the next request is out, the answer of
the same poll asks once more, and both are refused. A press costs
two because it overwrites the context of an automatic request under way. That `Outdated`
excludes `Final`, and that an answer's count is that of the queue API (`UpToDate`), rests on
`Counted`.

### LoopBuffer

`LoopInv` says that the playhead of a loop is at the end of its seam or past it, and that
the bitmap is exact but for the slice that has landed and is not marked yet. It is simple;
the work is in what the operators compute. `Path(g, p)` is the way of a playhead that
starts at `p`. `Stepwise` reads along it (`StepwiseIs`), a run of `read_into`, be it raw or
in the tail, reads a piece of it (`TurnIsStepwise`), and so does the whole call, by
induction on what is left to read. From any place a lap visits each place after the seam
once (`PathLap`). For the writer, `(start + k) % frames` is injective on a slice no longer
than the loop, and `Write` maps it back (`WritePoints`); the chunks of `mark_patched` are
the quotients of the frames written (`MarksAreExact`). The solver has division by literals
only, so quotient and remainder are characterised first (`DivModUnique`, `ModStep`).

What a recursive function returns is proved in two steps that need no predicate as a
parameter, which the provers here could not instantiate: a function that satisfies the
recursion is exhibited, and a set of naturals that holds 0 and is closed under successor
is shown to hold all (`Induct`, from the well-foundedness of < and a least element).

### LoRA prompts

`LoraInv` says that, while `inStep`, the pod's prompt is `Inject` of the text with the
toggles and words of now, and that the toggles of the catalog are routed; it is kept
because whatever changes a word ends `inStep`, and a routed toggle sends again. The lemmas say what
`build_trigger_prefix` (`WalkExists` and after it: the words wanted, each once) and
`strip_leading_triggers` (`StripExists`: the first token that is no word) return, and that
`inject` of what it returned is the same again, since the prefix is made of words and is
stripped whole.

### SpeakerOut

`InHand` says where the one stream is in the middle of an operation: between PortAudio's
first callback and the end of `start()` only PortAudio knows it, and a switch or stop
holds one. The format is stored before the stream is started, which is what `FormatKept`
rests on.

`BlockIsOneRead` is inductive as `CallInv`: what a call has copied so far is `Stepwise` from
where it began, and the playhead is where that ends; a pass extends it by
`StepwiseAppend` of LoopProofs, which is instantiated for the speaker's loop, and a loop
that is replaced or wiped forgets where the call began. `ThreadsTyped` and `StreamTyped`
complete the types. With them `ImplementsLoop` shows that the speaker does to its loop only
what LoopBuffer does: a pass is a `ReadInto` of at most a block. The theorems on LoopBuffer
so hold of the loop that plays.

### Model-checked only

- Liveness, which the prover does not do under fairness: `DeadSessionNoticed`,
  `Settles`, `BackToRecv`, `CloseTakesEffect`, `PodConverges`, `PollsResume`,
  `LeaseExtended`.

No invariant, action property or refinement is left to TLC alone. Each inductive
invariant was checked by TLC on a run's instance before it was proved.

## Not modelled

- `EnableLora` and `DisableLora` in the params stream; eviction of a discrete message by
  another there: that needs the outbound queue of WSClient at its limit and the dicts in
  one model.
- `mark_patched` and SpeakerOut's `start()` against a recv thread that outlives `close()`:
  StreamPath has such threads, LoopBuffer and SpeakerOut do not.
- The watchdog's teardown of a healthy connection as a property: it is a step of Session,
  but the streak that causes it belongs to the pacer, which is in ParamsStream.
- The branch of `_open_ws` in which building a `WSClient` object raises; a change of mode
  by the operator's script during `Connect`.
- The order of `_leave` and claim calls on worker threads, the parsing of the queue API's
  answers, sign-in: single HTTP calls whose results change nothing modelled here.
- Latency counters, `playhead_estimate`, device enumeration, the PortAudio library's
  loading; the wire codec; telemetry; contract check; parameter pages and the `.tox`
  builder: pure functions, or calls into the host with no state of the program's own.

## Plan

The session life cycle came first as the program's most consequential and least tested
part, then the client, the inbound path, the loop, the params stream, the heartbeat, the
speaker and the prompts; each was proved about once its run had passed. Left to do:

1. A one-connection composition of ParamsStream and WSClient, for a config or an
   `enable_lora` that eviction drops.
2. The wire codec as operators on headers and lengths, if its layout changes.
