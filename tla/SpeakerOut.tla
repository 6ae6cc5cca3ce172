----------------------------- MODULE SpeakerOut -----------------------------
(***************************************************************************)
(* Playback through PortAudio: SpeakerOut (audio.py) and the main-thread     *)
(* code of DemonExt that starts it, stops it and switches its device.  Its   *)
(* audio thread reads the loop of LoopBuffer, block by block; the slices the *)
(* pod writes do not move the playhead and are left out.                     *)
(*                                                                         *)
(* Two threads share the attributes of SpeakerOut: the main thread, which    *)
(* opens and closes streams, and PortAudio's, which calls back while a       *)
(* stream runs.  A third, the recv thread, replaces the loop between any two *)
(* reads.  A paused callback writes silence and changes nothing here.        *)
(***************************************************************************)
EXTENDS Integers, Sequences, FiniteSets

CONSTANTS
  Sizes, SeamFrames, ChunkFrames, MaxBlock,   \* of LoopBuffer
  Devices,          \* indices of the output devices that can be picked
  Default,          \* -1: the system's default device
  Native,           \* [device -> its own sample rate]
  Takes,            \* [device -> the ways to open it that PortAudio accepts]
  SampleRate,       \* the rate of the loop, 48000
  FramesPerBuffer,  \* the block asked for, 4096
  ScratchFrames,    \* _max_block_frames, 16384
  MaxEvents         \* bound: events waiting when a loop arrives

Outputs == Devices \cup {Default}
Rates   == {SampleRate} \cup {Native[d] : d \in Outputs}
AnySize == 0        \* paFramesPerBufferUnspecified
Ways    == [format : {"float32", "int16"}, api : {"default", "params"},
            rate : Rates, block : {FramesPerBuffer, AnySize}]

ASSUME SpeakerAssumption ==
  \* what LoopBuffer assumes
  /\ Sizes \subseteq Nat \ 0..3
  /\ SeamFrames \in Nat \ {0} /\ ChunkFrames \in Nat \ {0} /\ MaxBlock \in Nat \ {0}
  /\ Default \notin Devices /\ Takes \in [Outputs -> SUBSET Ways]
  /\ FramesPerBuffer \in 1..ScratchFrames /\ ScratchFrames \in Nat

VARIABLES
  frames,    \* the loop: its length and
  position,  \* where the playhead is
  stream,    \* _stream
  rate,      \* _sample_rate
  block,     \* _frames_per_buffer
  format,    \* _sample_format_pa
  index,     \* _device_index
  pick,      \* the Audiodevice par
  offline,   \* history: it was set while not connected, all events drained
  doing,     \* what the main thread is in the middle of
  running,   \* PortAudio: the streams it runs, the latest last
  call,      \* the audio thread: the callback it is in
  connected, \* _connected
  socket,    \* the recv thread
  inbound    \* the events of _inbound that matter here

attrs == <<stream, rate, block, format, index>>
main  == <<pick, offline, doing, connected>>
net   == <<socket, inbound>>
loop  == <<frames, position>>
vars  == <<loop, attrs, main, running, call, net>>

Loop == INSTANCE LoopBuffer
          WITH patched <- {}, unmarked <- << >>, written <- {}, Slices <- {}

NoStream == [device |-> Default,
             way |-> [format |-> "none", api |-> "none", rate |-> 0, block |-> 0]]
Streams  == [device : Outputs, way : Ways]
Events   == {"open", "loop-initialized", "close"}
NoCall   == [left |-> 0, from |-> -1, out |-> << >>]

TypeOK ==
  /\ Loop!TypeOK
  /\ stream \in Streams \cup {NoStream} /\ running \in Seq(Streams)
  /\ rate \in Rates /\ block \in {FramesPerBuffer, AnySize}
  /\ format \in {"float32", "int16"}
  /\ index \in Outputs /\ pick \in Outputs /\ offline \in BOOLEAN
  /\ doing \in {"idle", "start", "opened", "switch", "stop"}
  /\ call.left \in 0..MaxBlock /\ call.from \in {-1} \cup 0..frames
  /\ Len(call.out) <= MaxBlock
  /\ connected \in BOOLEAN
  /\ socket \in {"none", "dialing", "up", "in hand", "ending"}
  /\ inbound \in Seq(Events)

Init ==
  /\ Loop!Init
  /\ stream = NoStream /\ running = << >> /\ call = NoCall
  /\ rate = SampleRate /\ block = FramesPerBuffer /\ format = "float32"
  /\ index = Default /\ pick \in Outputs /\ offline = FALSE
  /\ doing = "idle" /\ connected = FALSE /\ socket = "none" /\ inbound = << >>

-----------------------------------------------------------------------------
(* The recv thread.                                                        *)

Posts(e) == inbound' = Append(inbound, e)

SocketOpens ==
  /\ socket = "dialing" /\ socket' = "up" /\ Posts("open")
  /\ UNCHANGED <<loop, attrs, main, running, call>>

\* After Disconnect, the thread may still have one frame in hand.
Arrives == \/ socket = "up" /\ UNCHANGED socket
           \/ socket = "in hand" /\ socket' = "ending"

\* What a callback has read so far was read from a loop that is gone.
LoopGone == call' = [call EXCEPT !.from = -1, !.out = << >>]

InitialBuffer(n) ==
  /\ Len(inbound) < MaxEvents /\ Arrives
  /\ Loop!InitLoop(n) /\ LoopGone /\ Posts("loop-initialized")
  /\ UNCHANGED <<attrs, main, running>>

SwapReady ==
  /\ socket = "up" /\ frames # 0 /\ Loop!Clear /\ LoopGone
  /\ UNCHANGED <<attrs, main, running, net>>

SocketEnds ==
  /\ socket # "none" /\ socket' = "none" /\ Posts("close")
  /\ UNCHANGED <<loop, attrs, main, running, call>>

-----------------------------------------------------------------------------
(* start() and stop().                                                     *)

\* The k-th way start() tries to open the device: float32 before int16, the
\* default-device call before explicit parameters, its own rate before the device's,
\* its own block before PortAudio's choice.  The direct open is the first.
Try(k) ==
  [format |-> IF k < 8 THEN "float32" ELSE "int16",
   api    |-> IF k % 8 < 4 THEN "default" ELSE "params",
   rate   |-> IF k % 4 < 2 THEN rate ELSE Native[index],
   block  |-> IF k % 2 = 0 THEN block ELSE AnySize]

\* The default-device call would open another device than the one picked.
Accepted(k) ==
  /\ Try(k) \in Takes[index]
  /\ index # Default => Try(k).api = "params"

Found == {Try(k) : k \in {i \in 0..15 : Accepted(i) /\ \A j \in 0..(i - 1) : ~Accepted(j)}}

Runs(way) == running' = Append(running, [device |-> index, way |-> way])

\* Pa_StartStream runs the callback before start() has stored more than the
\* format.  The mutated form stores the format last.
Opens_FormatLate ==
  /\ doing = "start" /\ stream = NoStream /\ doing' = "opened"
  /\ \E way \in Found : Runs(way)
  /\ UNCHANGED <<loop, attrs, pick, offline, connected, call, net>>

Opens ==
  /\ doing = "start" /\ stream = NoStream /\ doing' = "opened"
  /\ \E way \in Found : format' = way.format /\ Runs(way)
  /\ UNCHANGED <<loop, stream, rate, block, index, pick, offline, connected, call, net>>

\* Nothing is accepted, another program holds the device, or Pa_StartStream
\* refuses, after the format was stored.
OpenFails ==
  /\ doing = "start" /\ stream = NoStream /\ doing' = "idle"
  /\ format' \in {format} \cup {way.format : way \in Found}
  /\ UNCHANGED <<loop, stream, rate, block, index, pick, offline, connected, running, call, net>>

\* start() takes over what it got, and asks for that the next time.
Started ==
  /\ doing = "opened" /\ doing' = "idle"
  /\ LET s == running[Len(running)] IN
       stream' = s /\ rate' = s.way.rate /\ block' = s.way.block
  /\ UNCHANGED <<loop, format, index, pick, offline, connected, running, call, net>>

\* start() does nothing when it holds a stream.
StartsNothing ==
  /\ doing = "start" /\ stream # NoStream /\ doing' = "idle"
  /\ UNCHANGED <<loop, attrs, pick, offline, connected, running, call, net>>

\* Pa_StopStream returns when the callback has.
Stopped ==
  /\ doing \in {"switch", "stop"} /\ call.left = 0
  /\ stream' = NoStream /\ running' = SubSeq(running, 1, Len(running) - 1)
  /\ doing' = IF doing = "switch" THEN "start" ELSE "idle"
  /\ UNCHANGED <<loop, rate, block, format, index, pick, offline, connected, call, net>>

-----------------------------------------------------------------------------
(* The main thread.                                                        *)

Connect ==
  /\ doing = "idle" /\ ~connected /\ socket = "none" /\ socket' = "dialing"
  \* events of earlier connections will be dropped, but loop-initialized has no generation
  /\ LET kept == {i \in DOMAIN inbound : inbound[i] = "loop-initialized"}
     IN inbound' = [i \in 1..Cardinality(kept) |-> "loop-initialized"]
  /\ UNCHANGED <<loop, attrs, main, running, call>>

Drains(e) ==
  /\ doing = "idle" /\ inbound # << >> /\ Head(inbound) = e
  /\ inbound' = Tail(inbound)

Opened ==
  /\ Drains("open") /\ connected' = TRUE
  /\ UNCHANGED <<loop, attrs, pick, offline, doing, running, call, socket>>

\* A close leaves the speaker alone.
Closed ==
  /\ Drains("close") /\ connected' = FALSE
  /\ UNCHANGED <<loop, attrs, pick, offline, doing, running, call, socket>>

\* If the Speakerout par is on, the pick is pushed and the speaker started.
LoopInitialized ==
  /\ Drains("loop-initialized")
  /\ \/ index' = pick /\ doing' = "start"
     \/ UNCHANGED <<index, doing>>
  /\ UNCHANGED <<loop, stream, rate, block, format, pick, offline, connected, running, call, socket>>

\* The Audiodevice par is set, by the user or by a refresh that no longer finds
\* the device.  While connected, and with Speakerout on, playback is switched.
PickDevice(d) ==
  /\ doing = "idle" /\ d # pick /\ pick' = d /\ index' = d
  /\ offline' = (~connected /\ socket = "none" /\ inbound = << >>)
  /\ \/ connected /\ doing' = IF stream = NoStream THEN "start" ELSE "switch"
     \/ UNCHANGED doing
  /\ UNCHANGED <<loop, stream, rate, block, format, connected, running, call, net>>

Disconnect ==
  /\ doing = "idle" /\ (connected \/ socket \in {"dialing", "up"})
  /\ connected' = FALSE
  /\ Loop!Clear /\ LoopGone
  /\ doing' = IF stream = NoStream THEN "idle" ELSE "stop"
  /\ CASE socket = "up"      -> socket' \in {"in hand", "ending"}
       [] socket = "dialing" -> socket' = "ending"
       [] OTHER              -> UNCHANGED socket
  /\ UNCHANGED <<attrs, pick, offline, running, inbound>>

-----------------------------------------------------------------------------
(* The audio thread: _pa_callback.                                         *)

\* PortAudio asks for a block: of the size it was opened with, or of any.
Asked == LET b == running[1].way.block IN IF b = AnySize THEN 1..MaxBlock ELSE {b}

CallbackBegins(n) ==
  /\ running # << >> /\ call.left = 0 /\ n \in Asked
  /\ call' = [left |-> n, from |-> IF frames = 0 THEN -1 ELSE position, out |-> << >>]
  /\ UNCHANGED <<loop, attrs, main, running, net>>

\* How much one pass fills, no more than the scratch holds, and how much it
\* reads.  The mutated forms fill and read the whole scratch each time.
Taken_Whole == ScratchFrames
Taken == Loop!Lesser(call.left, ScratchFrames)
Pass_Whole == ScratchFrames
Pass == Taken

\* One pass of the loop that fills the block; between two, the lock is free.
CallbackReads ==
  /\ call.left > 0
  /\ LET heard == SubSeq(Loop!ReadInto(position, Pass).out, 1, Taken)
     IN call' = [call EXCEPT !.left = @ - Taken,
                             !.out = IF call.from = -1 THEN << >> ELSE @ \o heard]
  /\ IF frames = 0 THEN UNCHANGED loop ELSE Loop!Read(Pass)
  /\ UNCHANGED <<attrs, main, running, net>>

-----------------------------------------------------------------------------
Next ==
  \/ SocketOpens \/ SwapReady \/ SocketEnds \/ \E n \in Sizes : InitialBuffer(n)
  \/ Opens \/ OpenFails \/ Started \/ StartsNothing \/ Stopped
  \/ Connect \/ Opened \/ Closed \/ LoopInitialized \/ Disconnect
  \/ \E d \in Outputs : PickDevice(d)
  \/ CallbackReads \/ \E n \in 1..MaxBlock : CallbackBegins(n)

Spec == Init /\ [][Next]_vars

-----------------------------------------------------------------------------
(* Properties *)

\* Between two operations PortAudio runs the stream that SpeakerOut holds and no
\* other, so one thread moves the playhead ("Only one consumer", audio.py:413);
\* and whenever it may call back, the callback writes the samples in the format
\* the stream was opened with.  (start, stop, _apply_audio_device_selection)
StreamInHand ==
  /\ doing = "idle" => running = IF stream = NoStream THEN << >> ELSE <<stream>>
  /\ \A i \in DOMAIN running : running[i].way.format = format

\* A block read in several passes is what one read would have given, unless the
\* loop was replaced or cleared under it.  (_pa_callback)
BlockIsOneRead ==
  call.from # -1 =>
    [out |-> call.out, position |-> position] = Loop!ReadInto(call.from, Len(call.out))

\* The device picked while not connected "applies on the next Connect" (README):
\* once the loop of a connection has arrived, it is the one that plays.
\* (_on_loop_initialized)
DevicePicked ==
  [][StartsNothing /\ connected /\ offline => stream.device = pick]_vars
=============================================================================
