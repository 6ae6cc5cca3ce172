--------------------------- MODULE SpeakerProofs ---------------------------
(***************************************************************************)
(* Proofs about SpeakerOut, for every set of devices, whatever each of them *)
(* accepts.  StreamInHand looks at the moments between two operations; what *)
(* makes it inductive is InHand, which says where the one stream is while   *)
(* the main thread is in the middle of one.                                 *)
(*                                                                         *)
(* BlockIsOneRead looks at a callback that is done; CallInv says of one    *)
(* that is not that what it has read is one read of the loop from where it *)
(* began, as long as the loop is the same, which LoopProofs extends by a   *)
(* pass.  ThreadsTyped and StreamTyped are the rest of TypeOK, one for     *)
(* what the threads share and one for the stream.  With them each step of  *)
(* the speaker is a step of its LoopBuffer or leaves the loop alone.       *)
(***************************************************************************)
EXTENDS SpeakerOut, SequenceTheorems, FiniteSetTheorems, TLAPS

\* What is proved of the loop, for the loop the callback reads.
LP == INSTANCE LoopProofs
        WITH patched <- {}, unmarked <- << >>, written <- {}, Slices <- {}

\* The streams PortAudio runs, by what the main thread is doing.  Between the
\* callback's first chance and the end of start(), only PortAudio knows it.
InHand ==
  /\ doing # "opened" => running = IF stream = NoStream THEN << >> ELSE <<stream>>
  /\ doing = "opened" => stream = NoStream /\ \E s \in Streams : running = <<s>>
  /\ doing \in {"switch", "stop"} => stream # NoStream

FormatKept == \A i \in DOMAIN running : running[i].way.format = format

Picked == index \in Outputs /\ pick \in Outputs

StreamInv ==
  /\ doing \in {"idle", "start", "opened", "switch", "stop"}
  /\ Picked /\ InHand /\ FormatKept

\* What is opened is a stream of a device there is, and no such stream is taken
\* for none.
LEMMA FoundIsStream ==
  ASSUME Picked, NEW way \in Found
  PROVE  [device |-> index, way |-> way] \in Streams
BY SpeakerAssumption DEF Picked, Found, Accepted, Streams

LEMMA StreamIsSome == NoStream \notin Streams
BY DEF NoStream, Streams, Ways

-----------------------------------------------------------------------------
(* One step *)

\* No stream is open at first.
LEMMA StreamInit == Init => StreamInv
BY DEF Init, StreamInv, Picked, InHand, FormatKept, Outputs

\* Each step keeps track of the one stream.
LEMMA StreamStep == StreamInv /\ [Next]_vars => StreamInv'
<1> SUFFICES ASSUME StreamInv, [Next]_vars PROVE StreamInv'
  OBVIOUS
<1> USE DEF StreamInv, Picked, InHand, FormatKept
\* The recv thread and the audio thread leave the streams alone.
<1>1. CASE UNCHANGED <<attrs, main, running>>
  BY <1>1 DEF attrs, main
<1>2. CASE Opens
  <2>1. PICK way \in Found : format' = way.format /\ Runs(way)
    BY <1>2 DEF Opens
  <2>2. running' = <<[device |-> index, way |-> way]>>
    BY <1>2, <2>1 DEF Opens, Runs
  <2>3. QED
    BY <1>2, <2>1, <2>2, FoundIsStream DEF Opens
<1>3. CASE OpenFails
  BY <1>3 DEF OpenFails
<1>4. CASE Started
  <2>1. PICK s \in Streams : running = <<s>>
    BY <1>4 DEF Started
  <2>2. stream' = s /\ s # NoStream
    BY <1>4, <2>1, StreamIsSome DEF Started
  <2>3. QED
    BY <1>4, <2>1, <2>2 DEF Started
<1>5. CASE StartsNothing
  BY <1>5 DEF StartsNothing, attrs
<1>6. CASE Stopped
  <2>1. running = <<stream>> /\ running' = << >> /\ stream' = NoStream
    BY <1>6 DEF Stopped
  <2>2. QED
    BY <1>6, <2>1 DEF Stopped
<1>7. CASE LoopInitialized
  BY <1>7 DEF LoopInitialized, Drains
<1>8. CASE \E d \in Outputs : PickDevice(d)
  BY <1>8 DEF PickDevice
<1>9. CASE Disconnect
  BY <1>9 DEF Disconnect, attrs
<1>10. CASE Opened \/ Closed
  BY <1>10 DEF Opened, Closed, Drains, attrs
<1>11. QED
  <2>1. ASSUME NEW n, InitialBuffer(n) \/ CallbackBegins(n) PROVE UNCHANGED <<attrs, main, running>>
    BY <2>1 DEF InitialBuffer, CallbackBegins
  <2>2. ASSUME SocketOpens \/ SwapReady \/ SocketEnds \/ Connect \/ CallbackReads
        PROVE UNCHANGED <<attrs, main, running>>
    BY <2>2 DEF SocketOpens, SwapReady, SocketEnds, Connect, CallbackReads
  <2>3. QED
    BY <1>1, <1>2, <1>3, <1>4, <1>5, <1>6, <1>7, <1>8, <1>9, <1>10, <2>1, <2>2
       DEF Next, vars

\* Between two operations PortAudio runs the stream in hand and no other, and a
\* callback never writes samples of another format than its stream was opened
\* with, whatever the devices accept or refuse.
THEOREM StreamInHandAlways == Spec => []StreamInHand
<1>1. StreamInv => StreamInHand
  BY DEF StreamInv, InHand, FormatKept, StreamInHand
<1>2. QED
  BY <1>1, StreamInit, StreamStep, PTL DEF Spec

-----------------------------------------------------------------------------
(* The loop, and the callback that reads it                                  *)

\* The buffer assumptions of the loop are among those of the speaker.
LEMMA LoopAssumed == LP!LoopAssumption /\ Loop!LoopAssumption
BY SpeakerAssumption DEF LP!LoopAssumption, Loop!LoopAssumption

\* The loop proved about is the loop the callback reads.
LEMMA SameReadInto ==
  ASSUME NEW p, NEW n
  PROVE  LP!ReadInto(p, n) = Loop!ReadInto(p, n)
BY DEF LP!ReadInto, Loop!ReadInto, LP!Lesser, Loop!Lesser, LP!Seam, Loop!Seam,
       LP!Raw, Loop!Raw, LP!Folded, Loop!Folded, LP!SeamOffset, Loop!SeamOffset,
       LP!Wrapped, Loop!Wrapped

Calls == [left : 0..MaxBlock, from : {-1} \cup Nat, out : Seq(LP!Cells)]

\* A callback whose loop is still there has read what one read would have, and
\* the playhead, which no one else moves, is where that read would have left it.
CallInv ==
  /\ Loop!TypeOK /\ (frames # 0 => position \in LP!Lap)
  /\ call \in Calls /\ Len(call.out) + call.left <= MaxBlock
  /\ call.from = -1 => call.out = << >>
  /\ call.from # -1 =>
       /\ frames # 0 /\ call.from \in LP!Lap
       /\ LP!Stepwise(call.from, Len(call.out)) = [out |-> call.out, position |-> position]

\* What is proved of a loop that plays holds in SpeakerOut.
LEMMA LoopPlays ==
  ASSUME Loop!TypeOK, frames # 0
  PROVE  LP!Playing /\ LP!Lap \subseteq LP!Places /\ LP!Lap \subseteq 0..frames
<1>1. LP!Playing
  BY LoopAssumed DEF Loop!TypeOK, LP!Playing, LP!LoopAssumption
<1>2. LP!Lap \subseteq LP!Places
  BY <1>1, LoopAssumed, LP!LapIsPlaces
<1>3. LP!Places \subseteq 0..frames
  BY <1>1 DEF LP!Places, LP!Playing
<1>4. QED
  BY <1>1, <1>2, <1>3

\* One pass of a callback reads as many samples as it needs, one by one.
LEMMA PassReads ==
  ASSUME Loop!TypeOK, frames # 0, NEW p \in LP!Lap, NEW n \in Nat
  PROVE  LET r == Loop!ReadInto(p, n)
         IN  /\ r = LP!Stepwise(p, n)
             /\ r.position \in LP!Lap
             /\ r.out \in Seq(LP!Cells) /\ Len(r.out) = n
<1>1. LP!Playing /\ p \in LP!Places
  BY LoopPlays
<1>2. LP!ReadInto(p, n) = LP!Stepwise(p, n)
  BY <1>1, LoopAssumed, LP!ReadIntoIsStepwise
<1>3. LP!ReadInto(p, n).position \in LP!Lap
  BY <1>1, LoopAssumed, LP!ReadStays
<1>4. LP!Stepwise(p, n).out \in Seq(LP!Cells) /\ Len(LP!Stepwise(p, n).out) = n
  BY <1>1, LoopAssumed, LP!StepwiseTypes
<1>5. QED
  BY <1>2, <1>3, <1>4, SameReadInto

\* A pass fills at least one frame and at most the scratch.
LEMMA PassLength ==
  ASSUME CallInv, call.left > 0
  PROVE  Pass \in 1..MaxBlock /\ Pass = Taken /\ Pass <= call.left
BY SpeakerAssumption DEF CallInv, Calls, Pass, Taken, Loop!Lesser

\* No call is under way at first.
LEMMA CallInit == Init => CallInv
<1> SUFFICES ASSUME Init PROVE CallInv
  OBVIOUS
<1>1. Loop!TypeOK /\ frames = 0
  BY DEF Init, Loop!Init, Loop!TypeOK
<1>2. call.left = 0 /\ call.from = -1 /\ call.out = << >> /\ call \in Calls
  BY SpeakerAssumption DEF Init, NoCall, Calls
<1>3. QED
  BY <1>1, <1>2, SpeakerAssumption DEF CallInv

\* A pass of no frames leaves the playhead alone.
LEMMA ReadsNothing ==
  ASSUME Loop!TypeOK, frames # 0, NEW p \in LP!Lap
  PROVE  LP!Stepwise(p, 0) = [out |-> << >>, position |-> p]
<1>1. LP!Playing /\ p \in LP!Places /\ 0 \in Nat
  BY LoopPlays
<1>2. PICK g : LP!Path(g, p)
  BY <1>1, LoopAssumed, LP!PathExists
<1>3. LP!Stepwise(p, 0) = [out |-> [k \in 1..0 |-> LP!Sample(g[k - 1])], position |-> g[0]]
  BY <1>1, <1>2, LoopAssumed, LP!StepwiseIs
<1>4. g[0] = p /\ [k \in 1..0 |-> LP!Sample(g[k - 1])] = << >>
  BY <1>2 DEF LP!Path
<1>5. QED
  BY <1>3, <1>4

\* What is read depends on the loop and on nothing else.
LEMMA StepwiseKept ==
  ASSUME UNCHANGED frames
  PROVE  \A p, n : (LP!Stepwise(p, n))' = LP!Stepwise(p, n)
BY DEF LP!Stepwise, LP!Advance, LP!Sample, LP!Seam, LP!Raw, LP!Folded

\* Each step keeps what is known of the call under way.
LEMMA CallStep == CallInv /\ [Next]_vars => CallInv'
<1> SUFFICES ASSUME CallInv, [Next]_vars PROVE CallInv'
  OBVIOUS
<1>0. call \in Calls /\ MaxBlock \in Nat \ {0} /\ Loop!TypeOK
  BY SpeakerAssumption DEF CallInv
\* Nobody but the recv thread, a Disconnect and the callback concerns the loop.
<1>1. CASE UNCHANGED <<frames, position, call>>
  <2>1. LP!Lap' = LP!Lap /\ Loop!TypeOK' = Loop!TypeOK
    BY <1>1 DEF LP!Lap, LP!Seam, Loop!TypeOK, Loop!Chunks
  <2>2. QED
    BY <1>1, <2>1, StepwiseKept DEF CallInv, Calls
<1>2. ASSUME LoopGone, Loop!TypeOK', (frames # 0 => position \in LP!Lap)' PROVE CallInv'
  <2>1. call'.left = call.left /\ call'.from = -1 /\ call'.out = << >> /\ call' \in Calls
    <3>1. << >> \in Seq(LP!Cells)
      OBVIOUS
    <3>2. call' = [left |-> call.left, from |-> -1, out |-> << >>]
      BY <1>0, <1>2 DEF LoopGone, Calls
    <3>3. QED
      BY <1>0, <3>1, <3>2 DEF Calls
  <2>2. call.left <= MaxBlock /\ Len(call'.out) = 0
    BY <1>0, <2>1 DEF Calls
  <2>3. QED
    BY <1>0, <1>2, <2>1, <2>2 DEF CallInv, Calls
<1>3. ASSUME NEW n \in Sizes, InitialBuffer(n) PROVE CallInv'
  <2>1. frames' = n /\ position' = Loop!Lesser(SeamFrames, n \div 4) /\ LoopGone
    BY <1>3 DEF InitialBuffer, Loop!InitLoop
  <2>2. n \in Nat /\ n >= 4
    BY SpeakerAssumption
  <2>3. Loop!Lesser(SeamFrames, n \div 4) \in 0..(n - 1)
    BY <2>2, SpeakerAssumption DEF Loop!Lesser
  <2>4. Loop!TypeOK'
    BY <2>1, <2>2, <2>3 DEF Loop!TypeOK
  <2>5. (position \in LP!Lap)'
    BY <2>1, <2>2, <2>3 DEF LP!Lap, LP!Seam, LP!Lesser, Loop!Lesser
  <2>6. QED
    BY <1>2, <2>1, <2>4, <2>5
<1>4. CASE SwapReady \/ Disconnect
  <2>1. frames' = 0 /\ position' = 0 /\ LoopGone
    BY <1>4 DEF SwapReady, Disconnect, Loop!Clear
  <2>2. Loop!TypeOK'
    BY <2>1 DEF Loop!TypeOK
  <2>3. QED
    BY <1>2, <2>1, <2>2
<1>5. ASSUME NEW n \in 1..MaxBlock, CallbackBegins(n) PROVE CallInv'
  <2>1. /\ UNCHANGED <<frames, position>>
        /\ call' = [left |-> n, from |-> IF frames = 0 THEN -1 ELSE position, out |-> << >>]
    BY <1>5 DEF CallbackBegins, loop
  <2>2. LP!Lap' = LP!Lap /\ Loop!TypeOK' = Loop!TypeOK
    BY <2>1 DEF LP!Lap, LP!Seam, Loop!TypeOK, Loop!Chunks
  <2>3. /\ call' \in Calls /\ call'.out = << >> /\ Len(call'.out) = 0 /\ call'.left = n
        /\ call'.from = IF frames = 0 THEN -1 ELSE position
    <3>1. << >> \in Seq(LP!Cells) /\ position \in Nat
      BY <1>0, SpeakerAssumption DEF Loop!TypeOK
    <3>2. QED
      BY <1>0, <2>1, <3>1 DEF Calls
  <2>4. CASE frames = 0
    BY <1>0, <2>1, <2>2, <2>3, <2>4 DEF CallInv
  <2>5. CASE frames # 0
    <3>1. position \in LP!Lap /\ call'.from = position /\ position # -1
      BY <1>0, <2>3, <2>5, LoopPlays DEF CallInv, Loop!TypeOK
    <3>2. LP!Stepwise(position, 0) = [out |-> << >>, position |-> position]
      BY <1>0, <2>5, <3>1, ReadsNothing
    <3>3. (LP!Stepwise(call.from, Len(call.out)))' = [out |-> call'.out, position |-> position']
      BY <2>1, <2>3, <3>1, <3>2, StepwiseKept
    <3>4. QED
      BY <1>0, <2>1, <2>2, <2>3, <2>5, <3>1, <3>3 DEF CallInv
  <2>6. QED
    BY <2>4, <2>5
<1>6. CASE CallbackReads
  <2> DEFINE r == Loop!ReadInto(position, Pass)
  <2>1. /\ call.left > 0
        /\ call' = [call EXCEPT !.left = call.left - Taken,
                                !.out = IF call.from = -1 THEN << >>
                                        ELSE call.out \o SubSeq(r.out, 1, Taken)]
        /\ IF frames = 0 THEN UNCHANGED loop ELSE Loop!Read(Pass)
    BY <1>6 DEF CallbackReads
  <2>2. Pass \in 1..MaxBlock /\ Pass = Taken /\ Pass <= call.left
    BY <2>1, PassLength
  <2>3. /\ call'.left = call.left - Pass /\ call'.from = call.from
        /\ call'.out = IF call.from = -1 THEN << >> ELSE call.out \o SubSeq(r.out, 1, Pass)
        /\ call' = [left |-> call'.left, from |-> call'.from, out |-> call'.out]
    BY <1>0, <2>1, <2>2 DEF Calls
  <2> HIDE DEF r
  <2>4. UNCHANGED frames
    BY <2>1 DEF loop, Loop!Read
  <2>5. LP!Lap' = LP!Lap /\ (Loop!TypeOK => (Loop!TypeOK' <=> position' \in 0..frames))
    BY <1>0, <2>4 DEF LP!Lap, LP!Seam, Loop!TypeOK, Loop!Chunks
  <2>6. CASE frames = 0
    <3>1. UNCHANGED position /\ call.from = -1
      BY <2>1, <2>6 DEF loop, CallInv
    <3>2. call'.out = << >> /\ call'.from = -1 /\ call'.left \in 0..MaxBlock /\ Len(call'.out) = 0
      BY <1>0, <2>2, <2>3, <3>1 DEF Calls
    <3>3. << >> \in Seq(LP!Cells)
      OBVIOUS
    <3>4. call' \in Calls
      BY <2>3, <3>2, <3>3 DEF Calls
    <3>5. QED
      BY <1>0, <2>4, <2>5, <2>6, <3>1, <3>2, <3>4 DEF CallInv, Loop!TypeOK
  <2>7. CASE frames # 0
    <3>1. position' = r.position /\ position \in LP!Lap
      BY <2>1, <2>7 DEF Loop!Read, CallInv, r
    <3>2. /\ r = LP!Stepwise(position, Pass) /\ r.position \in LP!Lap
          /\ r.out \in Seq(LP!Cells) /\ Len(r.out) = Pass
      BY <1>0, <2>2, <2>7, <3>1, PassReads DEF r
    <3>3. SubSeq(r.out, 1, Pass) = r.out
      BY <2>2, <3>2
    <3>4. position' \in 0..frames
      BY <1>0, <2>7, <3>1, <3>2, LoopPlays
    <3>5. CASE call.from = -1
      <4>1. call'.out = << >> /\ call'.from = -1 /\ call'.left \in 0..MaxBlock /\ Len(call'.out) = 0
        BY <1>0, <2>2, <2>3, <3>5 DEF Calls
      <4>2. << >> \in Seq(LP!Cells)
        OBVIOUS
      <4>3. call' \in Calls
        BY <2>3, <4>1, <4>2 DEF Calls
      <4>4. QED
        BY <1>0, <2>4, <2>5, <2>7, <3>1, <3>2, <3>4, <4>1, <4>3 DEF CallInv
    <3>6. CASE call.from # -1
      <4>1. /\ call.out \in Seq(LP!Cells) /\ Len(call.out) \in Nat /\ call.from \in LP!Lap
            /\ LP!Stepwise(call.from, Len(call.out)) = [out |-> call.out, position |-> position]
        BY <1>0, <3>6 DEF CallInv, Calls
      <4>2. /\ call'.out = call.out \o r.out /\ call'.out \in Seq(LP!Cells)
            /\ Len(call'.out) = Len(call.out) + Pass
        <5>1. call'.out = call.out \o r.out
          BY <2>3, <3>3, <3>6
        <5>2. /\ call.out \o r.out \in Seq(LP!Cells)
              /\ Len(call.out \o r.out) = Len(call.out) + Len(r.out)
          BY <3>2, <4>1, ConcatProperties
        <5>3. QED
          BY <3>2, <5>1, <5>2
      <4>3. LP!Stepwise(call.from, Len(call.out) + Pass)
              = [out |-> call.out \o r.out, position |-> r.position]
        <5>1. LP!Playing /\ call.from \in LP!Places /\ Pass \in Nat
          BY <1>0, <2>2, <2>7, <4>1, LoopPlays
        <5>2. LET first == LP!Stepwise(call.from, Len(call.out))
                  rest  == LP!Stepwise(first.position, Pass)
              IN  LP!Stepwise(call.from, Len(call.out) + Pass)
                    = [out |-> first.out \o rest.out, position |-> rest.position]
          BY <4>1, <5>1, LoopAssumed, LP!StepwiseAppend
        <5>3. QED
          BY <3>2, <4>1, <5>2
      <4>4. call'.left \in 0..MaxBlock /\ Len(call'.out) + call'.left <= MaxBlock
        BY <1>0, <2>2, <2>3, <4>1, <4>2 DEF CallInv, Calls
      <4>5. call' \in Calls
        BY <1>0, <2>3, <4>2, <4>4 DEF Calls
      <4>6. (LP!Stepwise(call.from, Len(call.out)))' = [out |-> call'.out, position |-> position']
        BY <2>3, <2>4, <3>1, <4>2, <4>3, StepwiseKept
      <4>7. QED
        BY <1>0, <2>3, <2>4, <2>5, <2>7, <3>1, <3>2, <3>4, <3>6, <4>1, <4>4, <4>5, <4>6 DEF CallInv
    <3>7. QED
      BY <3>5, <3>6
  <2>8. QED
    BY <2>6, <2>7
<1>7. QED
  <2>1. CASE UNCHANGED vars
    BY <1>1, <2>1 DEF vars, loop
  <2>2. CASE SocketOpens \/ SocketEnds \/ Connect
    BY <1>1, <2>2 DEF SocketOpens, SocketEnds, Connect, loop
  <2>3. CASE Opens \/ OpenFails \/ Started \/ StartsNothing \/ Stopped
    BY <1>1, <2>3 DEF Opens, OpenFails, Started, StartsNothing, Stopped, loop
  <2>4. CASE Opened \/ Closed \/ LoopInitialized \/ \E d \in Outputs : PickDevice(d)
    BY <1>1, <2>4 DEF Opened, Closed, LoopInitialized, PickDevice, loop
  <2>5. QED
    BY <1>3, <1>4, <1>5, <1>6, <2>1, <2>2, <2>3, <2>4 DEF Next

-----------------------------------------------------------------------------
(* The other variables                                                       *)

ThreadsTyped ==
  /\ connected \in BOOLEAN
  /\ socket \in {"none", "dialing", "up", "in hand", "ending"}
  /\ inbound \in Seq(Events)

StreamTyped ==
  /\ stream \in Streams \cup {NoStream} /\ running \in Seq(Streams)
  /\ rate \in Rates /\ block \in {FramesPerBuffer, AnySize}
  /\ format \in {"float32", "int16"}
  /\ index \in Outputs /\ pick \in Outputs /\ offline \in BOOLEAN
  /\ doing \in {"idle", "start", "opened", "switch", "stop"}

\* What is counted in a queue is a natural number.
LEMMA PlacesCounted ==
  ASSUME NEW S, NEW s \in Seq(S), NEW T, T \subseteq DOMAIN s
  PROVE  Cardinality(T) \in Nat
<1>1. Len(s) \in Nat /\ DOMAIN s = 1..Len(s)
  BY LenProperties
<1>2. IsFiniteSet(1..Len(s))
  BY <1>1, FS_Interval
<1>3. IsFiniteSet(T)
  BY <1>1, <1>2, FS_Subset
<1>4. QED
  BY <1>3, FS_CardinalityType

\* An event repeated is a queue of events.
LEMMA RepeatedIsSeq ==
  ASSUME NEW S, NEW e \in S, NEW n \in Nat
  PROVE  [i \in 1..n |-> e] \in Seq(S)
OBVIOUS

\* Each step keeps the types of what the two threads share.
LEMMA ThreadsStep == ThreadsTyped /\ [Next]_vars => ThreadsTyped'
<1> SUFFICES ASSUME ThreadsTyped, [Next]_vars PROVE ThreadsTyped'
  OBVIOUS
<1> USE DEF ThreadsTyped
<1>0. inbound \in Seq(Events) /\ "open" \in Events /\ "loop-initialized" \in Events /\ "close" \in Events
  BY DEF Events
<1>1. CASE UNCHANGED <<connected, socket, inbound>>
  BY <1>1
<1>2. CASE Connect
  <2> DEFINE kept == {i \in DOMAIN inbound : inbound[i] = "loop-initialized"}
  <2>1. Cardinality(kept) \in Nat
    BY <1>0, PlacesCounted
  <2>2. inbound' = [i \in 1..Cardinality(kept) |-> "loop-initialized"]
    BY <1>2 DEF Connect
  <2> HIDE DEF kept
  <2>3. inbound' \in Seq(Events)
    BY <1>0, <2>1, <2>2, RepeatedIsSeq
  <2>4. QED
    BY <1>2, <2>3 DEF Connect, main
<1>3. CASE SocketOpens \/ SocketEnds
  <2>1. CASE SocketOpens
    BY <1>0, <2>1, AppendProperties DEF SocketOpens, Posts, main
  <2>2. CASE SocketEnds
    BY <1>0, <2>2, AppendProperties DEF SocketEnds, Posts, main
  <2>3. QED
    BY <1>3, <2>1, <2>2
<1>4. ASSUME NEW n \in Sizes, InitialBuffer(n) PROVE ThreadsTyped'
  BY <1>0, <1>4, AppendProperties DEF InitialBuffer, Arrives, Posts, main
<1>5. ASSUME NEW e, Drains(e) PROVE inbound' \in Seq(Events)
  BY <1>5, HeadTailProperties DEF Drains
<1>6. CASE Opened \/ Closed \/ LoopInitialized
  BY <1>5, <1>6 DEF Opened, Closed, LoopInitialized
<1>7. CASE Disconnect
  BY <1>7 DEF Disconnect
<1>8. QED
  <2>1. CASE UNCHANGED vars \/ SwapReady \/ CallbackReads
    BY <1>1, <2>1 DEF vars, main, net, SwapReady, CallbackReads
  <2>2. CASE Opens \/ OpenFails \/ Started \/ StartsNothing \/ Stopped
    BY <1>1, <2>2 DEF Opens, OpenFails, Started, StartsNothing, Stopped, net
  <2>3. ASSUME NEW n, CallbackBegins(n) PROVE ThreadsTyped'
    BY <1>1, <2>3 DEF CallbackBegins, main, net
  <2>4. ASSUME NEW d, PickDevice(d) PROVE ThreadsTyped'
    BY <1>1, <2>4 DEF PickDevice, net
  <2>5. QED
    BY <1>2, <1>3, <1>4, <1>6, <1>7, <2>1, <2>2, <2>3, <2>4 DEF Next

\* Each step keeps the types of the stream and its format.
LEMMA StreamTypeStep == StreamTyped /\ StreamInv /\ [Next]_vars => StreamTyped'
<1> SUFFICES ASSUME StreamTyped, StreamInv, [Next]_vars PROVE StreamTyped'
  OBVIOUS
<1> USE DEF StreamTyped
<1>1. CASE UNCHANGED <<attrs, pick, offline, doing, running>>
  BY <1>1 DEF attrs
<1>2. ASSUME NEW way \in Found
      PROVE way \in Ways /\ [device |-> index, way |-> way] \in Streams
  BY <1>2, FoundIsStream, SpeakerAssumption DEF StreamInv, Found, Accepted, Picked
<1>3. CASE Opens
  <2>1. PICK way \in Found : format' = way.format /\ Runs(way)
    BY <1>3 DEF Opens
  <2>2. running' \in Seq(Streams) /\ format' \in {"float32", "int16"}
    BY <1>2, <2>1 DEF Runs, Ways
  <2>3. QED
    BY <1>3, <2>2 DEF Opens
<1>4. CASE OpenFails
  BY <1>2, <1>4 DEF OpenFails, Ways
<1>5. CASE Started
  <2>1. PICK s \in Streams : running = <<s>>
    BY <1>5 DEF Started, StreamInv, InHand
  <2>2. stream' = s /\ rate' = s.way.rate /\ block' = s.way.block
    BY <1>5, <2>1 DEF Started
  <2>3. QED
    BY <1>5, <2>1, <2>2 DEF Started, Streams, Ways
<1>6. CASE Stopped
  <2>1. running' = << >> /\ stream' = NoStream
    BY <1>6 DEF Stopped, StreamInv, InHand
  <2>2. QED
    BY <1>6, <2>1 DEF Stopped
<1>7. CASE StartsNothing \/ LoopInitialized \/ Disconnect
  BY <1>7 DEF StartsNothing, LoopInitialized, Disconnect, attrs
<1>8. ASSUME NEW d \in Outputs, PickDevice(d) PROVE StreamTyped'
  BY <1>8 DEF PickDevice
<1>9. QED
  <2>1. CASE UNCHANGED vars \/ SwapReady \/ CallbackReads
    BY <1>1, <2>1 DEF vars, main, net, SwapReady, CallbackReads
  <2>2. CASE SocketOpens \/ SocketEnds \/ Connect \/ Opened \/ Closed
    BY <1>1, <2>2 DEF SocketOpens, SocketEnds, Connect, Opened, Closed, main
  <2>3. ASSUME NEW n, CallbackBegins(n) \/ InitialBuffer(n) PROVE StreamTyped'
    BY <1>1, <2>3 DEF CallbackBegins, InitialBuffer, main
  <2>4. QED
    BY <1>3, <1>4, <1>5, <1>6, <1>7, <1>8, <2>1, <2>2, <2>3 DEF Next

SpeakerInv == CallInv /\ ThreadsTyped /\ StreamTyped /\ StreamInv

\* The three parts together hold always.
LEMMA SpeakerInvariant == Spec => []SpeakerInv
<1>1. Init => SpeakerInv
  <2>1. Init => ThreadsTyped
    <3>1. << >> \in Seq(Events)
      OBVIOUS
    <3>2. QED
      BY <3>1 DEF Init, ThreadsTyped
  <2>2. Init => StreamTyped
    <3>1. << >> \in Seq(Streams)
      OBVIOUS
    <3>2. QED
      BY <3>1 DEF Init, StreamTyped, Rates, Outputs
  <2>3. QED
    BY <2>1, <2>2, CallInit, StreamInit DEF SpeakerInv
<1>2. SpeakerInv /\ [Next]_vars => SpeakerInv'
  BY CallStep, ThreadsStep, StreamTypeStep, StreamStep DEF SpeakerInv
<1>3. QED
  BY <1>1, <1>2, PTL DEF Spec

\* Every variable keeps its type; in particular a callback never collects more
\* than the longest block, in whatever passes it fills it.
THEOREM TypeCorrect == Spec => []TypeOK
<1>1. ASSUME SpeakerInv PROVE TypeOK
  <2>1. call.left \in 0..MaxBlock /\ Len(call.out) <= MaxBlock
    <3>1. call.left \in Nat /\ Len(call.out) \in Nat /\ Len(call.out) + call.left <= MaxBlock
      BY <1>1, SpeakerAssumption DEF SpeakerInv, CallInv, Calls
    <3>2. QED
      BY <3>1, SpeakerAssumption
  <2>2. call.from \in {-1} \cup 0..frames
    BY <1>1, LoopPlays DEF SpeakerInv, CallInv
  <2>3. QED
    BY <1>1, <2>1, <2>2 DEF SpeakerInv, CallInv, ThreadsTyped, StreamTyped, TypeOK
<1>2. QED
  BY <1>1, SpeakerInvariant, PTL

\* However the passes of a callback interleave with the recv thread and the main
\* thread, a block read from one loop is what one read would have given.
THEOREM BlockIsOneReadAlways == Spec => []BlockIsOneRead
<1>1. ASSUME SpeakerInv, call.from # -1
      PROVE  [out |-> call.out, position |-> position] = Loop!ReadInto(call.from, Len(call.out))
  <2>1. /\ Loop!TypeOK /\ frames # 0 /\ call.from \in LP!Lap /\ Len(call.out) \in Nat
        /\ LP!Stepwise(call.from, Len(call.out)) = [out |-> call.out, position |-> position]
    BY <1>1 DEF SpeakerInv, CallInv, Calls
  <2>2. QED
    BY <2>1, PassReads
<1>2. SpeakerInv => BlockIsOneRead
  BY <1>1 DEF BlockIsOneRead
<1>3. QED
  BY <1>2, SpeakerInvariant, PTL

\* Seen from the loop, the speaker, the device switches and the connections are
\* just initialisations, clears and reads of at most a block: what is proved of
\* LoopBuffer holds of the loop the speaker plays.
THEOREM ImplementsLoop == Spec => Loop!Spec
<1>1. Init => Loop!Init
  BY DEF Init
<1>2. ASSUME SpeakerInv, [Next]_vars PROVE [Loop!Next]_(Loop!vars)
  <2>1. ASSUME UNCHANGED loop PROVE UNCHANGED Loop!vars
    BY <2>1 DEF loop, Loop!vars
  <2>2. ASSUME NEW n \in Sizes, InitialBuffer(n) PROVE Loop!Next
    BY <2>2 DEF InitialBuffer, Loop!Next
  <2>3. CASE SwapReady \/ Disconnect
    BY <2>3 DEF SwapReady, Disconnect, Loop!Next
  <2>4. CASE CallbackReads
    <3>1. Pass \in 1..MaxBlock
      BY <1>2, <2>4, PassLength DEF CallbackReads, SpeakerInv
    <3>2. QED
      BY <2>1, <2>4, <3>1 DEF CallbackReads, Loop!Next
  <2>5. CASE UNCHANGED vars \/ SocketOpens \/ SocketEnds \/ Connect \/ Opened \/ Closed \/ LoopInitialized
    BY <2>1, <2>5 DEF vars, SocketOpens, SocketEnds, Connect, Opened, Closed, LoopInitialized
  <2>6. CASE Opens \/ OpenFails \/ Started \/ StartsNothing \/ Stopped
    BY <2>1, <2>6 DEF Opens, OpenFails, Started, StartsNothing, Stopped
  <2>7. ASSUME NEW n, CallbackBegins(n) \/ PickDevice(n) PROVE UNCHANGED Loop!vars
    BY <2>1, <2>7 DEF CallbackBegins, PickDevice
  <2>8. QED
    BY <1>2, <2>2, <2>3, <2>4, <2>5, <2>6, <2>7 DEF Next
<1>3. QED
  BY <1>1, <1>2, SpeakerInvariant, PTL DEF Spec, Loop!Spec
=============================================================================
