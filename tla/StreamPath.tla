----------------------------- MODULE StreamPath -----------------------------
(***************************************************************************)
(* The inbound audio path: the pod's frames, the BinaryRouter each         *)
(* connection gets, the one loop buffer they all write, and the main       *)
(* thread that opens, swaps and disconnects meanwhile.                     *)
(*                                                                         *)
(* A recv thread takes three steps per frame: it picks up self._router,    *)
(* asks that router whether it is detached, and acts.  The main thread may *)
(* run between any two.  close() waits 2 s for the recv thread, no longer, *)
(* so main never waits here: threads of closed clients overlap with the    *)
(* newest.  Audio is abstracted to the track it belongs to: a track is     *)
(* numbered by its connection and its place in it.                         *)
(***************************************************************************)
EXTENDS Naturals, Sequences, FiniteSets

CONSTANTS
  MaxOpens,      \* bound: connections opened
  MaxSwaps,      \* bound: source swaps per connection
  Blobs          \* stem blobs announced by one stem_assets

ASSUME StreamAssumption ==
  MaxOpens \in Nat \ {0} /\ MaxSwaps \in Nat /\ Blobs \in Nat \ {0}

Conn   == 1..MaxOpens
Track  == Conn \X (1..(1 + MaxSwaps))
Garbage == <<0, 0>>    \* bytes decoded as what they are not
None   == 0

VARIABLES
  router,      \* self._router, by the connection it was built for
  wsc,         \* self._wsc, likewise
  opens,       \* connections opened so far
  opening,     \* the main thread is inside _open_ws, past close()
  detached,    \* _detached of each router, as a set
  expecting,   \* _expecting_initial of each router, as a set
  blobsLeft,   \* _stem_blobs_pending
  ring,        \* tracks whose audio is in the loop; {} when there is no loop
  events,      \* _inbound, as far as audio goes
  speaker,     \* the PortAudio stream is open
  thread,      \* where each recv thread stands
  frame,       \* the frame it is handling
  via,         \* the router it picked up for it
  pod,         \* what each pod sends next
  stray        \* history: a frame slipped past a detached test

mainVars   == <<router, wsc, opens, opening, detached, speaker>>
routerVars == <<expecting, blobsLeft, ring>>
threadVars == <<thread, frame, via, pod>>
vars == <<mainVars, routerVars, events, threadVars, stray>>

NoFrame == [kind |-> "none", track |-> Garbage]
Frame(k, t) == [kind |-> k, track |-> t]
Text   == {"ready", "swap_ready", "stem_assets"}
Binary == {"initial", "slice", "blob"}
Frames == [kind : Text \cup Binary \cup {"none"}, track : Track \cup {Garbage}]
Pods   == [phase : {"start", "initial", "stream"},
           track : 1..(1 + MaxSwaps), blobs : 0..Blobs]
Events == {<<"loop-initialized", None>>} \cup {<<"swap_ready", c>> : c \in Conn}

TypeOK ==
  /\ router \in 0..MaxOpens /\ wsc \in {None, router} /\ opens \in 0..MaxOpens
  /\ opening \in BOOLEAN /\ stray \in BOOLEAN /\ speaker \in BOOLEAN
  /\ detached \subseteq Conn
  /\ expecting \subseteq Conn /\ blobsLeft \in [Conn -> 0..Blobs]
  /\ ring \subseteq Track \cup {Garbage}
  /\ events \in Seq(Events)
  /\ thread \in [Conn -> {"none", "reading", "routed", "admitted", "done"}]
  /\ frame \in [Conn -> Frames]
  /\ via \in [Conn -> 0..MaxOpens]
  /\ pod \in [Conn -> Pods]

Init ==
  /\ router = None /\ wsc = None /\ opens = 0 /\ opening = FALSE /\ stray = FALSE
  /\ detached = {} /\ speaker = FALSE
  /\ expecting = {} /\ blobsLeft = [c \in Conn |-> 0]
  /\ ring = {} /\ events = <<>>
  /\ thread = [c \in Conn |-> "none"] /\ frame = [c \in Conn |-> NoFrame]
  /\ via = [c \in Conn |-> None]
  /\ pod = [c \in Conn |-> [phase |-> "start", track |-> 1, blobs |-> 0]]

-----------------------------------------------------------------------------
(* Main thread *)

Some(c) == {c} \ {None}

\* Some thread has a frame of such a kind in hand, past the detached test.
InHand(kinds) == \E c \in Conn : thread[c] = "admitted" /\ frame[c].kind \in kinds

\* _open_ws, up to the return of close() on the old client, whose thread may
\* still be at work.
CloseOld ==
  /\ ~opening
  /\ opens < MaxOpens
  /\ opening' = TRUE
  /\ wsc' = None
  /\ UNCHANGED <<router, opens, detached, speaker, routerVars, events, threadVars, stray>>

\* The rest of _open_ws: detach the old router, build router and client.
OpenNew ==
  /\ opening
  /\ opening' = FALSE
  /\ opens' = opens + 1
  /\ detached' = detached \cup Some(router)
  /\ router' = opens + 1 /\ wsc' = opens + 1
  /\ thread' = [thread EXCEPT ![opens + 1] = "reading"]
  /\ stray' = (stray \/ InHand(Text \cup Binary))
  /\ UNCHANGED <<speaker, routerVars, events, frame, via, pod>>

\* Disconnect: detach, wipe the loop, stop the speaker, close.  A thread that
\* has a loop in hand will put it back.
Disconnect ==
  /\ ~opening
  /\ wsc # None
  /\ wsc' = None
  /\ detached' = detached \cup Some(router)
  /\ ring' = {}
  /\ speaker' = FALSE
  /\ stray' = (stray \/ InHand({"initial"}))
  /\ UNCHANGED <<router, opens, opening, expecting, blobsLeft, events, threadVars>>

\* loop-initialized carries no generation, so it is never stale.  Opening the
\* device may fail, which is logged only.
LoopInitialized ==
  /\ ~opening
  /\ events # <<>> /\ Head(events)[1] = "loop-initialized"
  /\ events' = Tail(events)
  /\ speaker' \in {speaker, TRUE}
  /\ UNCHANGED <<router, wsc, opens, opening, detached, routerVars, threadVars, stray>>

\* _ev_swap_ready only logs: the router has cleared the loop already.
EvSwapReady ==
  /\ ~opening
  /\ events # <<>> /\ Head(events)[1] = "swap_ready"
  /\ events' = Tail(events)
  /\ UNCHANGED <<mainVars, routerVars, threadVars, stray>>

-----------------------------------------------------------------------------
(* The pod, as the code expects it to behave *)

Says(c, kind, phase, track, blobs) ==
  /\ frame' = [frame EXCEPT ![c] = Frame(kind, <<c, track>>)]
  /\ pod' = [pod EXCEPT ![c] = [phase |-> phase, track |-> track, blobs |-> blobs]]

\* What the pod of connection c sends next, and where it stands then.  "ready"
\* and "swap_ready" announce one initial buffer, slices follow it, and the
\* blobs of a stem_assets come in one run.
Sends(c) ==
  LET p == pod[c] IN
  \/ p.phase = "start" /\ Says(c, "ready", "initial", p.track, p.blobs)
  \/ p.phase = "initial" /\ Says(c, "initial", "stream", p.track, p.blobs)
  \/ p.phase = "stream" /\ p.blobs > 0 /\ Says(c, "blob", "stream", p.track, p.blobs - 1)
  \/ /\ p.phase = "stream" /\ p.blobs = 0
     /\ \/ Says(c, "slice", "stream", p.track, p.blobs)
        \/ Says(c, "stem_assets", "stream", p.track, Blobs)
        \/ p.track <= MaxSwaps /\ Says(c, "swap_ready", "initial", p.track + 1, p.blobs)

-----------------------------------------------------------------------------
(* Recv thread of connection c *)

\* A frame arrives and the callback picks up the current router.  A thread told
\* to close still hands on the frame it is reading.
Read(c) ==
  /\ thread[c] = "reading"
  /\ Sends(c)
  /\ via' = [via EXCEPT ![c] = router]
  /\ thread' = [thread EXCEPT ![c] = "routed"]
  /\ UNCHANGED <<mainVars, routerVars, events, stray>>

\* _on_ws_text queues every text for the main thread, routed or not; only
\* swap_ready has a handler that matters here.
Queued(c) ==
  IF frame[c].kind = "swap_ready" THEN Append(events, <<"swap_ready", c>>) ELSE events

\* Back to the top of the loop, which a client told to close leaves; but a frame
\* that came in between the fragments of a swap's upload ends nothing, as nobody
\* looks at _closing there.
Onward(c) ==
  IF wsc = c \/ pod[c].phase = "stream" THEN "reading" ELSE "done"

Finished(c) ==
  /\ thread' = [thread EXCEPT ![c] = Onward(c)]
  /\ frame' = [frame EXCEPT ![c] = NoFrame]
  /\ via' = [via EXCEPT ![c] = None]
  /\ UNCHANGED <<mainVars, pod, stray>>

\* "if self._detached: return", the first thing sniff_text and handle_binary do.
\* The router asked may be that of a later connection.  The mutated form does
\* not ask.
Admit_Unchecked(c) ==
  /\ thread[c] = "routed"
  /\ thread' = [thread EXCEPT ![c] = "admitted"]
  /\ stray' = (stray \/ via[c] # c)
  /\ UNCHANGED <<mainVars, routerVars, events, frame, via, pod>>

Admit(c) ==
  /\ thread[c] = "routed" /\ via[c] \notin detached
  /\ thread' = [thread EXCEPT ![c] = "admitted"]
  /\ stray' = (stray \/ via[c] # c)
  /\ UNCHANGED <<mainVars, routerVars, events, frame, via, pod>>

Refuse(c) ==
  /\ thread[c] = "routed" /\ via[c] \in detached
  /\ events' = Queued(c)
  /\ Finished(c)
  /\ UNCHANGED routerVars

\* sniff_text.
Sniff(c) ==
  /\ thread[c] = "admitted" /\ frame[c].kind \in Text
  /\ expecting' = expecting \cup IF frame[c].kind = "stem_assets" THEN {} ELSE {via[c]}
  /\ blobsLeft' = [blobsLeft EXCEPT
       ![via[c]] = IF frame[c].kind = "stem_assets" THEN Blobs ELSE @]
  /\ ring' = IF frame[c].kind = "swap_ready" THEN {} ELSE ring
  /\ events' = Queued(c)
  /\ Finished(c)

\* What a binary is when it is taken for a whole loop: itself if it is one,
\* otherwise noise.
AsLoop(f) == IF f.kind = "initial" THEN f.track ELSE Garbage

\* _handle_initial: the frame becomes the loop, or it cannot be decoded and
\* the router goes on waiting (a frame of another kind).  The mutated form
\* forgets to stop waiting.
HandleInitial_KeepFlag(c) ==
  /\ thread[c] = "admitted" /\ frame[c].kind \in Binary
  /\ via[c] \in expecting
  /\ ring' = {AsLoop(frame[c])}
  /\ events' = Append(events, <<"loop-initialized", None>>)
  /\ Finished(c)
  /\ UNCHANGED <<expecting, blobsLeft>>

HandleInitial(c) ==
  /\ thread[c] = "admitted" /\ frame[c].kind \in Binary
  /\ via[c] \in expecting
  /\ \/ /\ ring' = {AsLoop(frame[c])}
        /\ expecting' = expecting \ {via[c]}
        /\ events' = Append(events, <<"loop-initialized", None>>)
     \/ /\ frame[c].kind # "initial"
        /\ UNCHANGED <<ring, expecting, events>>
  /\ Finished(c)
  /\ UNCHANGED blobsLeft

\* _handle_slice_or_skip: announced blobs are counted off unseen; a slice is
\* patched into the loop, if there is one; anything else is rejected.  The
\* mutated forms do not count blobs off, or count every binary off.
HandleSlice_NoSkip(c) ==
  /\ thread[c] = "admitted" /\ frame[c].kind \in Binary
  /\ via[c] \notin expecting
  /\ ring' = IF frame[c].kind = "slice" /\ ring # {} THEN ring \cup {frame[c].track} ELSE ring
  /\ Finished(c)
  /\ UNCHANGED <<expecting, blobsLeft, events>>

HandleSlice_Underflow(c) ==
  /\ thread[c] = "admitted" /\ frame[c].kind \in Binary
  /\ via[c] \notin expecting
  /\ blobsLeft' = [blobsLeft EXCEPT ![via[c]] = @ - 1]
  /\ Finished(c)
  /\ UNCHANGED <<ring, expecting, events>>

HandleSlice(c) ==
  /\ thread[c] = "admitted" /\ frame[c].kind \in Binary
  /\ via[c] \notin expecting
  /\ IF blobsLeft[via[c]] > 0
       THEN /\ blobsLeft' = [blobsLeft EXCEPT ![via[c]] = @ - 1]
            /\ UNCHANGED ring
       ELSE /\ ring' = IF frame[c].kind = "slice" /\ ring # {}
                         THEN ring \cup {frame[c].track} ELSE ring
            /\ UNCHANGED blobsLeft
  /\ Finished(c)
  /\ UNCHANGED <<expecting, events>>

\* The recv loop ends: told to close, or the pod hangs up.
End(c) ==
  /\ thread[c] = "reading"
  /\ thread' = [thread EXCEPT ![c] = "done"]
  /\ UNCHANGED <<mainVars, routerVars, events, frame, via, pod, stray>>

-----------------------------------------------------------------------------
Main    == CloseOld \/ OpenNew \/ Disconnect \/ LoopInitialized \/ EvSwapReady
Recv(c) == Read(c) \/ Admit(c) \/ Refuse(c) \/ Sniff(c) \/ HandleInitial(c)
             \/ HandleSlice(c) \/ End(c)

Next == Main \/ \E c \in Conn : Recv(c)
Spec == Init /\ [][Next]_vars

-----------------------------------------------------------------------------
(* Properties *)

\* The loop never mixes two tracks, and never holds bytes that were not PCM:
\* no slice of an old track lands on a new loop, no header is played, however
\* the threads of older connections lag, as long as none of their frames has
\* slipped past the detached test (handle_binary, sniff_text, detach).
OneTrack == ~stray => Cardinality(ring) <= 1 /\ Garbage \notin ring

\* Between two frames the router of an open connection knows what the pod
\* sends next: the initial buffer, so many blobs, or slices (sniff_text,
\* handle_binary).
RouterInStep ==
  ~stray => \A c \in Conn :
    thread[c] = "reading" /\ c \notin detached =>
      /\ c \in expecting <=> pod[c].phase = "initial"
      /\ blobsLeft[c] = pod[c].blobs

\* Once the initial buffer of a track is in, it stays until the next swap: no
\* handler that lags behind wipes it.  And once Disconnect has wiped the loop,
\* the frames its thread goes on reading do not bring it back (handle_binary,
\* sniff_text, detach, Disconnect).
RingInStep ==
  ~stray =>
    /\ \A c \in Conn :
         thread[c] = "reading" /\ c \notin detached /\ pod[c].phase = "stream" =>
           ring = {<<c, pod[c].track>>}
    /\ wsc = None /\ ~opening => ring = {}

\* "Detach the router BEFORE clearing the ring - a recv thread still draining
\* frames must not patch (or re-init) the ring after we wipe it"
\* (demon_ext.py:954-956), and it "can then never patch the new session's ring"
\* (binary_router.py:40-44).  Both ways around the test break it: a frame past
\* it when the router is detached, and a thread that outlives its join and hands
\* its frames to the router of the next connection.
DetachedInert ==
  [][\A c \in detached : thread[c] = "admitted" /\ thread'[c] # "admitted" =>
       ring' = ring]_vars
=============================================================================
