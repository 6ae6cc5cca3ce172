---------------------------- MODULE StreamProofs ----------------------------
(***************************************************************************)
(* Proofs about StreamPath, for any number of connections, swaps and blobs *)
(* and for a close() that may always give up waiting for the recv thread.  *)
(* Types need nothing.  That the loop holds one track, that the router is  *)
(* in step with the pod and that the loop survives hold until a frame      *)
(* slips past a detached test (stray), so the invariant has a part that    *)
(* always holds, Newest, and a part that holds until then, Calm.           *)
(***************************************************************************)
EXTENDS StreamPath, FiniteSetTheorems, SequenceTheorems, TLAPS

\* Connections are opened one after the other, and a frame in hand has a router.
Basic ==
  /\ router = opens
  /\ opening => opens < MaxOpens
  /\ \A c \in Conn :
       /\ thread[c] # "none" => c <= opens
       /\ thread[c] \in {"routed", "admitted"} => via[c] \in Conn

TypeInv == TypeOK /\ Basic

Alive(c) == thread[c] \in {"reading", "routed", "admitted"}
Holds(c) == thread[c] \in {"routed", "admitted"}

\* Only the newest router can be attached: every older one was detached when the
\* next was built.  The newest connection's thread picks up its own.
Newest ==
  /\ opening => wsc = None
  /\ \A c \in Conn : Alive(c) /\ c # router => c \in detached
  /\ \A c \in Conn : Holds(c) =>
       /\ c = router => via[c] = c
       /\ via[c] <= router /\ (via[c] # router => via[c] \in detached)
  /\ \A c \in Conn : c > opens => c \notin detached
  /\ wsc # None => router \notin detached
  /\ wsc = None /\ ~opening /\ router # None => router \in detached

\* A frame that is past the detached test is the newest connection's.
Own == \A c \in Conn : thread[c] = "admitted" => via[c] = c /\ c = router

\* A connection that is not open yet starts from scratch.
Unopened ==
  \A c \in Conn : c > opens =>
    /\ c \notin expecting /\ blobsLeft[c] = 0
    /\ pod[c].phase = "start" /\ pod[c].blobs = 0

\* What the router of c knows when the frame in the thread's hands is of kind k.
Knows(c, k) ==
  \/ /\ k \in {"ready", "swap_ready"} /\ pod[c].phase = "initial"
     /\ c \notin expecting /\ blobsLeft[c] = pod[c].blobs
  \/ /\ k = "initial" /\ pod[c].phase = "stream"
     /\ c \in expecting /\ blobsLeft[c] = pod[c].blobs
  \/ /\ k = "slice" /\ pod[c].phase = "stream"
     /\ c \notin expecting /\ blobsLeft[c] = 0 /\ pod[c].blobs = 0
  \/ /\ k = "stem_assets" /\ pod[c].phase = "stream"
     /\ c \notin expecting /\ pod[c].blobs = Blobs
  \/ /\ k = "blob" /\ pod[c].phase = "stream"
     /\ c \notin expecting /\ blobsLeft[c] = pod[c].blobs + 1

Attends(c) ==
  /\ pod[c].phase # "stream" => pod[c].blobs = 0
  /\ thread[c] = "reading" =>
       (c \in expecting <=> pod[c].phase = "initial") /\ blobsLeft[c] = pod[c].blobs
  /\ thread[c] # "reading" => Knows(c, frame[c].kind) /\ frame[c].track = <<c, pod[c].track>>

\* The router that is still asked keeps step with its pod.
InStep ==
  \A c \in Conn : Alive(c) /\ (c \notin detached \/ thread[c] = "admitted") => Attends(c)

\* What the loop holds.
Loop ==
  /\ ring = {} \/ \E t \in Track : ring = {t}
  /\ \A c \in Conn :
       /\ Alive(c) /\ c \notin detached /\ pod[c].phase = "stream"
            /\ (thread[c] = "reading" \/ frame[c].kind # "initial")
          => ring = {<<c, pod[c].track>>}
       /\ thread[c] = "admitted" /\ c \in detached =>
            ring = {} /\ frame[c].kind # "initial"
  /\ wsc = None /\ ~opening => ring = {}

Calm == Own /\ Unopened /\ InStep /\ Loop

StreamInv == TypeInv /\ Newest /\ (~stray => Calm)

-----------------------------------------------------------------------------
(* Types *)

LEMMA ConnIsNat == Conn \subseteq Nat /\ None \notin Conn
BY StreamAssumption DEF Conn, None

LEMMA TypeInit == Init => TypeInv
<1> SUFFICES ASSUME Init PROVE TypeInv
  OBVIOUS
<1>1. events \in Seq(Events)
  BY DEF Init
<1>2. [phase |-> "start", track |-> 1, blobs |-> 0] \in Pods
  BY StreamAssumption DEF Pods
<1>3. NoFrame \in Frames
  BY DEF NoFrame, Frames
<1>4. None \in 0..MaxOpens /\ 0 \in 0..Blobs
  BY StreamAssumption DEF None
<1>5. TypeOK
  <2>1. opening \in BOOLEAN /\ stray \in BOOLEAN /\ speaker \in BOOLEAN
    BY DEF Init
  <2>2. /\ blobsLeft \in [Conn -> 0..Blobs] /\ frame \in [Conn -> Frames]
        /\ via \in [Conn -> 0..MaxOpens] /\ pod \in [Conn -> Pods]
        /\ thread \in [Conn -> {"none", "reading", "routed", "admitted", "done"}]
    BY <1>2, <1>3, <1>4 DEF Init
  <2>3. router \in 0..MaxOpens /\ wsc \in {None, router} /\ opens \in 0..MaxOpens
    BY <1>4 DEF Init, None
  <2>4. QED
    BY <1>1, <2>1, <2>2, <2>3 DEF Init, TypeOK
<1>6. Basic
  BY DEF Init, Basic, Conn, None
<1>7. QED
  BY <1>5, <1>6 DEF TypeInv

LEMMA FinishedTypes ==
  ASSUME NEW c \in Conn, TypeInv, Finished(c)
  PROVE  /\ frame' \in [Conn -> Frames] /\ via' \in [Conn -> 0..MaxOpens]
         /\ thread' \in [Conn -> {"none", "reading", "routed", "admitted", "done"}]
         /\ \A d \in Conn : thread'[d] = IF d = c THEN Onward(c) ELSE thread[d]
         /\ Onward(c) \in {"reading", "done"}
         /\ \A d \in Conn : via'[d] = IF d = c THEN None ELSE via[d]
         /\ \A d \in Conn : frame'[d] = IF d = c THEN NoFrame ELSE frame[d]
         /\ pod' = pod
         /\ UNCHANGED <<mainVars, stray>>
<1>1. NoFrame \in Frames /\ None \in 0..MaxOpens
  BY StreamAssumption DEF NoFrame, Frames, None
<1>2. QED
  BY <1>1 DEF Finished, Onward, TypeInv, TypeOK

LEMMA QueuedTypes ==
  ASSUME NEW c \in Conn, TypeInv
  PROVE  Queued(c) \in Seq(Events)
<1>1. events \in Seq(Events) /\ <<"swap_ready", c>> \in Events
  BY DEF TypeInv, TypeOK, Events
<1>2. QED
  BY <1>1 DEF Queued

LEMMA SaysTypes ==
  ASSUME NEW c \in Conn, TypeInv, NEW kind \in Text \cup Binary,
         NEW phase \in {"start", "initial", "stream"},
         NEW track \in 1..(1 + MaxSwaps), NEW blobs \in 0..Blobs,
         Says(c, kind, phase, track, blobs)
  PROVE  /\ frame' \in [Conn -> Frames] /\ pod' \in [Conn -> Pods]
         /\ frame'[c].kind = kind /\ frame'[c].track = <<c, track>>
         /\ pod'[c].phase = phase /\ pod'[c].track = track /\ pod'[c].blobs = blobs
         /\ \A d \in Conn \ {c} : frame'[d] = frame[d] /\ pod'[d] = pod[d]
<1>1. <<c, track>> \in Track
  BY DEF Track
<1>2. Frame(kind, <<c, track>>) \in Frames
  BY <1>1 DEF Frame, Frames
<1>3. [phase |-> phase, track |-> track, blobs |-> blobs] \in Pods
  BY DEF Pods
<1>4. QED
  BY <1>2, <1>3 DEF Says, TypeInv, TypeOK, Frame

\* What a pod sends is one of six things.
LEMMA SendsOneOfSix ==
  ASSUME NEW c \in Conn, TypeInv, Sends(c)
  PROVE  \E kind \in Text \cup Binary, phase \in {"initial", "stream"},
            track \in 1..(1 + MaxSwaps), blobs \in 0..Blobs :
           /\ Says(c, kind, phase, track, blobs)
           /\ \/ /\ kind = "ready" /\ phase = "initial" /\ pod[c].phase = "start"
                 /\ track = pod[c].track /\ blobs = pod[c].blobs
              \/ /\ kind = "initial" /\ phase = "stream" /\ pod[c].phase = "initial"
                 /\ track = pod[c].track /\ blobs = pod[c].blobs
              \/ /\ kind = "blob" /\ phase = "stream" /\ pod[c].phase = "stream"
                 /\ track = pod[c].track /\ blobs + 1 = pod[c].blobs
              \/ /\ kind = "slice" /\ phase = "stream" /\ pod[c].phase = "stream"
                 /\ track = pod[c].track /\ blobs = 0 /\ pod[c].blobs = 0
              \/ /\ kind = "stem_assets" /\ phase = "stream" /\ pod[c].phase = "stream"
                 /\ track = pod[c].track /\ blobs = Blobs /\ pod[c].blobs = 0
              \/ /\ kind = "swap_ready" /\ phase = "initial" /\ pod[c].phase = "stream"
                 /\ blobs = 0 /\ pod[c].blobs = 0
<1> DEFINE p == pod[c]
<1>1. p.phase \in {"start", "initial", "stream"} /\ p.track \in 1..(1 + MaxSwaps)
      /\ p.blobs \in 0..Blobs
  BY DEF TypeInv, TypeOK, Pods
<1>2. MaxSwaps \in Nat /\ Blobs \in Nat
  BY StreamAssumption
<1>3. CASE p.phase = "start" /\ Says(c, "ready", "initial", p.track, p.blobs)
  BY <1>1, <1>3 DEF Text
<1>4. CASE p.phase = "initial" /\ Says(c, "initial", "stream", p.track, p.blobs)
  BY <1>1, <1>4 DEF Binary
<1>5. CASE p.phase = "stream" /\ p.blobs > 0 /\ Says(c, "blob", "stream", p.track, p.blobs - 1)
  <2>1. p.blobs - 1 \in 0..Blobs /\ (p.blobs - 1) + 1 = p.blobs
    BY <1>1, <1>2, <1>5
  <2>2. QED
    BY <1>1, <1>5, <2>1 DEF Binary
<1>6. CASE p.phase = "stream" /\ p.blobs = 0 /\ Says(c, "slice", "stream", p.track, p.blobs)
  BY <1>1, <1>6 DEF Binary
<1>7. CASE p.phase = "stream" /\ p.blobs = 0 /\ Says(c, "stem_assets", "stream", p.track, Blobs)
  BY <1>1, <1>2, <1>7 DEF Text
<1>8. CASE /\ p.phase = "stream" /\ p.blobs = 0
           /\ p.track <= MaxSwaps /\ Says(c, "swap_ready", "initial", p.track + 1, p.blobs)
  <2>1. p.track + 1 \in 1..(1 + MaxSwaps)
    BY <1>1, <1>2, <1>8
  <2>2. QED
    BY <1>1, <1>8, <2>1 DEF Text
<1>9. QED
  BY <1>3, <1>4, <1>5, <1>6, <1>7, <1>8 DEF Sends

LEMMA TypeMain == TypeInv /\ Main => TypeInv'
<1> SUFFICES ASSUME TypeInv, Main PROVE TypeInv'
  OBVIOUS
<1>1. CASE CloseOld
  <2>1. opens < MaxOpens /\ opening' \in BOOLEAN
    BY <1>1 DEF CloseOld
  <2>2. TypeOK'
    BY <1>1, <2>1 DEF CloseOld, TypeInv, TypeOK, routerVars, threadVars
  <2>3. Basic'
    BY <1>1, <2>1 DEF CloseOld, TypeInv, Basic, threadVars
  <2>4. QED
    BY <2>2, <2>3 DEF TypeInv
<1>2. CASE OpenNew
  <2>1. opens + 1 \in Conn /\ opens + 1 \in 0..MaxOpens /\ opens \in Nat
    BY <1>2, StreamAssumption DEF OpenNew, TypeInv, TypeOK, Basic, Conn
  <2>2. /\ thread' \in [Conn -> {"none", "reading", "routed", "admitted", "done"}]
        /\ \A c \in Conn : thread'[c] = IF c = opens + 1 THEN "reading" ELSE thread[c]
    BY <1>2, <2>1 DEF OpenNew, TypeInv, TypeOK
  <2>3. detached' \subseteq Conn
    BY <1>2, <2>1 DEF OpenNew, TypeInv, TypeOK, Some, Conn, None
  <2>4. stray' \in BOOLEAN
    BY <1>2 DEF OpenNew
  <2>5. TypeOK'
    BY <1>2, <2>1, <2>2, <2>3, <2>4 DEF OpenNew, TypeInv, TypeOK, routerVars
  <2>6. Basic'
    BY <1>2, <2>1, <2>2 DEF OpenNew, TypeInv, TypeOK, Basic, Conn
  <2>7. QED
    BY <2>5, <2>6 DEF TypeInv
<1>3. CASE Disconnect
  <2>1. detached' \subseteq Conn
    BY <1>3 DEF Disconnect, TypeInv, TypeOK, Some, Conn, None
  <2>2. stray' \in BOOLEAN
    BY <1>3 DEF Disconnect
  <2>3. QED
    BY <1>3, <2>1, <2>2 DEF Disconnect, TypeInv, TypeOK, Basic, threadVars
<1>4. CASE LoopInitialized \/ EvSwapReady
  <2>1. events' \in Seq(Events)
    <3>1. events \in Seq(Events) /\ events # << >> /\ events' = Tail(events)
      BY <1>4 DEF LoopInitialized, EvSwapReady, TypeInv, TypeOK
    <3>2. QED
      BY <3>1
  <2>2. /\ speaker' \in {speaker, TRUE}
        /\ UNCHANGED <<router, wsc, opens, opening, detached,
                       routerVars, threadVars, stray>>
    BY <1>4 DEF LoopInitialized, EvSwapReady, mainVars
  <2>3. speaker \in BOOLEAN /\ speaker' \in BOOLEAN
    BY <2>2 DEF TypeInv, TypeOK
  <2>4. TypeOK'
    BY <2>1, <2>2, <2>3 DEF TypeInv, TypeOK, routerVars, threadVars
  <2>5. Basic'
    BY <2>2 DEF TypeInv, Basic, threadVars
  <2>6. QED
    BY <2>4, <2>5 DEF TypeInv
<1>5. QED
  BY <1>1, <1>2, <1>3, <1>4 DEF Main

LEMMA TypeRecv == ASSUME NEW c \in Conn, TypeInv, Recv(c) PROVE TypeInv'
<1> USE DEF TypeInv
<1>1. CASE Read(c)
  <2>1. frame' \in [Conn -> Frames] /\ pod' \in [Conn -> Pods]
    BY <1>1, SendsOneOfSix, SaysTypes DEF Read
  <2>2. router \in Conn
    BY <1>1, StreamAssumption DEF Read, TypeOK, Basic, Conn
  <2>3. /\ via' \in [Conn -> 0..MaxOpens]
        /\ \A d \in Conn : via'[d] = IF d = c THEN router ELSE via[d]
        /\ thread' \in [Conn -> {"none", "reading", "routed", "admitted", "done"}]
        /\ \A d \in Conn : thread'[d] = IF d = c THEN "routed" ELSE thread[d]
    BY <1>1 DEF Read, TypeOK
  <2>4. TypeOK'
    BY <1>1, <2>1, <2>3 DEF Read, TypeOK, mainVars, routerVars
  <2>5. Basic'
    BY <1>1, <2>2, <2>3 DEF Read, Basic, mainVars
  <2>6. QED
    BY <2>4, <2>5
<1>2. CASE Admit(c) \/ End(c)
  <2>1. /\ thread' \in [Conn -> {"none", "reading", "routed", "admitted", "done"}]
        /\ \A d \in Conn : thread'[d] \in {"routed", "admitted"} => thread[d] \in {"routed", "admitted"}
        /\ \A d \in Conn : thread'[d] # "none" => thread[d] # "none"
        /\ stray' \in BOOLEAN
    BY <1>2 DEF Admit, End, TypeOK
  <2>2. TypeOK'
    BY <1>2, <2>1 DEF Admit, End, TypeOK, mainVars, routerVars
  <2>3. Basic'
    BY <1>2, <2>1 DEF Admit, End, Basic, mainVars
  <2>4. QED
    BY <2>2, <2>3
<1>3. CASE Finished(c) /\ thread[c] \in {"routed", "admitted"}
            /\ expecting' \subseteq Conn /\ blobsLeft' \in [Conn -> 0..Blobs]
            /\ ring' \subseteq Track \cup {Garbage} /\ events' \in Seq(Events)
  <2>1. TypeOK'
    BY <1>3, FinishedTypes DEF TypeOK, mainVars
  <2>2. Basic'
    BY <1>3, FinishedTypes DEF Basic, mainVars
  <2>3. QED
    BY <2>1, <2>2
<1>4. CASE Refuse(c)
  BY <1>3, <1>4, QueuedTypes DEF Refuse, routerVars, TypeOK
<1>5. CASE Sniff(c) \/ HandleInitial(c) \/ HandleSlice(c)
  <2>1. via[c] \in Conn /\ thread[c] = "admitted" /\ Finished(c)
    BY <1>5 DEF Sniff, HandleInitial, HandleSlice, Basic
  <2>2. frame[c].track \in Track \cup {Garbage}
    BY DEF TypeOK, Frames
  <2>3. expecting' \subseteq Conn
    BY <1>5, <2>1 DEF Sniff, HandleInitial, HandleSlice, TypeOK
  <2>4. blobsLeft' \in [Conn -> 0..Blobs]
    BY <1>5, <2>1, StreamAssumption DEF Sniff, HandleInitial, HandleSlice, TypeOK
  <2>5. ring' \subseteq Track \cup {Garbage}
    BY <1>5, <2>2 DEF Sniff, HandleInitial, HandleSlice, TypeOK, AsLoop
  <2>6. events' \in Seq(Events)
    <3>1. Append(events, <<"loop-initialized", None>>) \in Seq(Events)
      BY DEF TypeOK, Events
    <3>2. QED
      BY <1>5, <3>1, QueuedTypes DEF Sniff, HandleInitial, HandleSlice, TypeOK
  <2>7. QED
    BY <1>3, <2>1, <2>3, <2>4, <2>5, <2>6
<1>6. QED
  BY <1>1, <1>2, <1>4, <1>5 DEF Recv

LEMMA TypeStep == TypeInv /\ [Next]_vars => TypeInv'
<1>1. ASSUME TypeInv, UNCHANGED vars PROVE TypeInv'
  BY <1>1 DEF vars, mainVars, routerVars, threadVars, TypeInv, TypeOK, Basic
<1>2. QED
  BY <1>1, TypeMain, TypeRecv DEF Next

\* Every variable of the inbound audio path keeps its type, whatever lingers.
THEOREM TypeCorrect == Spec => []TypeOK
<1>1. TypeInv => TypeOK
  BY DEF TypeInv
<1>2. QED
  BY <1>1, TypeInit, TypeStep, PTL DEF Spec

-----------------------------------------------------------------------------
(* The newest router, whatever has slipped past *)

LEMMA NewestMain == TypeInv /\ Newest /\ Main => Newest'
<1> SUFFICES ASSUME TypeInv, Newest, Main PROVE Newest'
  OBVIOUS
<1>1. CASE CloseOld
  BY <1>1 DEF CloseOld, Newest, Alive, Holds, threadVars
<1>2. CASE OpenNew
  <2>1. /\ opens + 1 \in Conn /\ opens \in Nat /\ router = opens /\ Conn \subseteq Nat
        /\ \A c \in Conn : thread'[c] = IF c = opens + 1 THEN "reading" ELSE thread[c]
        /\ \A c \in Conn : thread[c] # "none" => c <= opens
        /\ \A c \in Conn : Holds(c) => via[c] \in Conn
    BY <1>2, StreamAssumption, ConnIsNat DEF OpenNew, TypeInv, TypeOK, Basic, Conn, Holds
  <2>2. /\ router' = opens + 1 /\ wsc' = opens + 1 /\ opens' = opens + 1 /\ ~opening'
        /\ via' = via /\ router' # None
        /\ \A c \in Conn : c \in detached' <=> c \in detached \/ c = router
    BY <1>2, <2>1 DEF OpenNew, Some, None, Conn
  <2>3. \A c \in Conn : c > opens => c \notin detached' /\ c # router
    BY <2>1, <2>2 DEF Newest
  <2>4. \A c \in Conn : Holds(c)' => Holds(c) /\ c # opens + 1 /\ c <= opens
    BY <2>1 DEF Holds
  <2>5. \A c \in Conn : Alive(c)' /\ c # opens + 1 => c \in detached'
    BY <2>1, <2>2 DEF Newest, Alive
  <2>6. \A c \in Conn : Holds(c)' =>
          via[c] <= opens + 1 /\ (via[c] # opens + 1 => via[c] \in detached')
    <3> SUFFICES ASSUME NEW c \in Conn, Holds(c)'
                 PROVE  via[c] <= opens + 1 /\ via[c] \in detached'
      OBVIOUS
    <3>1. /\ via[c] \in Conn /\ via[c] \in Nat /\ via[c] <= opens
          /\ via[c] # router => via[c] \in detached
      BY <2>1, <2>4 DEF Newest
    <3>2. QED
      BY <2>1, <2>2, <3>1
  <2>7. QED
    BY <2>1, <2>2, <2>3, <2>4, <2>5, <2>6 DEF Newest
<1>3. CASE Disconnect
  <2>1. /\ router \in Conn /\ router = opens /\ Conn \subseteq Nat
        /\ detached' = detached \cup {router}
    BY <1>3, ConnIsNat DEF Disconnect, TypeInv, TypeOK, Basic, None, Conn, Some
  <2>2. QED
    BY <1>3, <2>1 DEF Disconnect, Newest, Alive, Holds, threadVars
<1>4. CASE LoopInitialized \/ EvSwapReady
  <2>1. UNCHANGED <<router, wsc, opens, opening, detached, thread, via>>
    BY <1>4 DEF LoopInitialized, EvSwapReady, mainVars, threadVars
  <2>2. QED
    BY <2>1 DEF Newest, Alive, Holds
<1>5. QED
  BY <1>1, <1>2, <1>3, <1>4 DEF Main

\* A step of a recv thread leaves main's state alone, and only the thread that
\* picks up the router of the moment gets one in hand.
LEMMA NewestKept ==
  ASSUME NEW c \in Conn, TypeInv, Newest, Alive(c), UNCHANGED mainVars,
         \A d \in Conn : d # c => thread'[d] = thread[d] /\ via'[d] = via[d],
         Holds(c)' => via'[c] = router \/ (Holds(c) /\ via'[c] = via[c])
  PROVE  Newest'
<1>1. router \in Nat /\ router' = router /\ detached' = detached
  BY StreamAssumption DEF TypeInv, TypeOK, mainVars
<1>2. \A d \in Conn : Alive(d)' => Alive(d)
  BY DEF Alive
<1>3. \A d \in Conn : d # c => (Holds(d)' <=> Holds(d))
  BY DEF Holds
<1>4. Holds(c)' => /\ c = router => via'[c] = c
                   /\ via'[c] <= router /\ (via'[c] # router => via'[c] \in detached)
  BY <1>1 DEF Newest
<1>5. QED
  BY <1>1, <1>2, <1>3, <1>4 DEF Newest, mainVars

LEMMA NewestRecv == ASSUME NEW c \in Conn, TypeInv, Newest, Recv(c) PROVE Newest'
<1>1. CASE Read(c)
  <2>1. /\ Alive(c) /\ UNCHANGED mainVars /\ via'[c] = router
        /\ \A d \in Conn : d # c => thread'[d] = thread[d] /\ via'[d] = via[d]
    BY <1>1 DEF Read, Alive, TypeInv, TypeOK
  <2>2. QED
    BY <2>1, NewestKept
<1>2. CASE Admit(c) \/ End(c)
  <2>1. /\ Alive(c) /\ UNCHANGED mainVars /\ via' = via
        /\ \A d \in Conn : d # c => thread'[d] = thread[d]
        /\ Holds(c)' => Holds(c)
    BY <1>2 DEF Admit, End, Alive, Holds, TypeInv, TypeOK
  <2>2. QED
    BY <2>1, NewestKept
<1>3. CASE Refuse(c) \/ Sniff(c) \/ HandleInitial(c) \/ HandleSlice(c)
  <2>1. Finished(c) /\ Alive(c)
    BY <1>3 DEF Refuse, Sniff, HandleInitial, HandleSlice, Alive
  <2>2. /\ UNCHANGED mainVars /\ ~Holds(c)'
        /\ \A d \in Conn : d # c => thread'[d] = thread[d] /\ via'[d] = via[d]
    BY <2>1, FinishedTypes DEF Holds
  <2>3. QED
    BY <2>1, <2>2, NewestKept
<1>4. QED
  BY <1>1, <1>2, <1>3 DEF Recv

LEMMA NewestStep == TypeInv /\ Newest /\ [Next]_vars => Newest'
<1>1. ASSUME Newest, UNCHANGED vars PROVE Newest'
  BY <1>1 DEF vars, mainVars, threadVars, Newest, Alive, Holds
<1>2. QED
  BY <1>1, NewestMain, NewestRecv DEF Next

\* Once a frame has slipped past, the history does not forget it.
LEMMA StrayStays == TypeInv /\ [Next]_vars /\ ~stray' => ~stray
<1> SUFFICES ASSUME TypeInv, [Next]_vars, ~stray' PROVE ~stray
  OBVIOUS
<1>1. CASE UNCHANGED vars
  BY <1>1 DEF vars
<1>2. CASE Main
  BY <1>2 DEF Main, CloseOld, OpenNew, Disconnect, LoopInitialized, EvSwapReady
<1>3. ASSUME NEW c \in Conn, Recv(c) PROVE ~stray
  BY <1>3 DEF Recv, Read, Admit, Refuse, Sniff, HandleInitial, HandleSlice, End, Finished
<1>4. QED
  BY <1>1, <1>2, <1>3 DEF Next

-----------------------------------------------------------------------------
(* The inductive invariant *)

LEMMA StreamInit == Init => StreamInv
<1> SUFFICES ASSUME Init PROVE StreamInv
  OBVIOUS
<1>1. Newest /\ Own /\ Unopened /\ InStep
  BY DEF Init, Newest, Own, Unopened, InStep, Alive, Holds
<1>2. Loop
  BY DEF Init, Loop, Alive
<1>3. QED
  BY <1>1, <1>2, TypeInit DEF StreamInv, Calm

LEMMA CloseOldStep == ASSUME TypeInv, Newest, Calm, CloseOld PROVE Calm'
<1> USE DEF Calm
<1>1. Own' /\ Unopened' /\ InStep'
  BY DEF CloseOld, Own, Unopened, InStep, Alive, Attends, Knows, routerVars, threadVars
<1>2. Loop'
  BY DEF CloseOld, Loop, Alive, routerVars, threadVars
<1>3. QED
  BY <1>1, <1>2

\* A frame past the detached test is of a kind that its router expects.
LEMMA AdmittedKind ==
  ASSUME NEW c \in Conn, Calm, thread[c] = "admitted"
  PROVE  frame[c].kind \in Text \cup Binary
<1>1. Knows(c, frame[c].kind)
  BY DEF Calm, InStep, Alive, Attends
<1>2. QED
  BY <1>1 DEF Knows, Text, Binary

LEMMA OpenNewStep == ASSUME TypeInv, Newest, Calm, OpenNew, ~stray' PROVE Calm'
<1> USE DEF Calm
<1>1. \A c \in Conn : thread[c] # "admitted"
  BY AdmittedKind DEF OpenNew, InHand
<1>2. /\ opens + 1 \in Conn /\ opens \in Nat /\ router = opens
      /\ \A c \in Conn : thread'[c] = IF c = opens + 1 THEN "reading" ELSE thread[c]
  BY StreamAssumption DEF OpenNew, TypeInv, TypeOK, Basic, Conn
<1>3. Newest'
  BY NewestMain DEF Main
<1>4. Own'
  BY <1>1, <1>2 DEF Own
<1>5. Unopened'
  <2>1. /\ opens' = opens + 1 /\ UNCHANGED <<expecting, blobsLeft, pod>>
        /\ \A c \in Conn : c > opens + 1 => c > opens
    BY <1>2, ConnIsNat DEF OpenNew, routerVars
  <2>2. QED
    BY <2>1 DEF Unopened
<1>6. \A c \in Conn : /\ thread'[c] # "admitted"
                      /\ Alive(c)' /\ c \notin detached' => c = opens + 1
  BY <1>1, <1>2, <1>3 DEF Newest, OpenNew
<1>7. /\ pod[opens + 1].phase = "start" /\ pod[opens + 1].blobs = 0
      /\ opens + 1 \notin expecting /\ blobsLeft[opens + 1] = 0
      /\ thread'[opens + 1] = "reading"
  BY <1>2, ConnIsNat DEF Unopened
<1>8. InStep'
  BY <1>2, <1>6, <1>7 DEF OpenNew, InStep, Attends, routerVars
<1>9. Loop'
  BY <1>2, <1>6, <1>7 DEF OpenNew, Loop, Alive, routerVars, None
<1>10. QED
  BY <1>4, <1>5, <1>8, <1>9

LEMMA DisconnectStep == ASSUME TypeInv, Newest, Calm, Disconnect, ~stray' PROVE Calm'
<1> USE DEF Calm
<1>1. detached' = detached \cup {router} /\ ring' = {}
  BY DEF Disconnect, TypeInv, TypeOK, None, Some
<1>2. Own' /\ Unopened'
  BY DEF Disconnect, Own, Unopened, threadVars
<1>3. InStep'
  BY <1>1 DEF Disconnect, InStep, Alive, Attends, Knows, threadVars
<1>4. \A c \in Conn : Alive(c) => c \in detached'
  BY <1>1 DEF Newest
<1>5. \A c \in Conn : thread[c] = "admitted" => frame[c].kind # "initial"
  BY DEF Disconnect, InHand
<1>6. Loop'
  BY <1>1, <1>4, <1>5 DEF Disconnect, Loop, Alive, threadVars
<1>7. QED
  BY <1>2, <1>3, <1>6

LEMMA DrainStep ==
  ASSUME Calm, LoopInitialized \/ EvSwapReady PROVE Calm'
<1> USE DEF Calm
<1>1. UNCHANGED <<router, wsc, opens, opening, detached, routerVars, threadVars>>
  BY DEF LoopInitialized, EvSwapReady, mainVars
<1>2. Own' /\ Unopened' /\ InStep'
  BY <1>1 DEF Own, Unopened, InStep, Alive, Attends, Knows, routerVars, threadVars
<1>3. Loop'
  BY <1>1 DEF Loop, Alive, routerVars, threadVars
<1>4. QED
  BY <1>2, <1>3

\* No step of a thread touches a connection that is not open, as its own is.
LEMMA UnopenedRecv ==
  ASSUME NEW c \in Conn, TypeInv, Calm, Alive(c), UNCHANGED mainVars,
         \A d \in Conn : d # c => /\ d \in expecting' <=> d \in expecting
                                /\ blobsLeft'[d] = blobsLeft[d] /\ pod'[d] = pod[d]
  PROVE  Unopened'
<1>1. c <= opens /\ \A d \in Conn : d > opens => d # c
  BY ConnIsNat DEF TypeInv, TypeOK, Basic, Alive
<1>2. QED
  BY <1>1 DEF Calm, Unopened, mainVars

LEMMA ReadStep == ASSUME NEW c \in Conn, TypeInv, Newest, Calm, Read(c) PROVE Calm'
<1> USE DEF Calm
<1>1. /\ Alive(c) /\ thread[c] = "reading"
      /\ UNCHANGED <<mainVars, routerVars>>
  BY DEF Read, Alive
<1>2. /\ \A d \in Conn : thread'[d] = IF d = c THEN "routed" ELSE thread[d]
      /\ \A d \in Conn : d # c => via'[d] = via[d]
  BY <1>1 DEF Read, TypeInv, TypeOK
<1>3. PICK kind \in Text \cup Binary, phase \in {"initial", "stream"},
           track \in 1..(1 + MaxSwaps), blobs \in 0..Blobs :
        /\ Says(c, kind, phase, track, blobs)
        /\ \/ /\ kind = "ready" /\ phase = "initial" /\ pod[c].phase = "start"
              /\ track = pod[c].track /\ blobs = pod[c].blobs
           \/ /\ kind = "initial" /\ phase = "stream" /\ pod[c].phase = "initial"
              /\ track = pod[c].track /\ blobs = pod[c].blobs
           \/ /\ kind = "blob" /\ phase = "stream" /\ pod[c].phase = "stream"
              /\ track = pod[c].track /\ blobs + 1 = pod[c].blobs
           \/ /\ kind = "slice" /\ phase = "stream" /\ pod[c].phase = "stream"
              /\ track = pod[c].track /\ blobs = 0 /\ pod[c].blobs = 0
           \/ /\ kind = "stem_assets" /\ phase = "stream" /\ pod[c].phase = "stream"
              /\ track = pod[c].track /\ blobs = Blobs /\ pod[c].blobs = 0
           \/ /\ kind = "swap_ready" /\ phase = "initial" /\ pod[c].phase = "stream"
              /\ blobs = 0 /\ pod[c].blobs = 0
  BY SendsOneOfSix DEF Read
<1>4. /\ frame'[c].kind = kind /\ frame'[c].track = <<c, track>>
      /\ pod'[c].phase = phase /\ pod'[c].track = track /\ pod'[c].blobs = blobs
      /\ \A d \in Conn \ {c} : frame'[d] = frame[d] /\ pod'[d] = pod[d]
  BY <1>3, SaysTypes
<1>5. Own' /\ Unopened'
  BY <1>1, <1>2, <1>4, UnopenedRecv DEF Own, mainVars, routerVars
<1>6. c \notin detached => Attends(c)
  BY <1>1 DEF InStep
<1>7. ASSUME c \notin detached PROVE Attends(c)'
  <2>1. /\ pod[c].phase # "stream" => pod[c].blobs = 0
        /\ c \in expecting <=> pod[c].phase = "initial"
        /\ blobsLeft[c] = pod[c].blobs
    BY <1>1, <1>6, <1>7 DEF Attends
  <2>2. Knows(c, kind)'
    BY <1>1, <1>3, <1>4, <2>1 DEF Knows, routerVars
  <2>3. phase # "stream" => blobs = 0
    BY <1>3, <2>1
  <2>4. QED
    BY <1>2, <1>4, <2>2, <2>3 DEF Attends
<1>8. InStep'
  BY <1>1, <1>2, <1>4, <1>7 DEF InStep, Alive, Attends, Knows, mainVars, routerVars
<1>9. Loop'
  <2>1. c \notin detached /\ phase = "stream" /\ kind # "initial" => ring = {<<c, track>>}
    BY <1>1, <1>3 DEF Loop
  <2>2. QED
    BY <1>1, <1>2, <1>4, <2>1 DEF Loop, Alive, mainVars, routerVars
<1>10. QED
  BY <1>5, <1>8, <1>9

\* A frame that is let in by a router other than its own would be a stray one, so
\* it is the newest connection's.
LEMMA AdmitStep ==
  ASSUME NEW c \in Conn, TypeInv, Newest, Calm, Admit(c), ~stray' PROVE Calm'
<1> USE DEF Calm
<1>1. /\ Alive(c) /\ thread[c] = "routed" /\ via[c] = c /\ c \notin detached
      /\ UNCHANGED <<mainVars, routerVars, frame, via, pod>>
      /\ \A d \in Conn : thread'[d] = IF d = c THEN "admitted" ELSE thread[d]
  BY DEF Admit, Alive, TypeInv, TypeOK
<1>2. c = router
  BY <1>1 DEF Newest
<1>3. Own' /\ Unopened'
  BY <1>1, <1>2, UnopenedRecv DEF Own, mainVars, routerVars
<1>4. InStep'
  BY <1>1 DEF InStep, Alive, Attends, Knows, mainVars, routerVars
<1>5. Loop'
  BY <1>1 DEF Loop, Alive, mainVars, routerVars
<1>6. QED
  BY <1>3, <1>4, <1>5

LEMMA EndStep == ASSUME NEW c \in Conn, TypeInv, Calm, End(c) PROVE Calm'
<1> USE DEF Calm
<1>1. /\ Alive(c)
      /\ UNCHANGED <<mainVars, routerVars, frame, via, pod>>
      /\ \A d \in Conn : thread'[d] = IF d = c THEN "done" ELSE thread[d]
  BY DEF End, Alive, TypeInv, TypeOK
<1>2. Own' /\ Unopened'
  BY <1>1, UnopenedRecv DEF Own, mainVars, routerVars
<1>3. InStep'
  BY <1>1 DEF InStep, Alive, Attends, Knows, mainVars, routerVars
<1>4. Loop'
  BY <1>1 DEF Loop, Alive, mainVars, routerVars
<1>5. QED
  BY <1>2, <1>3, <1>4

\* A frame has been handled if its router again knows what comes next and the
\* loop holds what it should, which only the newest connection may change.
LEMMA FinishedStep ==
  ASSUME NEW c \in Conn, TypeInv, Newest, Calm, Holds(c), Finished(c),
         \A d \in Conn : d # c => /\ d \in expecting' <=> d \in expecting
                                /\ blobsLeft'[d] = blobsLeft[d],
         c = router \/ ring' = ring,
         c \notin detached =>
           /\ pod[c].phase # "stream" => pod[c].blobs = 0
           /\ c \in expecting' <=> pod[c].phase = "initial"
           /\ blobsLeft'[c] = pod[c].blobs
           /\ pod[c].phase = "stream" => ring' = {<<c, pod[c].track>>},
         ring' = {} \/ \E t \in Track : ring' = {t},
         wsc = None /\ ~opening => ring' = {}
  PROVE  Calm'
<1> USE DEF Calm
<1>1. /\ Alive(c) /\ UNCHANGED mainVars /\ pod' = pod
      /\ \A d \in Conn : thread'[d] = IF d = c THEN Onward(c) ELSE thread[d]
      /\ \A d \in Conn : via'[d] = IF d = c THEN None ELSE via[d]
      /\ \A d \in Conn : frame'[d] = IF d = c THEN NoFrame ELSE frame[d]
      /\ Onward(c) \in {"reading", "done"}
  BY FinishedTypes DEF Alive, Holds
<1>2. Own' /\ Unopened'
  BY <1>1, UnopenedRecv DEF Own, mainVars
<1>3. InStep'
  <2>1. c \notin detached /\ thread'[c] = "reading" => Attends(c)'
    BY <1>1 DEF Attends
  <2>2. QED
    BY <1>1, <2>1 DEF InStep, Alive, Attends, Knows, mainVars
<1>4. Loop'
  <2>1. \A d \in Conn : d # c /\ c = router =>
          (Alive(d) => d \in detached) /\ thread[d] # "admitted"
    BY DEF Newest, Own
  <2>2. \A d \in Conn : d # c => (Alive(d)' <=> Alive(d))
    BY <1>1 DEF Alive
  <2>3. ASSUME NEW d \in Conn
        PROVE  /\ Alive(d)' /\ d \notin detached' /\ pod'[d].phase = "stream"
                    /\ (thread'[d] = "reading" \/ frame'[d].kind # "initial")
                  => ring' = {<<d, pod'[d].track>>}
               /\ thread'[d] = "admitted" /\ d \in detached' =>
                    ring' = {} /\ frame'[d].kind # "initial"
    <3>1. CASE d = c
      BY <1>1, <3>1 DEF mainVars
    <3>2. CASE d # c /\ c = router
      BY <1>1, <2>1, <2>2, <3>2 DEF mainVars
    <3>3. CASE d # c /\ ring' = ring
      BY <1>1, <2>2, <3>3 DEF Loop, mainVars
    <3>4. QED
      BY <3>1, <3>2, <3>3
  <2>4. QED
    BY <1>1, <2>3 DEF Loop, mainVars
<1>5. QED
  BY <1>2, <1>3, <1>4

\* A refused frame is of a router that nobody asks any more.
LEMMA RefuseStep ==
  ASSUME NEW c \in Conn, TypeInv, Newest, Calm, Refuse(c) PROVE Calm'
<1>1. /\ UNCHANGED routerVars /\ Finished(c) /\ Holds(c) /\ Alive(c)
      /\ via[c] \in detached
  BY DEF Refuse, Holds, Alive
<1>2. c \in detached
  BY <1>1 DEF Newest
<1>3. (ring = {} \/ \E t \in Track : ring = {t}) /\ (wsc = None /\ ~opening => ring = {})
  BY DEF Calm, Loop
<1>4. QED
  BY <1>1, <1>2, <1>3, FinishedStep DEF routerVars

\* What the invariant says of a frame that got past the detached test.
LEMMA PastTheTest ==
  ASSUME NEW c \in Conn, TypeInv, Newest, Calm, thread[c] = "admitted"
  PROVE  /\ via[c] = c /\ c = router /\ Holds(c)
         /\ Knows(c, frame[c].kind) /\ frame[c].track = <<c, pod[c].track>>
         /\ frame[c].track \in Track
         /\ pod[c].phase # "stream" => pod[c].blobs = 0
         /\ ring = {} \/ \E t \in Track : ring = {t}
         /\ wsc = None /\ ~opening => ring = {}
         /\ c \in detached => ring = {} /\ frame[c].kind # "initial"
         /\ c \notin detached /\ frame[c].kind # "initial" /\ pod[c].phase = "stream" =>
              ring = {<<c, pod[c].track>>}
         /\ c \notin detached => ~(wsc = None /\ ~opening)
         /\ blobsLeft[c] \in 0..Blobs /\ pod[c].blobs \in 0..Blobs
<1> USE DEF Calm
<1>1. Alive(c) /\ via[c] = c /\ c = router /\ router # None /\ Holds(c)
  BY ConnIsNat DEF Alive, Own, Holds
<1>2. Attends(c)
  BY <1>1 DEF InStep
<1>3. pod[c] \in Pods /\ blobsLeft[c] \in 0..Blobs
  BY DEF TypeInv, TypeOK
<1>4. <<c, pod[c].track>> \in Track /\ pod[c].blobs \in 0..Blobs
  BY <1>3 DEF Track, Pods
<1>5. c \notin detached => ~(wsc = None /\ ~opening)
  BY <1>1 DEF Newest
<1>6. QED
  BY <1>1, <1>2, <1>3, <1>4, <1>5 DEF Attends, Loop

LEMMA SniffStep == ASSUME NEW c \in Conn, TypeInv, Newest, Calm, Sniff(c) PROVE Calm'
<1>1. /\ thread[c] = "admitted" /\ Finished(c) /\ frame[c].kind \in Text
      /\ ring' = IF frame[c].kind = "swap_ready" THEN {} ELSE ring
  BY DEF Sniff
<1>2. /\ expecting' = expecting \cup IF frame[c].kind = "stem_assets" THEN {} ELSE {c}
      /\ \A d \in Conn : blobsLeft'[d] = IF d = c /\ frame[c].kind = "stem_assets"
                                       THEN Blobs ELSE blobsLeft[d]
  BY <1>1, PastTheTest DEF Sniff, TypeInv, TypeOK
<1>3. /\ c \in expecting' <=> pod[c].phase = "initial"
      /\ blobsLeft'[c] = pod[c].blobs
      /\ pod[c].phase = "stream" => frame[c].kind = "stem_assets"
  BY <1>1, <1>2, PastTheTest DEF Knows, Text
<1>4. c \notin detached => (pod[c].phase = "stream" => ring' = {<<c, pod[c].track>>})
  BY <1>1, <1>3, PastTheTest
<1>5. (ring' = {} \/ \E t \in Track : ring' = {t}) /\ (wsc = None /\ ~opening => ring' = {})
  BY <1>1, PastTheTest
<1>6. QED
  BY <1>1, <1>2, <1>3, <1>4, <1>5, PastTheTest, FinishedStep

LEMMA InitialStep ==
  ASSUME NEW c \in Conn, TypeInv, Newest, Calm, HandleInitial(c) PROVE Calm'
<1>1. /\ thread[c] = "admitted" /\ Finished(c) /\ frame[c].kind \in Binary
      /\ c \in expecting /\ blobsLeft' = blobsLeft
  BY PastTheTest DEF HandleInitial
<1>2. frame[c].kind = "initial" /\ pod[c].phase = "stream" /\ blobsLeft[c] = pod[c].blobs
  BY <1>1, PastTheTest DEF Knows, Binary
<1>3. ring' = {<<c, pod[c].track>>} /\ expecting' = expecting \ {c}
      /\ <<c, pod[c].track>> \in Track
  BY <1>1, <1>2, PastTheTest DEF HandleInitial, AsLoop
<1>4. ~(wsc = None /\ ~opening)
  BY <1>1, <1>2, PastTheTest
<1>5. QED
  BY <1>1, <1>2, <1>3, <1>4, PastTheTest, FinishedStep

LEMMA SliceStep ==
  ASSUME NEW c \in Conn, TypeInv, Newest, Calm, HandleSlice(c) PROVE Calm'
<1>1. /\ thread[c] = "admitted" /\ Finished(c) /\ frame[c].kind \in Binary
      /\ c \notin expecting /\ expecting' = expecting
  BY PastTheTest DEF HandleSlice
<1>2. /\ pod[c].phase = "stream"
      /\ \/ frame[c].kind = "slice" /\ blobsLeft[c] = 0 /\ pod[c].blobs = 0
         \/ frame[c].kind = "blob" /\ blobsLeft[c] = pod[c].blobs + 1 /\ blobsLeft[c] > 0
  BY <1>1, PastTheTest DEF Knows, Binary
<1>3. /\ \A d \in Conn : d # c => blobsLeft'[d] = blobsLeft[d]
      /\ blobsLeft'[c] = pod[c].blobs
  <2>1. /\ blobsLeft \in [Conn -> 0..Blobs] /\ via[c] = c /\ Blobs \in Nat
        /\ pod[c].blobs \in 0..Blobs
    BY <1>1, PastTheTest, StreamAssumption DEF TypeInv, TypeOK
  <2>2. blobsLeft' = IF blobsLeft[c] > 0 THEN [blobsLeft EXCEPT ![c] = @ - 1] ELSE blobsLeft
    BY <2>1 DEF HandleSlice
  <2>3. QED
    BY <1>2, <2>1, <2>2
<1>4. ring' = ring \/ (ring # {} /\ ring' = ring \cup {<<c, pod[c].track>>})
  BY <1>1, <1>2, PastTheTest DEF HandleSlice
<1>5. ring' = ring
  BY <1>1, <1>2, <1>4, PastTheTest
<1>6. QED
  BY <1>1, <1>2, <1>3, <1>5, PastTheTest, FinishedStep

LEMMA StreamStep == StreamInv /\ [Next]_vars => StreamInv'
<1> SUFFICES ASSUME StreamInv, [Next]_vars PROVE StreamInv'
  OBVIOUS
<1>1. TypeInv /\ Newest /\ TypeInv' /\ Newest'
  BY TypeStep, NewestStep DEF StreamInv
<1>2. ASSUME ~stray' PROVE Calm'
  <2>1. Calm
    BY <1>1, <1>2, StrayStays DEF StreamInv
  <2>2. CASE UNCHANGED vars
    <3>1. Own' /\ Unopened' /\ InStep'
      BY <2>1, <2>2 DEF Calm, Own, Unopened, InStep, Alive, Attends, Knows,
                        vars, mainVars, routerVars, threadVars
    <3>2. Loop'
      BY <2>1, <2>2 DEF Calm, Loop, Alive, vars, mainVars, routerVars, threadVars
    <3>3. QED
      BY <3>1, <3>2 DEF Calm
  <2>3. CASE Main
    BY <1>1, <1>2, <2>1, <2>3, CloseOldStep, OpenNewStep, DisconnectStep, DrainStep DEF Main
  <2>4. ASSUME NEW c \in Conn, Recv(c) PROVE Calm'
    BY <1>1, <1>2, <2>1, <2>4, ReadStep, AdmitStep, RefuseStep, SniffStep, InitialStep,
       SliceStep, EndStep DEF Recv
  <2>5. QED
    BY <2>2, <2>3, <2>4 DEF Next
<1>3. QED
  BY <1>1, <1>2 DEF StreamInv

LEMMA StreamInvAlways == Spec => []StreamInv
BY StreamInit, StreamStep, PTL DEF Spec

-----------------------------------------------------------------------------
(* What follows from it *)

\* The loop never mixes two tracks and never holds bytes that were not PCM,
\* through reconnects with the old thread still alive, swaps and stem blobs,
\* until a frame slips past a detached test.
THEOREM OneTrackAlways == Spec => []OneTrack
<1>1. StreamInv => OneTrack
  <2> SUFFICES ASSUME StreamInv, ~stray PROVE Cardinality(ring) <= 1 /\ Garbage \notin ring
    BY DEF OneTrack
  <2>1. Cardinality({}) = 0 /\ \A t : Cardinality({t}) = 1
    BY FS_EmptySet, FS_Singleton
  <2>2. Garbage \notin Track
    BY ConnIsNat DEF Garbage, Track, None
  <2>3. CASE ring = {}
    BY <2>1, <2>3
  <2>4. ASSUME NEW t \in Track, ring = {t} PROVE Cardinality(ring) <= 1 /\ Garbage \notin ring
    <3>1. Cardinality(ring) = 1
      BY <2>1, <2>4
    <3>2. QED
      BY <2>2, <2>4, <3>1
  <2>5. QED
    BY <2>3, <2>4 DEF StreamInv, Calm, Loop
<1>2. QED
  BY <1>1, StreamInvAlways, PTL

\* Between two frames the router of an open connection knows what the pod sends
\* next, until a frame slips past a detached test.
THEOREM RouterInStepAlways == Spec => []RouterInStep
<1>1. StreamInv => RouterInStep
  BY DEF StreamInv, Calm, InStep, Attends, Alive, RouterInStep
<1>2. QED
  BY <1>1, StreamInvAlways, PTL

\* The loop of a track stays until the next swap, and after Disconnect the frames
\* still read do not bring it back, until one slips past a detached test.
THEOREM RingInStepAlways == Spec => []RingInStep
<1>1. StreamInv => RingInStep
  BY DEF StreamInv, Calm, Loop, Alive, RingInStep
<1>2. QED
  BY <1>1, StreamInvAlways, PTL
=============================================================================
