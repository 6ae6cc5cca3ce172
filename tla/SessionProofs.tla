--------------------------- MODULE SessionProofs ---------------------------
(***************************************************************************)
(* Proofs about Session, for every number of Connects, every failover      *)
(* limit and every set of modes.                                           *)
(*                                                                         *)
(* Counting bounds the attempts to reach a pod, and with them the          *)
(* generations and the queue sessions, so that TypeOK holds.               *)
(***************************************************************************)
EXTENDS Session, SequenceTheorems, TLAPS

\* Retries the current session may still ask for.  Before the first Connect
\* there is no session, and once a pod is ready there is no retry.
Remaining == IF sawReady \/ connects = 0 THEN 0 ELSE MaxFailover - failovers

\* Every attempt made, scheduled or still possible is paid for by a Connect.
Counting ==
  /\ tries + sleepers + Remaining <= connects * (1 + MaxFailover)
  /\ wsGen <= tries
  /\ joined <= tries

CountInv == TypeOK /\ Counting

-----------------------------------------------------------------------------
(* Arithmetic *)

\* One more Connect buys one more attempt and MaxFailover more retries.
LEMMA BudgetStep ==
  ASSUME NEW c \in Nat, NEW k \in Nat
  PROVE  (c + 1) * k = c * k + k
  OBVIOUS

\* The budget grows with the number of Connects.
LEMMA BudgetMonotone ==
  ASSUME NEW c \in Nat, NEW d \in Nat, NEW k \in Nat, c <= d
  PROVE  c * k <= d * k
  OBVIOUS

\* The bounds on attempts are natural numbers.
LEMMA Bounds ==
  /\ MaxFailover \in Nat /\ MaxConnects \in Nat /\ SendFailLimit \in Nat \ {0}
  /\ MaxTries \in Nat
  /\ \A c \in 0..MaxConnects : c * (1 + MaxFailover) \in 0..MaxTries
BY SessionAssumption, BudgetMonotone DEF MaxTries

-----------------------------------------------------------------------------
(* Counting: every attempt is paid for, so the types are kept. *)

\* What opening a socket does to the generations and to the socket's state.
Sockets ==
  /\ wsGen \in 0..MaxTries /\ wsc \in 0..wsGen
  /\ thread \in [Gen -> {"none", "dialing", "open", "done"}]
  /\ closing \subseteq Gen
  /\ sessionOf \in [Gen -> 0..MaxTries]
  /\ pendingConfig \in BOOLEAN /\ pendingAudio \in BOOLEAN /\ pacerFailing \in BOOLEAN

\* _open_ws uses up at most one generation.
LEMMA OpenWsType ==
  ASSUME TypeOK, wsGen < MaxTries, NEW s \in 0..MaxTries, OpenWs(s)
  PROVE  Sockets' /\ wsGen' \in wsGen..(wsGen + 1)
<1> USE Bounds DEF TypeOK, Sockets, Gen, None, Some
<1>1. CASE UNCHANGED socketVars
  BY <1>1 DEF socketVars
<1>2. CASE ~UNCHANGED socketVars
  <2>1. /\ wsGen' = wsGen + 1 /\ wsc' = wsGen + 1
        /\ closing' = closing \cup Some(wsc)
        /\ thread' = [thread EXCEPT ![wsGen + 1] = "dialing"]
        /\ sessionOf' = [sessionOf EXCEPT ![wsGen + 1] = s]
        /\ pendingConfig' = TRUE /\ pendingAudio' = TRUE
        /\ pacerFailing' \in {pacerFailing, pacerFailing \/ Streaming}
    BY <1>2 DEF OpenWs
  <2>2. wsGen + 1 \in Gen
    OBVIOUS
  <2>3. pacerFailing' \in BOOLEAN
    BY <2>1 DEF Streaming
  <2> QED
    BY <2>1, <2>2, <2>3
<1> QED
  BY <1>1, <1>2

\* _hosted_join_and_open makes one attempt and uses up at most one queue
\* session and one generation.
LEMMA HostedJoinType ==
  ASSUME TypeOK, wsGen < MaxTries, joined < MaxTries, HostedJoinAndOpen
  PROVE  /\ Sockets' /\ wsGen' \in wsGen..(wsGen + 1)
         /\ joined' \in joined..(joined + 1) /\ sessionId' \in 0..joined'
         /\ tries' = tries + 1
<1> USE Bounds
<1>1. CASE UNCHANGED <<sessionId, joined, socketVars>>
  BY <1>1 DEF HostedJoinAndOpen, socketVars, TypeOK, Sockets
<1>2. CASE joined' = joined + 1 /\ sessionId' = joined + 1 /\ OpenWs(joined + 1)
  <2>1. joined + 1 \in 0..MaxTries
    BY DEF TypeOK
  <2>2. Sockets' /\ wsGen' \in wsGen..(wsGen + 1)
    BY <1>2, <2>1, OpenWsType
  <2> QED
    BY <1>2, <2>2 DEF HostedJoinAndOpen, TypeOK
<1> QED
  BY <1>1, <1>2 DEF HostedJoinAndOpen

\* Tail and Append keep the queue a sequence of events.
LEMMA QueueType ==
  ASSUME TypeOK
  PROVE  /\ inbound # <<>> => Tail(inbound) \in Seq([kind : Kinds, gen : Gen])
         /\ inbound # <<>> => Head(inbound) \in [kind : Kinds, gen : Gen]
         /\ \A k \in Kinds, g \in Gen :
              Append(inbound, Event(k, g)) \in Seq([kind : Kinds, gen : Gen])
<1>1. inbound \in Seq([kind : Kinds, gen : Gen])
  BY DEF TypeOK
<1>2. \A k \in Kinds, g \in Gen : Event(k, g) \in [kind : Kinds, gen : Gen]
  BY DEF Event
<1> QED
  BY <1>1, <1>2, HeadTailProperties, AppendProperties

\* None is no generation and no queue session.
LEMMA SomeType ==
  ASSUME NEW n \in 0..MaxTries, NEW x \in 0..n
  PROVE  Some(x) \subseteq 1..n /\ Some(x) \subseteq Gen /\ Some(x) \subseteq Sid
  BY Bounds DEF Some, None, Gen, Sid

\* Nothing is asked of the world before the first Connect.
LEMMA IdleBeforeConnect ==
  ASSUME CountInv, connects = 0
  PROVE  tries = 0 /\ sleepers = 0 /\ wsGen = 0
<1>1. connects * (1 + MaxFailover) = 0
  BY Bounds
<1> QED
  BY <1>1 DEF CountInv, TypeOK, Counting, Remaining

THEOREM CountInit == Init => CountInv
<1> SUFFICES ASSUME Init PROVE CountInv
  OBVIOUS
<1> USE Bounds, SessionAssumption
<1>1. TypeOK
  <2>1. /\ thread \in [Gen -> {"none", "dialing", "open", "done"}]
        /\ sessionOf \in [Gen -> 0..MaxTries]
    BY DEF Init, None
  <2>2. inbound \in Seq([kind : Kinds, gen : Gen])
    BY DEF Init
  <2>3. /\ mode \in Modes
        /\ connected \in BOOLEAN /\ sawReady \in BOOLEAN /\ wanted \in BOOLEAN
        /\ pendingConfig \in BOOLEAN /\ pendingAudio \in BOOLEAN /\ pacerFailing \in BOOLEAN
        /\ closing \subseteq Gen /\ given \subseteq Gen /\ readySent \subseteq Gen
        /\ left \subseteq Sid
    BY DEF Init
  <2>4. /\ failovers \in 0..MaxFailover /\ sendFailStreak \in 0..SendFailLimit
        /\ wsGen \in 0..MaxTries /\ wsc \in 0..wsGen
        /\ joined \in 0..MaxTries /\ sessionId \in 0..joined
        /\ sleepers \in Nat /\ tries \in Nat /\ connects \in 0..MaxConnects
    BY DEF Init, None
  <2> QED
    BY <2>1, <2>2, <2>3, <2>4 DEF TypeOK
<1>2. connects * (1 + MaxFailover) = 0
  BY DEF Init
<1>3. Counting
  BY <1>2 DEF Init, Counting, Remaining
<1> QED
  BY <1>1, <1>3 DEF CountInv

\* A step that leaves the counters alone keeps Counting.
LEMMA CountFrame ==
  ASSUME CountInv, UNCHANGED <<sleepers, wsGen, joined, tries, connects, failovers, sawReady>>
  PROVE  Counting'
  BY DEF CountInv, Counting, Remaining

\* An attempt is made only while generations and queue sessions are left.
LEMMA RoomToTry ==
  ASSUME CountInv, Connect \/ FailoverTick
  PROVE  tries < MaxTries /\ wsGen < MaxTries /\ joined < MaxTries
<1> USE Bounds
<1>1. TypeOK /\ Counting /\ connects * (1 + MaxFailover) \in 0..MaxTries
  BY DEF CountInv, TypeOK
<1>2. CASE Connect
  <2>1. connects + 1 \in 0..MaxConnects
    BY <1>1, <1>2 DEF Connect, TypeOK
  <2>2. connects * (1 + MaxFailover) + (1 + MaxFailover) <= MaxTries
    <3>1. PICK c \in 0..MaxConnects : c = connects + 1
      BY <2>1
    <3>2. c * (1 + MaxFailover) \in 0..MaxTries
      BY <3>1
    <3>3. c * (1 + MaxFailover) = connects * (1 + MaxFailover) + (1 + MaxFailover)
      BY <1>1, <3>1, BudgetStep DEF TypeOK
    <3> QED
      BY <3>2, <3>3
  <2> QED
    BY <1>1, <2>2 DEF Counting, TypeOK, Remaining
<1>3. CASE FailoverTick
  <2>1. sleepers > 0
    BY <1>3 DEF FailoverTick
  <2> QED
    BY <1>1, <2>1 DEF Counting, TypeOK, Remaining
<1> QED
  BY <1>2, <1>3

LEMMA CountNext == CountInv /\ [Next]_vars => CountInv'
<1> SUFFICES ASSUME CountInv, [Next]_vars PROVE TypeOK' /\ Counting'
  BY DEF CountInv
<1> USE Bounds
<1>0. TypeOK /\ Counting
  BY DEF CountInv
<1>1. ASSUME NEW m \in Modes, SetMode(m) PROVE TypeOK' /\ Counting'
  <2>1. TypeOK'
    BY <1>0, <1>1 DEF SetMode, mainVars, threadVars, worldVars, TypeOK
  <2> QED
    BY <2>1, <1>1, CountFrame DEF SetMode, mainVars, worldVars
<1>2. CASE Connect
  <2>1. /\ connects \in Nat /\ connects + 1 \in 0..MaxConnects
        /\ connects' = connects + 1
        /\ sawReady' = FALSE /\ failovers' = 0 /\ sendFailStreak' = 0
        /\ UNCHANGED <<mode, connected, inbound, sleepers, readySent, given, left>>
    BY <1>0, <1>2 DEF Connect, TypeOK
  <2>2. /\ connects * (1 + MaxFailover) \in Nat
        /\ connects' * (1 + MaxFailover)
             = connects * (1 + MaxFailover) + (1 + MaxFailover)
    BY <2>1, BudgetStep
  <2>3. tries < MaxTries /\ wsGen < MaxTries /\ joined < MaxTries
    BY <1>2, RoomToTry
  <2>4. /\ Sockets' /\ wsGen' \in wsGen..(wsGen + 1)
        /\ joined' \in joined..(joined + 1) /\ sessionId' \in 0..joined'
        /\ tries' = tries + 1
    <3>1. CASE sessionId' = None /\ tries' = tries + 1 /\ OpenWs(None)
                /\ UNCHANGED joined
      BY <1>0, <2>3, <3>1, OpenWsType DEF None, TypeOK
    <3>2. CASE HostedJoinAndOpen
      BY <1>0, <2>3, <3>2, HostedJoinType
    <3> QED
      BY <1>2, <3>1, <3>2 DEF Connect
  <2>5. TypeOK'
    <3>1. wanted' = TRUE /\ joined' \in 0..MaxTries /\ tries' \in Nat
      BY <1>0, <1>2, <2>3, <2>4 DEF TypeOK, Connect
    <3>2. failovers' \in 0..MaxFailover /\ sendFailStreak' \in 0..SendFailLimit
      BY <2>1
    <3> QED
      BY <1>0, <2>1, <2>4, <3>1, <3>2 DEF TypeOK, Sockets
  <2>6. Counting'
    BY <1>0, <2>1, <2>2, <2>4 DEF TypeOK, Counting, Remaining
  <2> QED
    BY <2>5, <2>6
<1>3. ASSUME TearDown, UNCHANGED <<wsGen, joined>>
      PROVE  /\ connected' \in BOOLEAN /\ pacerFailing' \in BOOLEAN
             /\ wsc' \in 0..wsGen' /\ sessionId' \in 0..joined'
             /\ closing' \subseteq Gen /\ left' \subseteq Sid
  <2>1. Some(wsc) \subseteq Gen /\ Some(sessionId) \subseteq Sid
    BY <1>0, SomeType DEF TypeOK
  <2>2. 0 \in 0..wsGen /\ 0 \in 0..joined
    BY <1>0 DEF TypeOK
  <2> QED
    BY <1>0, <1>3, <2>1, <2>2 DEF TearDown, TypeOK, None
<1>4. CASE Disconnect
  <2>1. TypeOK'
    BY <1>0, <1>3, <1>4 DEF Disconnect, TypeOK, threadVars
  <2> QED
    BY <2>1, <1>4, CountFrame DEF Disconnect
<1>5. CASE SendDiscrete
  <2>1. sendFailStreak' \in 0..SendFailLimit
    BY <1>0, <1>5 DEF SendDiscrete, Failed, TypeOK
  <2>2. TypeOK'
    <3>1. CASE TearDown
      BY <1>0, <1>3, <1>5, <2>1, <3>1 DEF SendDiscrete, TypeOK, threadVars
    <3>2. CASE UNCHANGED <<connected, pacerFailing, wsc, sessionId, closing, left>>
      BY <1>0, <1>5, <2>1, <3>2 DEF SendDiscrete, TypeOK, threadVars
    <3> QED
      BY <1>5, <3>1, <3>2 DEF SendDiscrete
  <2> QED
    BY <2>2, <1>5, CountFrame DEF SendDiscrete
<1>6. ASSUME NEW k \in Kinds, Drain(k)
      PROVE  /\ inbound' \in Seq([kind : Kinds, gen : Gen])
             /\ wsGen \in Gen /\ connects # 0
  <2>1. inbound # <<>> /\ inbound' = Tail(inbound) /\ Head(inbound).gen = wsGen
    BY <1>6 DEF Drain, Stale
  <2>2. wsGen \in Gen
    BY <1>0, <2>1, QueueType
  <2> QED
    BY <1>0, <2>1, <2>2, QueueType, IdleBeforeConnect DEF Gen
<1>7. CASE DrainStale
  <2>1. TypeOK'
    BY <1>0, <1>7, QueueType DEF DrainStale, mainVars, threadVars, worldVars, TypeOK
  <2> QED
    BY <2>1, <1>7, CountFrame DEF DrainStale, mainVars, worldVars
<1>8. CASE FlushPending
  <2>1. inbound' \in Seq([kind : Kinds, gen : Gen])
    BY <1>6, <1>8 DEF FlushPending, Kinds
  <2>2. /\ sendFailStreak' \in 0..SendFailLimit
        /\ pendingConfig' \in BOOLEAN /\ connected' \in BOOLEAN /\ pacerFailing' \in BOOLEAN
        /\ given' \subseteq Gen
    <3>1. SendOk => {wsc} \subseteq Gen
      BY <1>0 DEF SendOk, TypeOK, Gen, None
    <3>2. sendFailStreak' \in {sendFailStreak, 0, Failed(2)}
      BY <1>8 DEF FlushPending
    <3>3. Failed(2) \in 0..SendFailLimit
      BY <1>0 DEF Failed, TypeOK
    <3>4. pendingConfig' \in BOOLEAN /\ connected' \in BOOLEAN /\ pacerFailing' \in BOOLEAN
      BY <1>0, <1>8 DEF FlushPending, TypeOK
    <3>5. given' \subseteq given \cup (IF SendOk THEN {wsc} ELSE {})
      BY <1>8 DEF FlushPending
    <3> QED
      BY <1>0, <3>1, <3>2, <3>3, <3>4, <3>5 DEF TypeOK
  <2>3. /\ wsc' \in 0..wsGen /\ sessionId' \in 0..joined
        /\ closing' \subseteq Gen /\ left' \subseteq Sid
    <3>1. Some(wsc) \subseteq Gen /\ Some(sessionId) \subseteq Sid
      BY <1>0, SomeType DEF TypeOK
    <3>2. 0 \in 0..wsGen /\ 0 \in 0..joined
      BY <1>0 DEF TypeOK
    <3> QED
      BY <1>0, <1>8, <3>1, <3>2 DEF FlushPending, TypeOK, None
  <2>4. TypeOK'
    BY <1>0, <1>8, <2>1, <2>2, <2>3 DEF FlushPending, TypeOK, threadVars
  <2> QED
    BY <2>4, <1>8, CountFrame DEF FlushPending
<1>9. CASE EvReady
  <2>1. inbound' \in Seq([kind : Kinds, gen : Gen])
    BY <1>6, <1>9 DEF EvReady, Kinds
  <2>2. sendFailStreak' \in 0..SendFailLimit
    BY <1>0, <1>9 DEF EvReady, Failed, InterpPaths, TypeOK
  <2>3. /\ connected' \in BOOLEAN /\ pacerFailing' \in BOOLEAN
        /\ wsc' \in 0..wsGen /\ sessionId' \in 0..joined
        /\ closing' \subseteq Gen /\ left' \subseteq Sid
    <3>1. CASE TearDown
      BY <1>0, <1>3, <1>9, <3>1 DEF EvReady
    <3>2. CASE UNCHANGED <<connected, pacerFailing, wsc, sessionId, closing, left>>
      BY <1>0, <3>2 DEF TypeOK
    <3> QED
      BY <1>9, <3>1, <3>2 DEF EvReady
  <2>4. /\ sawReady' = TRUE /\ failovers' = 0 /\ pendingAudio' = FALSE
        /\ UNCHANGED <<mode, wsGen, pendingConfig, sleepers, threadVars,
                       given, sessionOf, joined, connects, tries, wanted>>
    BY <1>9 DEF EvReady
  <2>5. TypeOK'
    <3>1. failovers' \in 0..MaxFailover
      BY <2>4
    <3> QED
      BY <1>0, <2>1, <2>2, <2>3, <2>4, <3>1 DEF TypeOK, threadVars
  <2>6. Counting'
    BY <1>0, <1>9 DEF EvReady, TypeOK, Counting, Remaining
  <2> QED
    BY <2>5, <2>6
<1>10. CASE HandleWsClose
  <2>1. inbound' \in Seq([kind : Kinds, gen : Gen]) /\ connects # 0
    BY <1>6, <1>10 DEF HandleWsClose, Kinds
  <2>2. left' \subseteq Sid /\ sessionId' \in 0..joined
    <3>1. Some(sessionId) \subseteq Sid /\ 0 \in 0..joined
      BY <1>0, SomeType DEF TypeOK
    <3> QED
      BY <1>0, <1>10, <3>1 DEF HandleWsClose, TypeOK, None
  <2>3. failovers' \in 0..MaxFailover /\ sleepers' \in Nat
    BY <1>0, <1>10 DEF HandleWsClose, MayFailOver, TypeOK
  <2>4. TypeOK'
    BY <1>0, <1>10, <2>1, <2>2, <2>3 DEF HandleWsClose, TypeOK, threadVars
  <2>5. Counting'
    BY <1>0, <1>10, <2>1 DEF HandleWsClose, MayFailOver, TypeOK, Counting, Remaining
  <2> QED
    BY <2>4, <2>5
<1>11. CASE FailoverTick
  <2>1. sleepers > 0 /\ sleepers' = sleepers - 1 /\ HostedJoinAndOpen
    BY <1>11 DEF FailoverTick
  <2>2. tries < MaxTries /\ wsGen < MaxTries /\ joined < MaxTries
    BY <1>11, RoomToTry
  <2>3. /\ Sockets' /\ wsGen' \in wsGen..(wsGen + 1)
        /\ joined' \in joined..(joined + 1) /\ sessionId' \in 0..joined'
        /\ tries' = tries + 1
    BY <1>0, <2>1, <2>2, HostedJoinType
  <2>4. TypeOK'
    BY <1>0, <1>11, <2>1, <2>2, <2>3 DEF FailoverTick, TypeOK, Sockets
  <2>5. Counting'
    BY <1>0, <1>11, <2>1, <2>3 DEF FailoverTick, TypeOK, Counting, Remaining
  <2> QED
    BY <2>4, <2>5
<1>12. ASSUME NEW g \in Gen, RecvStep(g) PROVE TypeOK' /\ Counting'
  <2>1. inbound' \in Seq([kind : Kinds, gen : Gen])
    BY <1>0, <1>12, QueueType
       DEF RecvStep, Dial, DialOk, DialFail, PodCloses, SeesClosing, RecvReady, Post, Kinds
  <2>2. /\ thread' \in [Gen -> {"none", "dialing", "open", "done"}]
        /\ readySent' \subseteq Gen
        /\ UNCHANGED <<mode, mainVars, worldVars>>
    BY <1>0, <1>12
       DEF RecvStep, Dial, DialOk, DialFail, PodCloses, SeesClosing, RecvReady,
           ThreadStep, TypeOK
  <2>3. TypeOK'
    BY <1>0, <2>1, <2>2 DEF TypeOK, mainVars, worldVars
  <2> QED
    BY <2>2, <2>3, CountFrame DEF mainVars, worldVars
<1>13. CASE Watchdog
  <2>1. TypeOK'
    BY <1>0, <1>3, <1>13 DEF Watchdog, TypeOK, threadVars
  <2> QED
    BY <2>1, <1>13, CountFrame DEF Watchdog
<1>14. CASE PacerSends
  <2>1. TypeOK'
    BY <1>0, <1>14 DEF PacerSends, TypeOK, threadVars, worldVars
  <2> QED
    BY <2>1, <1>14, CountFrame DEF PacerSends, worldVars
<1>15. CASE UNCHANGED vars
  <2>1. TypeOK'
    BY <1>0, <1>15 DEF vars, mainVars, threadVars, worldVars, TypeOK
  <2> QED
    BY <2>1, <1>15, CountFrame DEF vars, mainVars, threadVars, worldVars
<1> QED
  BY <1>1, <1>2, <1>4, <1>5, <1>7, <1>8, <1>9, <1>10, <1>11, <1>12, <1>13,
     <1>14, <1>15
     DEF Next, UserStep, DrainStep

\* Every reachable state is counted.
LEMMA CountAlways == Spec => []CountInv
  BY CountInit, CountNext, PTL DEF Spec

\* The variables keep their types: in particular MaxTries generations and
\* queue sessions are enough, so neither numbering runs out.
THEOREM TypeCorrect == Spec => []TypeOK
  BY CountAlways, PTL DEF CountInv

\* BoundedTries holds for every MaxFailover and every number of Connects.
THEOREM TriesBounded == Spec => []BoundedTries
<1>1. CountInv => BoundedTries
  BY Bounds DEF CountInv, TypeOK, Counting, Remaining, BoundedTries
<1> QED
  BY <1>1, CountAlways, PTL
-----------------------------------------------------------------------------
(***************************************************************************)
(* Who may use a socket, which events can be queued for it, and what that  *)
(* says of the safety properties of Session.  The invariant has two parts: *)
(* Owners ties the live client to _wsc and to the queue sessions, Queue    *)
(* says what each queued event tells about its generation.                 *)
(***************************************************************************)

Live(g) == thread[g] \in {"dialing", "open"} /\ g \notin closing

WscCurrent == wsc \in {None, wsGen}
LeftGiven  == left \subseteq 1..joined
Unborn     == \A g \in Gen : g > wsGen => thread[g] = "none"

Owners == OneLiveClient /\ ReleasedOnlyDead /\ WscCurrent /\ LeftGiven /\ Unborn

InQueue(k, g) == \E i \in 1..Len(inbound) : inbound[i] = Event(k, g)
Up(g) == thread[g] \in {"open", "done"}

\* A thread posts "close" as it ends, "open" once it is up, "ready" when the
\* pod says so; "open" comes once, and before config and audio are sent.
CloseIsLast == \A g \in Gen : InQueue("close", g) => thread[g] = "done"
ReadyIsSent == \A g \in Gen : InQueue("ready", g) => g \in readySent
OpenIsUp    == \A g \in Gen : InQueue("open", g) => Up(g)
GivenIsUp   == \A g \in given : Up(g) /\ ~InQueue("open", g)
ReadyGiven  == readySent \subseteq given
OpenOnce    == \A i, j \in 1..Len(inbound) :
                 inbound[i] = inbound[j] /\ inbound[i].kind = "open" => i = j

\* Until its open event is drained, the config staged for the current
\* generation is untouched.
Staged == \A g \in Gen :
  g = wsGen /\ (thread[g] = "dialing" \/ InQueue("open", g))
    => pendingConfig /\ pendingAudio

Queue == CloseIsLast /\ ReadyIsSent /\ OpenIsUp /\ GivenIsUp /\ ReadyGiven
           /\ OpenOnce /\ Staged /\ ConfigNotLost

Inv == CountInv /\ Owners /\ Queue

-----------------------------------------------------------------------------
(* The event queue *)

\* Draining an event leaves the others; an open event does not come back.
LEMMA QueueDrain ==
  ASSUME inbound \in Seq([kind : Kinds, gen : Gen]), inbound # <<>>, OpenOnce,
         inbound' = Tail(inbound)
  PROVE  /\ OpenOnce'
         /\ \A k \in Kinds, g \in Gen : InQueue(k, g)' => InQueue(k, g)
         /\ \A k \in Kinds, g \in Gen :
              InQueue(k, g) => InQueue(k, g)' \/ Head(inbound) = Event(k, g)
         /\ \A g \in Gen : Head(inbound) = Event("open", g) => ~InQueue("open", g)'
         /\ \A k \in Kinds, g \in Gen : Head(inbound) = Event(k, g) => InQueue(k, g)
<1>1. /\ Len(inbound) \in Nat /\ Len(inbound) # 0
      /\ Len(inbound') = Len(inbound) - 1
      /\ \A i \in 1..Len(inbound') : inbound'[i] = inbound[i + 1]
      /\ Head(inbound) = inbound[1]
  OBVIOUS
<1>2. OpenOnce'
  BY <1>1 DEF OpenOnce
<1>3. \A k \in Kinds, g \in Gen : InQueue(k, g)' => InQueue(k, g)
  BY <1>1 DEF InQueue
<1>4. ASSUME NEW k \in Kinds, NEW g \in Gen, InQueue(k, g), Head(inbound) # Event(k, g)
      PROVE  InQueue(k, g)'
  <2>1. PICK i \in 1..Len(inbound) : inbound[i] = Event(k, g)
    BY <1>4 DEF InQueue
  <2>2. i - 1 \in 1..Len(inbound') /\ inbound'[i - 1] = Event(k, g)
    BY <1>1, <1>4, <2>1
  <2> QED
    BY <2>2 DEF InQueue
<1>5. ASSUME NEW g \in Gen, Head(inbound) = Event("open", g), InQueue("open", g)'
      PROVE  FALSE
  <2>1. PICK i \in 1..Len(inbound') : inbound'[i] = Event("open", g)
    BY <1>5 DEF InQueue
  <2>2. inbound[i + 1] = inbound[1] /\ inbound[1].kind = "open"
    BY <1>1, <1>5, <2>1 DEF Event
  <2> QED
    BY <1>1, <2>1, <2>2 DEF OpenOnce
<1>6. \A k \in Kinds, g \in Gen : Head(inbound) = Event(k, g) => InQueue(k, g)
  BY <1>1 DEF InQueue
<1> QED
  BY <1>2, <1>3, <1>4, <1>5, <1>6

\* Posting adds one event.
LEMMA QueuePost ==
  ASSUME inbound \in Seq([kind : Kinds, gen : Gen]), OpenOnce,
         NEW k0 \in Kinds, NEW g0 \in Gen, Post(k0, g0),
         k0 = "open" => ~InQueue("open", g0)
  PROVE  /\ OpenOnce'
         /\ \A k \in Kinds, g \in Gen :
              InQueue(k, g)' <=> InQueue(k, g) \/ (k = k0 /\ g = g0)
<1>1. /\ Len(inbound) \in Nat
      /\ Len(inbound') = Len(inbound) + 1
      /\ \A i \in 1..Len(inbound) : inbound'[i] = inbound[i]
      /\ inbound'[Len(inbound) + 1] = Event(k0, g0)
  BY DEF Post, Event
<1>2. \A k, g : Event(k, g) = Event(k0, g0) <=> k = k0 /\ g = g0
  BY DEF Event
<1>3. \A k \in Kinds, g \in Gen :
        InQueue(k, g)' <=> InQueue(k, g) \/ (k = k0 /\ g = g0)
  BY <1>1, <1>2 DEF InQueue
<1>4. ASSUME NEW i \in 1..Len(inbound'), NEW j \in 1..Len(inbound'),
             inbound'[i] = inbound'[j], inbound'[i].kind = "open"
      PROVE  i = j
  <2>1. ASSUME NEW n \in 1..Len(inbound), inbound[n] = Event(k0, g0),
               Event(k0, g0).kind = "open"
        PROVE  FALSE
    BY <2>1 DEF InQueue, Event
  <2> QED
    BY <1>1, <1>4, <2>1 DEF OpenOnce
<1> QED
  BY <1>3, <1>4 DEF OpenOnce

\* A queue left alone.
LEMMA QueueSame ==
  ASSUME inbound' = inbound
  PROVE  /\ OpenOnce <=> OpenOnce'
         /\ \A k, g : InQueue(k, g)' <=> InQueue(k, g)
  BY DEF OpenOnce, InQueue

-----------------------------------------------------------------------------
(* What the operations do to the invariant *)

LEMMA InvInit == Init => Inv
<1> SUFFICES ASSUME Init PROVE Inv
  OBVIOUS
<1>1. CountInv
  BY CountInit
<1>2. \A k, g : ~InQueue(k, g)
  BY DEF Init, InQueue
<1>3. Owners
  BY Bounds DEF Init, Owners, OneLiveClient, ReleasedOnlyDead, WscCurrent, LeftGiven,
                Unborn, None
<1>4. CloseIsLast /\ ReadyIsSent /\ OpenIsUp /\ GivenIsUp /\ ReadyGiven /\ OpenOnce
  BY <1>2 DEF Init, CloseIsLast, ReadyIsSent, OpenIsUp, GivenIsUp, ReadyGiven, OpenOnce
<1>5. Staged /\ ConfigNotLost
  BY <1>2 DEF Init, Staged, ConfigNotLost, Gen
<1> QED
  BY <1>1, <1>3, <1>4, <1>5 DEF Inv, Queue

\* The state Owners is about, left alone.
LEMMA OwnersSame ==
  ASSUME Owners, UNCHANGED <<wsc, wsGen, closing, thread, sessionOf, left, joined>>
  PROVE  Owners'
  BY DEF Owners, OneLiveClient, ReleasedOnlyDead, WscCurrent, LeftGiven, Unborn

\* Tearing down leaves no live client; the session it released was theirs.
LEMMA TearDownOwners ==
  ASSUME TypeOK, Owners,
         wsc' = None, closing' = closing \cup Some(wsc),
         left' = left \cup Some(sessionId),
         UNCHANGED <<wsGen, thread, sessionOf, joined>>
  PROVE  Owners' /\ \A g \in Gen : ~Live(g)'
<1>1. \A g \in Gen : ~Live(g)'
  BY DEF Live, Owners, OneLiveClient, Some, Gen, None
<1>2. Some(sessionId) \subseteq 1..joined
  BY SomeType DEF TypeOK
<1>3. OneLiveClient' /\ ReleasedOnlyDead'
  BY <1>1 DEF Live, OneLiveClient, ReleasedOnlyDead
<1>4. WscCurrent' /\ LeftGiven' /\ Unborn'
  BY <1>2 DEF Owners, WscCurrent, LeftGiven, Unborn
<1> QED
  BY <1>1, <1>3, <1>4 DEF Owners

\* Opening a socket for a session not yet released keeps the invariant: the
\* old client was told to close, the new one has the config staged.
LEMMA OpenKeepsInv ==
  ASSUME TypeOK, Owners, Queue, wsGen < MaxTries,
         NEW s \in 0..MaxTries, s \notin left, OpenWs(s),
         joined' \in joined..(joined + 1),
         UNCHANGED <<inbound, readySent, given, left>>
  PROVE  Owners' /\ Queue'
<1> USE Bounds
<1>1. \A k, g : InQueue(k, g)' <=> InQueue(k, g)
  BY QueueSame
<1>2. OpenOnce'
  BY QueueSame DEF Queue
<1>3. LeftGiven'
  BY DEF Owners, LeftGiven, TypeOK
<1>4. CASE UNCHANGED socketVars
  <2>1. Owners'
    BY <1>3, <1>4
       DEF socketVars, Owners, OneLiveClient, ReleasedOnlyDead, WscCurrent, Unborn
  <2>2. CloseIsLast' /\ ReadyIsSent' /\ OpenIsUp' /\ GivenIsUp' /\ ReadyGiven' /\ Staged'
    BY <1>1, <1>4 DEF socketVars, Queue, CloseIsLast, ReadyIsSent, OpenIsUp, GivenIsUp,
                      ReadyGiven, Staged, Up
  <2>3. ConfigNotLost'
    BY <1>4 DEF socketVars, Queue, ConfigNotLost
  <2> QED
    BY <1>2, <2>1, <2>2, <2>3 DEF Queue
<1>5. CASE ~UNCHANGED socketVars
  <2> DEFINE n == wsGen + 1
  <2>1. /\ wsGen' = n /\ wsc' = n
        /\ closing' = closing \cup Some(wsc)
        /\ thread' = [thread EXCEPT ![n] = "dialing"]
        /\ sessionOf' = [sessionOf EXCEPT ![n] = s]
        /\ pendingConfig' = TRUE /\ pendingAudio' = TRUE
    BY <1>5 DEF OpenWs
  <2>2. n \in Gen /\ wsGen \in Nat /\ thread[n] = "none"
    BY DEF Owners, Unborn, TypeOK, Gen
  <2>3. /\ thread'[n] = "dialing" /\ sessionOf'[n] = s
        /\ \A g \in Gen : g # n => thread'[g] = thread[g] /\ sessionOf'[g] = sessionOf[g]
    BY <2>1, <2>2 DEF TypeOK
  <2>4. \A g \in Gen : g # n => ~Live(g)'
    BY <2>1, <2>3 DEF Live, Owners, OneLiveClient, Some, Gen, None
  <2>5. OneLiveClient' /\ ReleasedOnlyDead'
    BY <2>1, <2>3, <2>4 DEF Live, OneLiveClient, ReleasedOnlyDead
  <2>6. WscCurrent'
    BY <2>1 DEF WscCurrent
  <2>7. Unborn'
    BY <2>1, <2>2, <2>3 DEF Owners, Unborn, Gen
  <2>8. ~InQueue("close", n) /\ ~InQueue("open", n) /\ n \notin given
    BY <2>2 DEF Queue, CloseIsLast, OpenIsUp, GivenIsUp, Up
  <2>9. CloseIsLast' /\ ReadyIsSent' /\ OpenIsUp' /\ GivenIsUp' /\ ReadyGiven'
    BY <1>1, <2>3, <2>8 DEF Queue, CloseIsLast, ReadyIsSent, OpenIsUp, GivenIsUp,
                            ReadyGiven, Up, TypeOK
  <2>10. Staged'
    BY <2>1 DEF Staged
  <2>11. ConfigNotLost'
    BY <2>3, <2>4 DEF ConfigNotLost, Live
  <2> QED
    BY <1>2, <1>3, <2>5, <2>6, <2>7, <2>9, <2>10, <2>11 DEF Owners, Queue
<1> QED
  BY <1>4, <1>5

\* A queue join that succeeds hands out a session nobody can have released.
LEMMA JoinKeepsInv ==
  ASSUME TypeOK, Owners, Queue, wsGen < MaxTries, joined < MaxTries, HostedJoinAndOpen,
         UNCHANGED <<inbound, readySent, given, left>>
  PROVE  Owners' /\ Queue'
<1>1. CASE UNCHANGED <<sessionId, joined, socketVars>>
  <2>1. OpenWs(0) /\ 0 \in 0..MaxTries /\ 0 \notin left /\ joined' \in joined..(joined + 1)
    BY <1>1, Bounds DEF OpenWs, Owners, LeftGiven, TypeOK
  <2> QED
    BY <2>1, OpenKeepsInv
<1>2. CASE joined' = joined + 1 /\ OpenWs(joined + 1)
  <2>1. joined + 1 \in 0..MaxTries /\ joined + 1 \notin left
    BY Bounds DEF Owners, LeftGiven, TypeOK
  <2>2. joined' \in joined..(joined + 1)
    BY <1>2 DEF TypeOK
  <2> QED
    BY <1>2, <2>1, <2>2, OpenKeepsInv
<1> QED
  BY <1>1, <1>2 DEF HostedJoinAndOpen

\* Operations that touch neither threads, the event queue nor the config, and
\* either tear down or leave the clients alone.
LEMMA UserKeepsInv ==
  ASSUME TypeOK, Owners, Queue,
         TearDown \/ UNCHANGED <<wsc, closing, left>>,
         UNCHANGED <<wsGen, thread, sessionOf, joined, inbound, given, readySent,
                     pendingConfig, pendingAudio>>
  PROVE  Owners' /\ Queue'
<1>1. \A k, g : InQueue(k, g)' <=> InQueue(k, g)
  BY QueueSame
<1>2. OpenOnce'
  BY QueueSame DEF Queue
<1>3. CloseIsLast' /\ ReadyIsSent' /\ OpenIsUp' /\ GivenIsUp' /\ ReadyGiven' /\ Staged'
  BY <1>1 DEF Queue, CloseIsLast, ReadyIsSent, OpenIsUp, GivenIsUp, ReadyGiven, Staged, Up
<1>4. CASE TearDown
  <2>1. Owners' /\ \A g \in Gen : ~Live(g)'
    BY <1>4, TearDownOwners DEF TearDown
  <2>2. ConfigNotLost'
    BY <2>1 DEF ConfigNotLost, Live
  <2> QED
    BY <1>2, <1>3, <2>1, <2>2 DEF Queue
<1>5. CASE UNCHANGED <<wsc, closing, left>>
  <2>1. ConfigNotLost'
    BY <1>5 DEF Queue, ConfigNotLost
  <2> QED
    BY <1>2, <1>3, <1>5, <2>1, OwnersSame DEF Queue
<1> QED
  BY <1>4, <1>5

\* The event at the head of the queue, drained because it is current, is of
\* the client in _wsc or of one that is already being closed.
LEMMA DrainCurrent ==
  ASSUME TypeOK, Queue, NEW k \in Kinds, Drain(k)
  PROVE  /\ wsGen \in Gen /\ Head(inbound) = Event(k, wsGen) /\ InQueue(k, wsGen)
         /\ inbound \in Seq([kind : Kinds, gen : Gen]) /\ inbound # <<>>
         /\ inbound' = Tail(inbound) /\ OpenOnce
<1>1. /\ inbound # <<>> /\ inbound' = Tail(inbound)
      /\ Head(inbound).kind = k /\ Head(inbound).gen = wsGen
  BY DEF Drain, Stale
<1>2. Head(inbound) \in [kind : Kinds, gen : Gen]
  BY <1>1, QueueType
<1>3. wsGen \in Gen /\ Head(inbound) = Event(k, wsGen)
  BY <1>1, <1>2 DEF Event
<1>4. inbound \in Seq([kind : Kinds, gen : Gen]) /\ OpenOnce
  BY DEF TypeOK, Queue
<1>5. InQueue(k, wsGen)
  BY <1>1, <1>3, <1>4, QueueDrain
<1> QED
  BY <1>1, <1>3, <1>4, <1>5

\* Draining an event keeps what the rest of the queue says of threads that
\* did not move.
LEMMA DrainKeepsQueue ==
  ASSUME TypeOK, Queue, inbound # <<>>, inbound' = Tail(inbound),
         UNCHANGED <<thread, readySent>>, given \subseteq given', given' \subseteq Gen,
         \A g \in given' \ given : Up(g) /\ ~InQueue("open", g)'
  PROVE  /\ CloseIsLast' /\ ReadyIsSent' /\ OpenIsUp' /\ GivenIsUp' /\ ReadyGiven'
         /\ OpenOnce'
<1>1. inbound \in Seq([kind : Kinds, gen : Gen]) /\ OpenOnce
  BY DEF TypeOK, Queue
<1>2. /\ OpenOnce'
      /\ \A k \in Kinds, g \in Gen : InQueue(k, g)' => InQueue(k, g)
  BY <1>1, QueueDrain
<1>3. "open" \in Kinds /\ "close" \in Kinds /\ "ready" \in Kinds
  BY DEF Kinds
<1>4. CloseIsLast' /\ ReadyIsSent' /\ OpenIsUp' /\ ReadyGiven'
  BY <1>2, <1>3 DEF Queue, CloseIsLast, ReadyIsSent, OpenIsUp, ReadyGiven, Up
<1>5. GivenIsUp'
  BY <1>2, <1>3 DEF Queue, GivenIsUp, Up, TypeOK
<1> QED
  BY <1>2, <1>4, <1>5

LEMMA FlushKeepsInv ==
  ASSUME TypeOK, Owners, Queue, FlushPending
  PROVE  Owners' /\ Queue'
<1> USE DEF Kinds
<1>1. /\ wsGen \in Gen /\ Head(inbound) = Event("open", wsGen) /\ InQueue("open", wsGen)
      /\ inbound \in Seq([kind : Kinds, gen : Gen]) /\ inbound # <<>>
      /\ inbound' = Tail(inbound) /\ OpenOnce
  BY DrainCurrent DEF FlushPending
<1>2. /\ Up(wsGen) /\ pendingConfig /\ pendingAudio
  BY <1>1 DEF Queue, OpenIsUp, Staged
<1>3. /\ ~InQueue("open", wsGen)'
      /\ \A g \in Gen : InQueue("open", g) /\ g # wsGen => InQueue("open", g)'
  <2>1. \A g \in Gen : Event("open", wsGen) = Event("open", g) => g = wsGen
    BY DEF Event
  <2>2. /\ \A g \in Gen : Head(inbound) = Event("open", g) => ~InQueue("open", g)'
        /\ \A g \in Gen :
             InQueue("open", g) => InQueue("open", g)' \/ Head(inbound) = Event("open", g)
    BY <1>1, QueueDrain
  <2>3. UNCHANGED wsGen
    BY DEF FlushPending
  <2> QED
    BY <1>1, <2>1, <2>2, <2>3
<1>4. /\ given' = given \cup (IF SendOk THEN {wsc} ELSE {})
      /\ UNCHANGED <<wsGen, pendingAudio, thread, readySent, sessionOf, joined>>
  BY <1>2 DEF FlushPending, threadVars
<1>5. SendOk => wsc = wsGen
  BY DEF SendOk, Owners, WscCurrent
<1>6. /\ CloseIsLast' /\ ReadyIsSent' /\ OpenIsUp' /\ GivenIsUp' /\ ReadyGiven'
      /\ OpenOnce'
  <2>1. \A g \in given' \ given : Up(g) /\ ~InQueue("open", g)'
    BY <1>2, <1>3, <1>4, <1>5
  <2>2. given \subseteq given' /\ given' \subseteq Gen
    BY <1>1, <1>4, <1>5 DEF TypeOK
  <2> QED
    BY <1>1, <1>4, <2>1, <2>2, DrainKeepsQueue
<1>7. Staged'
  BY <1>2, <1>3, <1>4 DEF Staged, Up
<1>8. CASE UNCHANGED <<pacerFailing, wsc, sessionId, closing, left>>
  <2>1. Owners'
    BY <1>4, <1>8, OwnersSame
  <2>2. ASSUME NEW g \in Gen, thread'[g] = "open", g \notin closing'
        PROVE  g \in given' \/ InQueue("open", g)'
    <3>1. wsc = g /\ g = wsGen
      BY <1>4, <1>8, <2>2 DEF Owners, OneLiveClient, WscCurrent, Gen, None
    <3>2. SendOk
      BY <1>4, <1>8, <2>2, <3>1 DEF SendOk, Gen, None
    <3> QED
      BY <1>4, <3>1, <3>2
  <2>3. ConfigNotLost'
    BY <2>2 DEF ConfigNotLost, InQueue
  <2> QED
    BY <1>6, <1>7, <2>1, <2>3 DEF Queue
<1>9. CASE /\ wsc' = None /\ sessionId' = None
           /\ closing' = closing \cup Some(wsc)
           /\ left' = left \cup Some(sessionId)
  <2>1. Owners' /\ \A g \in Gen : ~Live(g)'
    BY <1>4, <1>9, TearDownOwners
  <2>2. ConfigNotLost'
    BY <2>1 DEF ConfigNotLost, Live
  <2> QED
    BY <1>6, <1>7, <2>1, <2>2 DEF Queue
<1> QED
  BY <1>8, <1>9 DEF FlushPending

LEMMA ReadyKeepsInv ==
  ASSUME TypeOK, Owners, Queue, EvReady
  PROVE  Owners' /\ Queue'
<1> USE DEF Kinds
<1>1. /\ wsGen \in Gen /\ Head(inbound) = Event("ready", wsGen) /\ InQueue("ready", wsGen)
      /\ inbound \in Seq([kind : Kinds, gen : Gen]) /\ inbound # <<>>
      /\ inbound' = Tail(inbound) /\ OpenOnce
  BY DrainCurrent DEF EvReady
<1>2. Up(wsGen) /\ ~InQueue("open", wsGen)
  BY <1>1 DEF Queue, ReadyIsSent, ReadyGiven, GivenIsUp
<1>3. UNCHANGED <<wsGen, pendingConfig, thread, readySent, given, sessionOf, joined>>
  BY DEF EvReady, threadVars
<1>4. /\ \A g \in Gen : InQueue("open", g) => InQueue("open", g)'
      /\ ~InQueue("open", wsGen)'
  <2>1. \A g \in Gen : Event("ready", wsGen) # Event("open", g)
    BY DEF Event
  <2>2. \A g \in Gen :
           /\ InQueue("open", g)' => InQueue("open", g)
           /\ InQueue("open", g) => InQueue("open", g)' \/ Head(inbound) = Event("open", g)
    BY <1>1, QueueDrain
  <2> QED
    BY <1>1, <1>2, <1>3, <2>1, <2>2
<1>5. /\ CloseIsLast' /\ ReadyIsSent' /\ OpenIsUp' /\ GivenIsUp' /\ ReadyGiven'
      /\ OpenOnce'
  BY <1>1, <1>3, DrainKeepsQueue DEF TypeOK
<1>6. Staged'
  BY <1>2, <1>3, <1>4 DEF Staged, Up
<1>7. CASE UNCHANGED <<connected, pacerFailing, wsc, sessionId, closing, left>>
  <2>1. Owners'
    BY <1>3, <1>7, OwnersSame
  <2>2. ConfigNotLost'
    BY <1>3, <1>4, <1>7 DEF Queue, ConfigNotLost, InQueue
  <2> QED
    BY <1>5, <1>6, <2>1, <2>2 DEF Queue
<1>8. CASE TearDown
  <2>1. Owners' /\ \A g \in Gen : ~Live(g)'
    BY <1>3, <1>8, TearDownOwners DEF TearDown
  <2>2. ConfigNotLost'
    BY <2>1 DEF ConfigNotLost, Live
  <2> QED
    BY <1>5, <1>6, <2>1, <2>2 DEF Queue
<1> QED
  BY <1>7, <1>8 DEF EvReady

\* A close that is drained because it is current says that no client is live,
\* so the session it releases is nobody's.
LEMMA CloseKeepsInv ==
  ASSUME TypeOK, Owners, Queue, HandleWsClose
  PROVE  Owners' /\ Queue'
<1> USE DEF Kinds
<1>1. /\ wsGen \in Gen /\ Head(inbound) = Event("close", wsGen) /\ InQueue("close", wsGen)
      /\ inbound \in Seq([kind : Kinds, gen : Gen]) /\ inbound # <<>>
      /\ inbound' = Tail(inbound) /\ OpenOnce
  BY DrainCurrent DEF HandleWsClose
<1>2. thread[wsGen] = "done"
  BY <1>1 DEF Queue, CloseIsLast
<1>3. \A g \in Gen : ~Live(g)
  BY <1>2 DEF Live, Owners, OneLiveClient, WscCurrent, Gen, None
<1>4. /\ UNCHANGED <<wsc, wsGen, closing, pendingConfig, pendingAudio, thread,
                     readySent, given, sessionOf, joined>>
      /\ left' \subseteq left \cup Some(sessionId)
  BY DEF HandleWsClose, threadVars
<1>5. Owners'
  <2>1. OneLiveClient' /\ ReleasedOnlyDead'
    BY <1>3, <1>4 DEF Live, OneLiveClient, ReleasedOnlyDead
  <2>2. Some(sessionId) \subseteq 1..joined
    BY SomeType DEF TypeOK
  <2> QED
    BY <1>4, <2>1, <2>2 DEF Owners, WscCurrent, LeftGiven, Unborn
<1>6. /\ CloseIsLast' /\ ReadyIsSent' /\ OpenIsUp' /\ GivenIsUp' /\ ReadyGiven'
      /\ OpenOnce'
  BY <1>1, <1>4, DrainKeepsQueue DEF TypeOK
<1>7. \A g \in Gen : InQueue("open", g)' => InQueue("open", g)
  BY <1>1, QueueDrain
<1>8. Staged' /\ ConfigNotLost'
  BY <1>3, <1>4, <1>7 DEF Queue, Staged, ConfigNotLost, Live
<1> QED
  BY <1>5, <1>6, <1>8 DEF Queue

\* A stale event is not of the live client.
LEMMA StaleKeepsInv ==
  ASSUME TypeOK, Owners, Queue, DrainStale
  PROVE  Owners' /\ Queue'
<1> USE DEF Kinds
<1>1. /\ inbound # <<>> /\ inbound' = Tail(inbound) /\ Head(inbound).gen # wsGen
      /\ UNCHANGED <<wsc, wsGen, closing, pendingConfig, pendingAudio, thread,
                     readySent, given, sessionOf, joined, left>>
  BY DEF DrainStale, Stale, mainVars, threadVars, worldVars
<1>2. inbound \in Seq([kind : Kinds, gen : Gen]) /\ OpenOnce
  BY DEF TypeOK, Queue
<1>3. /\ CloseIsLast' /\ ReadyIsSent' /\ OpenIsUp' /\ GivenIsUp' /\ ReadyGiven'
      /\ OpenOnce'
  BY <1>1, DrainKeepsQueue DEF TypeOK
<1>4. \A g \in Gen : /\ InQueue("open", g)' => InQueue("open", g)
                     /\ InQueue("open", g) /\ g = wsGen => InQueue("open", g)'
  <2>1. \A g \in Gen : g = wsGen => Head(inbound) # Event("open", g)
    BY <1>1 DEF Event
  <2>2. \A g \in Gen :
           /\ InQueue("open", g)' => InQueue("open", g)
           /\ InQueue("open", g) => InQueue("open", g)' \/ Head(inbound) = Event("open", g)
    BY <1>1, <1>2, QueueDrain
  <2> QED
    BY <2>1, <2>2
<1>5. Staged'
  BY <1>1, <1>4 DEF Queue, Staged
<1>6. \A g \in Gen : Live(g) => g = wsGen
  BY DEF Live, Owners, OneLiveClient, WscCurrent, Gen, None
<1>7. ConfigNotLost'
  BY <1>1, <1>4, <1>6 DEF Queue, ConfigNotLost, InQueue, Live
<1> QED
  BY <1>1, <1>3, <1>5, <1>7, OwnersSame DEF Queue

\* A recv thread moves on and posts the event that says so.
LEMMA ThreadKeepsInv ==
  ASSUME TypeOK, Owners, Queue, NEW g \in Gen, RecvStep(g)
  PROVE  Owners' /\ Queue'
<1>1. /\ UNCHANGED <<wsc, wsGen, closing, pendingConfig, pendingAudio, given,
                     sessionOf, joined, left>>
      /\ \A h \in Gen : h # g => thread'[h] = thread[h]
      /\ thread[g] \in {"dialing", "open"}
      /\ thread'[g] \in {"open", "done"}
      /\ thread[g] = "open" => thread'[g] = "done" \/ thread' = thread
  BY DEF RecvStep, Dial, DialOk, DialFail, PodCloses, SeesClosing, RecvReady, ThreadStep,
         mainVars, worldVars, TypeOK
<1>2. /\ inbound \in Seq([kind : Kinds, gen : Gen]) /\ OpenOnce
      /\ "open" \in Kinds /\ "ready" \in Kinds /\ "close" \in Kinds
  BY DEF TypeOK, Queue, Kinds
<1>3. Owners'
  <2>1. Unborn'
    BY <1>1 DEF Owners, Unborn
  <2>2. OneLiveClient' /\ ReleasedOnlyDead'
    BY <1>1 DEF Owners, OneLiveClient, ReleasedOnlyDead
  <2> QED
    BY <1>1, <2>1, <2>2 DEF Owners, WscCurrent, LeftGiven
<1>4. CASE DialOk(g)
  <2>1. /\ Post("open", g) /\ thread[g] = "dialing" /\ thread'[g] = "open"
        /\ UNCHANGED readySent
    BY <1>4 DEF DialOk, ThreadStep, TypeOK
  <2>2. ~InQueue("open", g) /\ ~InQueue("close", g) /\ g \notin given
    BY <2>1 DEF Queue, OpenIsUp, CloseIsLast, GivenIsUp, Up
  <2>3. /\ OpenOnce'
        /\ \A h \in Gen : /\ InQueue("open", h)' <=> InQueue("open", h) \/ h = g
                          /\ InQueue("ready", h)' <=> InQueue("ready", h)
                          /\ InQueue("close", h)' <=> InQueue("close", h)
    BY <1>2, <2>1, <2>2, QueuePost
  <2>4. CloseIsLast' /\ ReadyIsSent' /\ OpenIsUp' /\ GivenIsUp' /\ ReadyGiven'
    BY <1>1, <2>1, <2>2, <2>3
       DEF Queue, CloseIsLast, ReadyIsSent, OpenIsUp, GivenIsUp, ReadyGiven, Up, TypeOK
  <2>5. Staged'
    BY <1>1, <2>1, <2>3 DEF Queue, Staged
  <2>6. ConfigNotLost'
    BY <1>1, <2>3 DEF Queue, ConfigNotLost, InQueue
  <2> QED
    BY <1>3, <2>3, <2>4, <2>5, <2>6 DEF Queue
<1>5. CASE DialFail(g) \/ PodCloses(g) \/ SeesClosing(g)
  <2>1. Post("close", g) /\ thread'[g] = "done" /\ UNCHANGED readySent
    BY <1>5 DEF DialFail, PodCloses, SeesClosing, ThreadStep, TypeOK
  <2>2. /\ OpenOnce'
        /\ \A h \in Gen : /\ InQueue("open", h)' <=> InQueue("open", h)
                          /\ InQueue("ready", h)' <=> InQueue("ready", h)
                          /\ InQueue("close", h)' <=> InQueue("close", h) \/ h = g
    BY <1>2, <2>1, QueuePost
  <2>3. CloseIsLast' /\ ReadyIsSent' /\ OpenIsUp' /\ GivenIsUp' /\ ReadyGiven'
    BY <1>1, <2>1, <2>2
       DEF Queue, CloseIsLast, ReadyIsSent, OpenIsUp, GivenIsUp, ReadyGiven, Up, TypeOK
  <2>4. Staged'
    BY <1>1, <2>1, <2>2 DEF Queue, Staged
  <2>5. ConfigNotLost'
    BY <1>1, <2>1, <2>2 DEF Queue, ConfigNotLost, InQueue
  <2> QED
    BY <1>3, <2>2, <2>3, <2>4, <2>5 DEF Queue
<1>6. CASE RecvReady(g)
  <2>1. /\ Post("ready", g) /\ thread[g] = "open" /\ g \in given
        /\ readySent' = readySent \cup {g} /\ UNCHANGED thread
    BY <1>6 DEF RecvReady
  <2>2. /\ OpenOnce'
        /\ \A h \in Gen : /\ InQueue("open", h)' <=> InQueue("open", h)
                          /\ InQueue("ready", h)' <=> InQueue("ready", h) \/ h = g
                          /\ InQueue("close", h)' <=> InQueue("close", h)
    BY <1>2, <2>1, QueuePost
  <2>3. CloseIsLast' /\ ReadyIsSent' /\ OpenIsUp' /\ GivenIsUp' /\ ReadyGiven'
    BY <1>1, <2>1, <2>2
       DEF Queue, CloseIsLast, ReadyIsSent, OpenIsUp, GivenIsUp, ReadyGiven, Up, TypeOK
  <2>4. Staged' /\ ConfigNotLost'
    BY <1>1, <2>1, <2>2 DEF Queue, Staged, ConfigNotLost, InQueue
  <2> QED
    BY <1>3, <2>2, <2>3, <2>4 DEF Queue
<1> QED
  BY <1>4, <1>5, <1>6 DEF RecvStep, Dial

-----------------------------------------------------------------------------
(* The invariant and what follows from it *)

LEMMA InvNext == Inv /\ [Next]_vars => Inv'
<1> SUFFICES ASSUME Inv, [Next]_vars PROVE Inv'
  OBVIOUS
<1>1. /\ CountInv /\ TypeOK /\ Owners /\ Queue /\ CountInv'
  BY CountNext DEF Inv, CountInv
<1>2. Connect \/ FailoverTick => wsGen < MaxTries /\ joined < MaxTries
  BY <1>1, RoomToTry
<1> SUFFICES Owners' /\ Queue'
  BY <1>1 DEF Inv
<1>3. ASSUME NEW m \in Modes, SetMode(m) PROVE Owners' /\ Queue'
  BY <1>1, <1>3, UserKeepsInv DEF SetMode, mainVars, threadVars, worldVars
<1>4. CASE Connect
  <2>1. UNCHANGED <<inbound, readySent, given, left>>
    BY <1>4 DEF Connect
  <2>2. CASE OpenWs(None) /\ UNCHANGED joined
    <3>1. 0 \in 0..MaxTries /\ 0 \notin left /\ joined' \in joined..(joined + 1)
      BY <1>1, <2>2, Bounds DEF Owners, LeftGiven, TypeOK
    <3> QED
      BY <1>1, <1>2, <1>4, <2>1, <2>2, <3>1, OpenKeepsInv DEF None
  <2>3. CASE HostedJoinAndOpen
    BY <1>1, <1>2, <1>4, <2>1, <2>3, JoinKeepsInv
  <2> QED
    BY <1>4, <2>2, <2>3 DEF Connect
<1>5. CASE Disconnect
  BY <1>1, <1>5, UserKeepsInv DEF Disconnect, threadVars
<1>6. CASE SendDiscrete
  BY <1>1, <1>6, UserKeepsInv DEF SendDiscrete, threadVars
<1>7. CASE FailoverTick
  BY <1>1, <1>2, <1>7, JoinKeepsInv DEF FailoverTick
<1>8. CASE Watchdog
  BY <1>1, <1>8, UserKeepsInv DEF Watchdog, threadVars
<1>9. CASE PacerSends
  BY <1>1, <1>9, UserKeepsInv DEF PacerSends, threadVars, worldVars
<1>10. CASE UNCHANGED vars
  BY <1>1, <1>10, UserKeepsInv DEF vars, mainVars, threadVars, worldVars
<1> QED
  BY <1>1, <1>3, <1>4, <1>5, <1>6, <1>7, <1>8, <1>9, <1>10, FlushKeepsInv, ReadyKeepsInv,
     CloseKeepsInv, StaleKeepsInv, ThreadKeepsInv
     DEF Next, UserStep, DrainStep

LEMMA InvAlways == Spec => []Inv
  BY InvInit, InvNext, PTL DEF Spec

\* OneLiveClient for every number of Connects: _open_ws and Disconnect never
\* leave a second client behind.
THEOREM OneLiveClientAlways == Spec => []OneLiveClient
  BY InvAlways, PTL DEF Inv, Owners

\* ReleasedOnlyDead for every number of Connects: _handle_ws_close and
\* Disconnect release no session a live client still uses.
THEOREM ReleasedOnlyDeadAlways == Spec => []ReleasedOnlyDead
  BY InvAlways, PTL DEF Inv, Owners

\* ConfigNotLost for every number of Connects: _flush_pending runs for every
\* client whose pod accepted the socket.
THEOREM ConfigNotLostAlways == Spec => []ConfigNotLost
  BY InvAlways, PTL DEF Inv, Queue

\* GateOpensOnReady for every number of Connects: only the current pod's
\* "ready" opens the params gate.
THEOREM GateOpensOnReadyAlways == Spec => GateOpensOnReady
<1>1. ASSUME Inv, [Next]_vars, ~sawReady, sawReady'
      PROVE  wsGen \in readySent
  <2>1. EvReady
    BY <1>1 DEF Next, UserStep, DrainStep, SetMode, Connect, Disconnect, SendDiscrete,
                DrainStale, FlushPending, HandleWsClose, Watchdog, FailoverTick, PacerSends,
                TearDown, RecvStep, Dial,
                DialOk, DialFail, PodCloses, SeesClosing, RecvReady, ThreadStep,
                vars, mainVars, threadVars, worldVars
  <2>2. wsGen \in Gen /\ InQueue("ready", wsGen)
    BY <1>1, <2>1, DrainCurrent DEF EvReady, Inv, CountInv, Kinds
  <2> QED
    BY <1>1, <2>2 DEF Inv, Queue, ReadyIsSent
<1>2. Inv /\ [Next]_vars => [~sawReady /\ sawReady' => wsGen \in readySent]_vars
  BY <1>1
<1> QED
  BY <1>2, InvAlways, PTL DEF Spec, GateOpensOnReady
=============================================================================
