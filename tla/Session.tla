------------------------------- MODULE Session -------------------------------
(***************************************************************************)
(* The session life cycle of DemonExt: Connect and Disconnect, the hosted  *)
(* queue join, the WebSocket generations, the events the recv threads post *)
(* to the main thread, and the pod failover.                               *)
(*                                                                         *)
(* Two kinds of actor take steps.  The TouchDesigner main thread runs user *)
(* operations and drains _inbound; one step is one whole operation or one  *)
(* whole event handler.  Each WSClient has a recv thread of its own that   *)
(* dials, posts events and ends; a thread may outlive the close() that     *)
(* asked it to stop, because close() joins it for two seconds only.        *)
(*                                                                         *)
(* A generation (_ws_gen) numbers the WSClients; 0 stands for None, both   *)
(* as a client and as a queue session.                                     *)
(***************************************************************************)
EXTENDS Naturals, Sequences, FiniteSets

CONSTANTS
  Modes,          \* values the Mode parameter may take
  MaxFailover,    \* MAX_FAILOVER_ATTEMPTS, 3 in the code
  SendFailLimit,  \* DemonExt._SEND_FAIL_LIMIT, 3 in the code
  MaxConnects     \* bound: Connect pulses that open a session

ASSUME SessionAssumption ==
  /\ Modes # {} /\ Modes \subseteq {"direct", "hosted"}
  /\ MaxFailover \in Nat
  /\ SendFailLimit \in 1..4
  /\ MaxConnects \in Nat \ {0}

\* Every Connect pays for one attempt to reach a pod and MaxFailover retries.
MaxTries == MaxConnects * (1 + MaxFailover)
Gen      == 1..MaxTries
Sid      == 1..MaxTries

None == 0

VARIABLES
  mode,            \* the Mode parameter, read live by the code
  connected,       \* _connected
  sawReady,        \* _saw_ready
  failovers,       \* _failover_attempts
  sessionId,       \* _session_id
  wsc,             \* generation of the WSClient in _wsc
  wsGen,           \* _ws_gen
  pendingConfig,   \* _pending_config is not None
  pendingAudio,    \* _pending_audio is not None
  sendFailStreak,  \* _send_fail_streak, saturated at SendFailLimit
  pacerFailing,    \* the params pacer's own send_fail_streak is at SendFailLimit
  inbound,         \* _inbound: connection-scoped events, in posting order
  sleepers,        \* failover workers whose failover-tick is still to come
  thread,          \* recv thread of each generation
  closing,         \* generations whose client was told to close()
  \* History of what the outside world saw.
  given,           \* clients whose outbound queue took config and source audio
  readySent,       \* generations whose pod sent "ready"
  sessionOf,       \* queue session each socket was opened with
  joined,          \* queue sessions handed out so far
  left,            \* queue sessions a leave was dispatched for
  connects,        \* Connects that opened a session
  tries,           \* attempts to reach a pod: direct opens and queue joins
  wanted           \* the user's last word was Connect, not Disconnect

mainVars   == <<connected, sawReady, failovers, sessionId, wsc, wsGen,
                pendingConfig, pendingAudio, sendFailStreak, pacerFailing,
                sleepers, closing>>
threadVars == <<thread, readySent>>
socketVars == <<wsc, wsGen, pendingConfig, pendingAudio, pacerFailing, closing,
                thread, sessionOf>>
worldVars  == <<given, sessionOf, joined, left, connects, tries, wanted>>
vars == <<mode, mainVars, inbound, threadVars, worldVars>>

Kinds == {"open", "ready", "close"}
Event(k, g) == [kind |-> k, gen |-> g]

TypeOK ==
  /\ mode \in Modes
  /\ connected \in BOOLEAN /\ sawReady \in BOOLEAN /\ wanted \in BOOLEAN
  /\ pendingConfig \in BOOLEAN /\ pendingAudio \in BOOLEAN /\ pacerFailing \in BOOLEAN
  /\ failovers \in 0..MaxFailover
  /\ sendFailStreak \in 0..SendFailLimit
  /\ wsGen \in 0..MaxTries /\ wsc \in 0..wsGen
  /\ joined \in 0..MaxTries /\ sessionId \in 0..joined
  /\ inbound \in Seq([kind : Kinds, gen : Gen])
  /\ sleepers \in Nat /\ tries \in Nat /\ connects \in 0..MaxConnects
  /\ thread \in [Gen -> {"none", "dialing", "open", "done"}]
  /\ closing \subseteq Gen /\ given \subseteq Gen /\ readySent \subseteq Gen
  /\ sessionOf \in [Gen -> 0..MaxTries]
  /\ left \subseteq Sid

Init ==
  /\ mode \in Modes
  /\ connected = FALSE /\ sawReady = FALSE /\ wanted = FALSE
  /\ pendingConfig = FALSE /\ pendingAudio = FALSE /\ pacerFailing = FALSE
  /\ failovers = 0 /\ sendFailStreak = 0
  /\ sessionId = None /\ wsc = None /\ wsGen = 0
  /\ inbound = <<>> /\ sleepers = 0
  /\ thread = [g \in Gen |-> "none"]
  /\ closing = {} /\ given = {} /\ readySent = {}
  /\ sessionOf = [g \in Gen |-> None]
  /\ joined = 0 /\ left = {} /\ connects = 0 /\ tries = 0

-----------------------------------------------------------------------------
(* Helpers *)

Some(x) == {x} \ {None}

Post(k, g) == inbound' = Append(inbound, Event(k, g))

\* WSClient._enqueue: accepted iff the client is up and not closing (a full
\* queue evicts its oldest entry and still answers True).
SendOk == wsc # None /\ thread[wsc] = "open" /\ wsc \notin closing

\* _send_fail_streak after n refused sends; only >= SendFailLimit is ever
\* asked of it, so it saturates there.
Failed(n) == IF sendFailStreak + n < SendFailLimit THEN sendFailStreak + n
                                                   ELSE SendFailLimit

\* Mutated forms of OpenWs, each a bug the properties below must catch: the
\* old client is dropped without close(); the one-shot config is not restaged.
OpenWs_NoClose(s) ==
  /\ wsGen' = wsGen + 1 /\ wsc' = wsGen + 1
  /\ thread' = [thread EXCEPT ![wsGen + 1] = "dialing"]
  /\ sessionOf' = [sessionOf EXCEPT ![wsGen + 1] = s]
  /\ pendingConfig' = TRUE /\ pendingAudio' = TRUE
  /\ UNCHANGED <<pacerFailing, closing>>

OpenWs_KeepConfig(s) ==
  /\ wsGen' = wsGen + 1 /\ wsc' = wsGen + 1
  /\ thread' = [thread EXCEPT ![wsGen + 1] = "dialing"]
  /\ sessionOf' = [sessionOf EXCEPT ![wsGen + 1] = s]
  /\ closing' = closing \cup Some(wsc)
  /\ pendingConfig' = (pendingConfig \/ wsGen = 0) /\ pendingAudio' = TRUE
  /\ UNCHANGED pacerFailing

\* The pacer thread sends params while _connected, _wsc and _saw_ready say so.
Streaming == connected /\ sawReady /\ wsc # None

\* _open_ws for queue session s.  The source audio is resolved first: without
\* it the function returns before the old client is touched.  Otherwise the
\* old client is closed, the generation is bumped and a new client dials.  The
\* close waits up to two seconds, in which the pacer may be refused sixty times
\* a second by the client it still finds in _wsc.
OpenWs(s) ==
  \/ UNCHANGED socketVars
  \/ LET g == wsGen + 1 IN
     /\ wsGen' = g
     /\ wsc' = g
     /\ closing' = closing \cup Some(wsc)
     /\ thread' = [thread EXCEPT ![g] = "dialing"]
     /\ sessionOf' = [sessionOf EXCEPT ![g] = s]
     /\ pendingConfig' = TRUE
     /\ pendingAudio' = TRUE
     /\ pacerFailing' \in {pacerFailing, pacerFailing \/ Streaming}

\* _hosted_join_and_open: the join is refused, or it hands out a session.
\* That session either never becomes active with a wsUrl (queue timeout,
\* paywall, unexpected status) or its socket is opened.
HostedJoinAndOpen ==
  /\ tries' = tries + 1
  /\ \/ UNCHANGED <<sessionId, joined, socketVars>>
     \/ /\ joined' = joined + 1
        /\ sessionId' = joined + 1
        /\ OpenWs(joined + 1)

\* The part of Disconnect that changes session state; it stops the pacer too.
TearDown ==
  /\ connected' = FALSE
  /\ pacerFailing' = FALSE
  /\ wsc' = None
  /\ sessionId' = None
  /\ closing' = closing \cup Some(wsc)
  /\ left' = left \cup Some(sessionId)

-----------------------------------------------------------------------------
(* User operations, on the main thread *)

\* The Mode menu is not reverted while connected.
SetMode(m) ==
  /\ mode # m
  /\ mode' = m
  /\ UNCHANGED <<mainVars, inbound, threadVars, worldVars>>

Connect ==
  /\ ~connected
  /\ connects < MaxConnects
  /\ connects' = connects + 1
  /\ wanted' = TRUE
  /\ sawReady' = FALSE
  /\ failovers' = 0
  /\ sendFailStreak' = 0
  /\ \/ /\ mode = "direct"
        /\ sessionId' = None
        /\ tries' = tries + 1
        /\ OpenWs(None)
        /\ UNCHANGED joined
     \/ /\ mode = "hosted"
        /\ HostedJoinAndOpen
  /\ UNCHANGED <<mode, connected, inbound, sleepers, readySent, given, left>>

Disconnect ==
  /\ connected \/ sessionId # None \/ wsc # None
  /\ TearDown
  /\ wanted' = FALSE
  /\ UNCHANGED <<mode, sawReady, failovers, wsGen, pendingConfig, pendingAudio,
                 sendFailStreak, inbound, sleepers, threadVars,
                 given, sessionOf, joined, connects, tries>>

\* Any discrete send (SendPrompt, EnableLora, ...).  Three refusals in a row
\* on a connected session tear it down.
SendDiscrete ==
  /\ wsc # None
  /\ sendFailStreak' = IF SendOk THEN 0 ELSE Failed(1)
  /\ IF connected /\ sendFailStreak' = SendFailLimit
       THEN TearDown
       ELSE UNCHANGED <<connected, pacerFailing, wsc, sessionId, closing, left>>
  /\ UNCHANGED <<mode, sawReady, failovers, wsGen, pendingConfig, pendingAudio,
                 inbound, sleepers, threadVars,
                 given, sessionOf, joined, connects, tries, wanted>>

-----------------------------------------------------------------------------
(* _drain_inbound: one event *)

\* event_is_stale; the mutated form forgets the generation.
Stale_Never(e) == FALSE
Stale(e) == e.gen # wsGen

Drain(k) ==
  /\ inbound # <<>>
  /\ Head(inbound).kind = k
  /\ ~Stale(Head(inbound))
  /\ inbound' = Tail(inbound)

DrainStale ==
  /\ inbound # <<>>
  /\ Stale(Head(inbound))
  /\ inbound' = Tail(inbound)
  /\ UNCHANGED <<mode, mainVars, threadVars, worldVars>>

\* _flush_pending: hand config and source audio to the client, once per
\* _open_ws, and call the session connected whatever became of the sends.
FlushPending ==
  /\ Drain("open")
  /\ IF pendingConfig /\ pendingAudio
       THEN /\ pendingConfig' = FALSE
            /\ given' = given \cup (IF SendOk THEN {wsc} ELSE {})
            /\ sendFailStreak' = IF wsc = None THEN sendFailStreak
                                 ELSE IF SendOk THEN 0 ELSE Failed(2)
            /\ IF connected /\ wsc # None /\ sendFailStreak' = SendFailLimit
                 THEN /\ wsc' = None /\ sessionId' = None /\ pacerFailing' = FALSE
                      /\ closing' = closing \cup Some(wsc)
                      /\ left' = left \cup Some(sessionId)
                 ELSE UNCHANGED <<pacerFailing, wsc, sessionId, closing, left>>
            /\ connected' = TRUE
       ELSE UNCHANGED <<pendingConfig, given, sendFailStreak, connected,
                        pacerFailing, wsc, sessionId, closing, left>>
  /\ UNCHANGED <<mode, sawReady, failovers, wsGen, pendingAudio, sleepers,
                 threadVars, sessionOf, joined, connects, tries, wanted>>

\* Interpolation paths pushed on "ready": four discrete sends.
InterpPaths == 4

EvReady ==
  /\ Drain("ready")
  /\ sawReady' = TRUE
  /\ failovers' = 0
  /\ pendingAudio' = FALSE
  /\ IF connected /\ wsc # None
       THEN /\ sendFailStreak' = IF SendOk THEN 0 ELSE Failed(InterpPaths)
            /\ IF SendOk THEN UNCHANGED <<connected, pacerFailing, wsc, sessionId, closing, left>>
                         ELSE TearDown
       ELSE UNCHANGED <<sendFailStreak, connected, pacerFailing, wsc, sessionId, closing, left>>
  /\ UNCHANGED <<mode, wsGen, pendingConfig, sleepers, threadVars,
                 given, sessionOf, joined, connects, tries, wanted>>

\* The failover decision; mutated forms: one attempt too many, and a retry of
\* sessions that had reached "ready".
MayFailOver_OffByOne == mode = "hosted" /\ ~sawReady /\ failovers <= MaxFailover
MayFailOver_AfterReady == mode = "hosted" /\ failovers < MaxFailover
MayFailOver == mode = "hosted" /\ ~sawReady /\ failovers < MaxFailover

\* _handle_ws_close: release the session in hosted mode; before "ready", and
\* while attempts remain, start a worker that will ask for another join.
HandleWsClose ==
  /\ Drain("close")
  /\ connected' = FALSE
  /\ IF mode = "hosted"
       THEN left' = left \cup Some(sessionId) /\ sessionId' = None
       ELSE UNCHANGED <<left, sessionId>>
  /\ IF MayFailOver
       THEN failovers' = failovers + 1 /\ sleepers' = sleepers + 1
       ELSE UNCHANGED <<failovers, sleepers>>
  /\ UNCHANGED <<mode, sawReady, wsc, wsGen, pendingConfig, pendingAudio,
                 sendFailStreak, pacerFailing, closing, threadVars,
                 given, sessionOf, joined, connects, tries, wanted>>

\* A failover worker wakes, posts failover-tick (which carries no generation)
\* and the main thread rejoins the queue.  Posting and draining are one step:
\* the worker wakes at an arbitrary time and touches nothing else.
FailoverTick ==
  /\ sleepers > 0
  /\ sleepers' = sleepers - 1
  /\ HostedJoinAndOpen
  /\ UNCHANGED <<mode, connected, sawReady, failovers, sendFailStreak, inbound,
                 readySent, given, left, connects, wanted>>

\* The pacer watchdog, run after the events of every frame.
Watchdog ==
  /\ connected /\ pacerFailing
  /\ TearDown
  /\ UNCHANGED <<mode, sawReady, failovers, wsGen, pendingConfig, pendingAudio,
                 sendFailStreak, inbound, sleepers, threadVars,
                 given, sessionOf, joined, connects, tries, wanted>>

\* The pacer thread's next tick ends its streak: between two steps of the main
\* thread no client in _wsc was told to close, and send_params asks no more.
PacerSends ==
  /\ Streaming /\ pacerFailing
  /\ pacerFailing' = FALSE
  /\ UNCHANGED <<mode, connected, sawReady, failovers, sessionId, wsc, wsGen,
                 pendingConfig, pendingAudio, sendFailStreak, sleepers, closing,
                 inbound, threadVars, worldVars>>

-----------------------------------------------------------------------------
(* Recv thread of generation g *)

ThreadStep(g, from, to) ==
  /\ thread[g] = from
  /\ thread' = [thread EXCEPT ![g] = to]
  /\ UNCHANGED <<mode, mainVars, readySent, worldVars>>

DialOk(g)   == ThreadStep(g, "dialing", "open") /\ Post("open", g)
DialFail(g) == ThreadStep(g, "dialing", "done") /\ Post("close", g)

\* The pod ends the socket, or a read or a write on it fails.  The mutated
\* form ends the thread without calling on_close.
PodCloses_Silent(g) == ThreadStep(g, "open", "done") /\ UNCHANGED inbound
PodCloses(g) == ThreadStep(g, "open", "done") /\ Post("close", g)

\* The recv loop sees _closing and shuts the socket down.  The mutated form
\* has no recv timeout: it looks at the flag only after a frame came in.
SeesClosing_NoTimeout(g) ==
  /\ g \in closing \cap readySent
  /\ ThreadStep(g, "open", "done")
  /\ Post("close", g)

SeesClosing(g) ==
  /\ g \in closing
  /\ ThreadStep(g, "open", "done")
  /\ Post("close", g)

\* The pod answers config and audio with "ready", once; a thread already told
\* to close still delivers a frame it is reading.
RecvReady(g) ==
  /\ thread[g] = "open"
  /\ g \in given \ readySent
  /\ readySent' = readySent \cup {g}
  /\ Post("ready", g)
  /\ UNCHANGED <<mode, mainVars, thread, worldVars>>

-----------------------------------------------------------------------------
UserStep   == (\E m \in Modes : SetMode(m)) \/ Connect \/ Disconnect \/ SendDiscrete
DrainStep  == DrainStale \/ FlushPending \/ EvReady \/ HandleWsClose \/ Watchdog
Dial(g)    == DialOk(g) \/ DialFail(g)
RecvStep(g) == Dial(g) \/ PodCloses(g) \/ SeesClosing(g) \/ RecvReady(g)

Next == UserStep \/ DrainStep \/ FailoverTick \/ PacerSends
          \/ \E g \in Gen : RecvStep(g)

\* The frame loop drains every frame, a dial has a timeout, the recv loop
\* wakes ten times a second, a failover worker sleeps for 1.5 s.  Nothing is
\* assumed of the user or of the pod.
Fairness ==
  /\ WF_vars(DrainStep)
  /\ WF_vars(FailoverTick)
  /\ \A g \in Gen : WF_vars(Dial(g)) /\ WF_vars(SeesClosing(g))

Spec     == Init /\ [][Next]_vars
FairSpec == Spec /\ Fairness

-----------------------------------------------------------------------------
(* Safety *)

\* Reconnecting never leaves a second connection behind: a client whose
\* thread may still use its socket, and that nobody told to close, is the one
\* in _wsc.  (A forgotten socket would hold a pod until TCP times out.)
OneLiveClient ==
  \A g \in Gen : thread[g] \in {"dialing", "open"} /\ g \notin closing => wsc = g

\* A queue session is never released under a connection still in use: a late
\* close of an earlier generation must not take the current session away.
ReleasedOnlyDead ==
  \A g \in Gen :
    thread[g] \in {"dialing", "open"} /\ g \notin closing => sessionOf[g] \notin left

\* A pod that accepted the socket is always given its config and audio: they
\* are in the outbound queue, or the open event that puts them there waits.
ConfigNotLost ==
  \A g \in Gen :
    thread[g] = "open" /\ g \notin closing =>
      \/ g \in given
      \/ \E i \in 1..Len(inbound) : inbound[i] = Event("open", g)

\* However Connects, closes and failover ticks interleave, the queue API is
\* never asked for more than 1 + MAX_FAILOVER_ATTEMPTS joins per Connect.
BoundedTries == tries <= connects * (1 + MaxFailover)

\* The gate of the params stream opens on the "ready" of the current pod only,
\* never on one of an earlier connection still in the queue.
GateOpensOnReady == [][~sawReady /\ sawReady' => wsGen \in readySent]_vars

\* "We send NOTHING until the server's `ready`" (demon_ext.py:2000): while the
\* gate is open the current pod has sent it.  The code breaks this in hosted
\* mode: a failover tick overtaken by a Connect replaces a ready connection
\* and leaves _saw_ready set.
ReadyIsCurrent == sawReady => wsGen \in readySent

\* Every queue session handed out is the current one or has been released.
NoLeakedSession == \A s \in 1..joined : s = sessionId \/ s \in left

\* The queue is joined only while the user wants a session.  Fails: a failover
\* tick that outlives Disconnect joins again.
JoinsOnlyWanted == [][joined' > joined => wanted']_vars

-----------------------------------------------------------------------------
(* Liveness *)

Alive == connected => wsc # None /\ thread[wsc] = "open"

\* A session shown as connected whose socket is gone, or was never there, is
\* noticed: until then Connect refuses with "already connected".
DeadSessionNoticed == ~Alive ~> Alive

\* The retry chain ends: dials finish, closed clients stop, ticks run out and
\* no event stays queued.
Settles ==
  <>[](/\ sleepers = 0 /\ inbound = <<>>
       /\ \A g \in Gen : /\ thread[g] # "dialing"
                         /\ g \in closing => thread[g] \in {"none", "done"})
=============================================================================
