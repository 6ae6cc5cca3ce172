---------------------------- MODULE ParamsStream ----------------------------
(***************************************************************************)
(* The params stream: TouchDesigner pars on the main thread, the pacer     *)
(* thread that sends what they say every 16 ms, the client's one slot for  *)
(* params beside its queue of discrete messages, and the pod that applies  *)
(* both.                                                                   *)
(*                                                                         *)
(* The pars are some knobs, a few of them driven by a scheduled curve, and *)
(* one LoRA with its toggle and its strength fader.  The pacer takes three *)
(* steps per message (ready gate, merge and build, send); the main thread  *)
(* runs a user's change, or a frame: drain the events, then the debounce,  *)
(* the pacer watchdog and the curves.                                      *)
(***************************************************************************)
EXTENDS Integers, Sequences

CONSTANTS
  Knobs,        \* continuous pars, by wire name
  Curved,       \* those bound to a curve that is switched on
  Values,       \* what a knob or a fader may show
  Saved,        \* what the project file may hold for them
  Delta,        \* _LORA_STR_DELTA
  Conns,        \* bound: connections opened
  Moves,        \* bound: changes of the user and of the curves
  Steps         \* bound: connections and changes together

ASSUME ParamsAssumption ==
  /\ Curved \subseteq Knobs /\ Values \subseteq Int /\ Saved \subseteq Values
  /\ Delta \in Nat /\ Conns \in Nat /\ Moves \in Nat /\ Steps \in Nat

None == -1
Str  == "lora_str"
Keys == Knobs \cup {Str}
Maybe == Values \cup {None}

ASSUME ParamsNames == Str \notin Knobs /\ None \notin Values

Nothing == [k \in Keys |-> None]       \* an empty dict of params
NoMsg   == [for |-> 0, raw |-> Nothing]    \* "for": whose ready let it through

VARIABLES
  knob, enabled, fader,   \* the pars
  lastCurve, held,        \* _last_curve_write; knobs in their override window
  cache,                  \* _enabled_loras_cache
  pending, quiet,         \* _lora_str_pending, and whether it has been quiet
  committed,              \* _lora_str_committed
  dirty, snapshot,        \* _dirty, _params_snapshot
  connected, sawReady,    \* _connected, _saw_ready
  config,                 \* _pending_config: the LoRA's strength in it, or None
  staged,                 \* there is a _pending_config
  retry,                  \* failover workers asleep
  conn, wsc,              \* the newest client; is it still self._wsc?
  events,                 \* _inbound, events of the newest client
  main,                   \* where the main thread stands
  pacer, msg,             \* where the pacer thread stands; what it holds
  sock, fifo, slot,       \* the newest client: socket, queue, _latest_params
  pod, podStr, podKnob,   \* its pod: phase, strength of a loaded LoRA, knobs
  moves,                  \* changes so far
  borrowed                \* history: the gate stands open from an earlier ready

pars    == <<knob, enabled, fader>>
lora    == <<cache, pending, quiet, committed>>
curves  == <<lastCurve, held>>
stream  == <<dirty, snapshot>>
session == <<connected, sawReady, config, staged, retry, conn, wsc, events, borrowed>>
pacing  == <<pacer, msg>>
client  == <<sock, fifo, slot>>
podVars == <<pod, podStr, podKnob>>
vars == <<pars, lora, curves, stream, session, main, pacing, client, podVars, moves>>

Msg == [for : {None} \cup 0..Conns, raw : [Keys -> Maybe]]

\* Discrete messages: the config and enable_lora carry the LoRA's strength, a
\* disable_lora None; a scripted params message one key.
One(k, v) == [Nothing EXCEPT ![k] = v]
Discrete  == [kind : {"config", "lora", "params"}, raw : [Keys -> Maybe]]
Message(kind, raw) == [kind |-> kind, raw |-> raw]

TypeOK ==
  /\ knob \in [Knobs -> Values] /\ enabled \in BOOLEAN /\ fader \in Values
  /\ lastCurve \in [Curved -> Maybe] /\ held \subseteq Curved
  /\ cache \in BOOLEAN /\ pending \in Maybe /\ quiet \in BOOLEAN /\ committed \in Maybe
  /\ quiet => pending # None
  /\ dirty \in [Keys -> Maybe] /\ snapshot \in [Keys -> Maybe]
  /\ connected \in BOOLEAN /\ sawReady \in BOOLEAN /\ staged \in BOOLEAN
  /\ retry \in Nat /\ wsc \in BOOLEAN /\ borrowed \in BOOLEAN
  /\ config \in Maybe /\ conn \in 0..Conns
  /\ events \in Seq({"open", "ready", "close"}) /\ Len(events) <= 3
  /\ main \in {"idle", "toggling", "frame", "seeded"}
  /\ pacer \in {"off", "sleeping", "gated", "built"} /\ msg \in Msg /\ slot \in Msg
  /\ sock \in {"none", "dialing", "open", "dead"} /\ fifo \in Seq(Discrete)
  /\ pod \in {"waiting", "encoding", "ready"} /\ podStr \in Maybe
  /\ podKnob \in [Knobs -> Maybe] /\ moves \in 0..Moves

Init ==
  /\ knob \in [Knobs -> Saved] /\ enabled \in BOOLEAN /\ fader \in Saved
  /\ lastCurve = [k \in Curved |-> None] /\ held = {}
  /\ cache = FALSE /\ pending = None /\ quiet = FALSE /\ committed = None
  /\ dirty = Nothing /\ snapshot = Nothing
  /\ connected = FALSE /\ sawReady = FALSE /\ config = None /\ staged = FALSE
  /\ retry = 0 /\ borrowed = FALSE /\ conn = 0 /\ wsc = FALSE /\ events = <<>>
  /\ main = "idle" /\ pacer = "off" /\ msg = NoMsg
  /\ sock = "none" /\ fifo = <<>> /\ slot = NoMsg
  /\ pod = "waiting" /\ podStr = None /\ podKnob = [k \in Knobs |-> None]
  /\ moves = 0

\* The one dict laid over the other.
Over(d, s) == [k \in Keys |-> IF d[k] # None THEN d[k] ELSE s[k]]

\* _send_text: queued if the socket is there, else lost.
Send(m) == fifo' = IF wsc /\ sock = "open" THEN Append(fifo, m) ELSE fifo

-----------------------------------------------------------------------------
(* The user, between frames *)

Change == moves < Moves /\ conn + moves < Steps /\ moves' = moves + 1
User   == main = "idle" /\ Change

\* A value the curve has not just written is the user's, and holds the curve off.
MoveKnob(k, v) ==
  /\ User
  /\ v # knob[k]
  /\ knob' = [knob EXCEPT ![k] = v]
  /\ dirty' = [dirty EXCEPT ![k] = v]
  /\ held' = IF k \in Curved /\ lastCurve[k] \notin {None, v} THEN held \cup {k} ELSE held
  /\ UNCHANGED <<enabled, fader, lora, lastCurve, snapshot, session, main, pacing,
                 client, podVars>>

\* The toggle: first the filter cache, ...
Toggle ==
  /\ User
  /\ enabled' = ~enabled
  /\ cache' = enabled'
  /\ main' = "toggling"
  /\ UNCHANGED <<knob, fader, pending, quiet, committed, curves, stream, session,
                 pacing, client, podVars>>

\* ... then the debounce and the message.
LoraRoute ==
  /\ main = "toggling"
  /\ IF enabled THEN committed' = fader /\ pending' = None /\ quiet' = FALSE
                ELSE UNCHANGED <<committed, pending, quiet>>
  /\ IF connected THEN Send(Message("lora", One(Str, IF enabled THEN fader ELSE None)))
                  ELSE UNCHANGED fifo
  /\ main' = "idle"
  /\ UNCHANGED <<pars, cache, curves, stream, session, pacing, sock, slot, podVars, moves>>

\* The fader counts only while the LoRA is enabled.
MoveFader(v) ==
  /\ User
  /\ v # fader
  /\ fader' = v
  /\ IF enabled THEN pending' = v /\ quiet' = FALSE ELSE UNCHANGED <<pending, quiet>>
  /\ UNCHANGED <<knob, enabled, cache, committed, curves, stream, session, main, pacing,
                 client, podVars>>

\* A script's SetParam goes past _dirty, as a message of its own.  It refuses names
\* that are not in the schema, as strengths are; without a socket it changes nothing.
SetParam(k, v) ==
  /\ User
  /\ wsc /\ sock = "open"
  /\ Send(Message("params", One(k, v)))
  /\ UNCHANGED <<pars, lora, curves, stream, session, main, pacing, sock, slot, podVars>>

\* Mutated form: _saw_ready outlives a Connect.
CleanSlate_KeepReady ==
  /\ snapshot' = Nothing /\ borrowed' = FALSE /\ UNCHANGED sawReady
  /\ pending' = None /\ quiet' = FALSE /\ committed' = None /\ cache' = enabled

\* What Connect resets.  _dirty is not among it, nor a failover worker asleep.
CleanSlate ==
  /\ sawReady' = FALSE /\ borrowed' = FALSE
  /\ snapshot' = Nothing
  /\ pending' = None /\ quiet' = FALSE /\ committed' = None
  /\ cache' = enabled

\* What the config tells the pod of the LoRA: its strength if it is enabled.
SessionConfig == IF enabled THEN fader ELSE None

\* _open_ws: stage the config, replace the client, make sure of the pacer.
OpenWs ==
  /\ conn < Conns /\ conn + moves < Steps
  /\ conn' = conn + 1 /\ wsc' = TRUE
  /\ staged' = TRUE /\ config' = SessionConfig
  /\ events' = <<>>    \* what the old client posted is stale from now on
  /\ sock' = "dialing" /\ fifo' = <<>> /\ slot' = NoMsg
  /\ pod' = "waiting" /\ podStr' = None /\ podKnob' = [k \in Knobs |-> None]
  /\ pacer' = IF pacer = "off" THEN "sleeping" ELSE pacer

\* Connect, in either mode; a refused join, or no source, ends it early.
Connect ==
  /\ main = "idle" /\ ~connected
  /\ CleanSlate
  /\ \/ OpenWs
     \/ UNCHANGED <<conn, wsc, staged, config, events, client, podVars, pacer>>
  /\ UNCHANGED <<pars, curves, dirty, connected, retry, main, msg, moves>>

\* A socket that is gone, and with it its queue and the pod's session.
Gone ==
  /\ sock' = "dead" /\ fifo' = <<>> /\ slot' = NoMsg
  /\ podStr' = None /\ podKnob' = [k \in Knobs |-> None]
  /\ events' = IF sock \in {"dialing", "open"} THEN Append(events, "close") ELSE events

\* Disconnect stops the pacer: what it was about to send finds no client.
Disconnect ==
  /\ main = "idle" /\ (wsc \/ connected)
  /\ wsc' = FALSE /\ connected' = FALSE
  /\ dirty' = Nothing
  /\ pacer' = "off" /\ msg' = NoMsg
  /\ Gone
  /\ UNCHANGED <<pars, lora, curves, snapshot, sawReady, config, staged, retry, borrowed,
                 conn, main, pod, moves>>

-----------------------------------------------------------------------------
(* The frame *)

BeginFrame ==
  /\ main = "idle" /\ (events # <<>> \/ connected \/ retry > 0)
  /\ main' = "frame"
  /\ UNCHANGED <<pars, lora, curves, stream, session, pacing, client, podVars, moves>>

Event(e) == main = "frame" /\ events # <<>> /\ Head(events) = e

\* _flush_pending: the config goes out and the session counts as connected.
EvOpen ==
  /\ Event("open")
  /\ events' = Tail(events)
  /\ IF staged THEN /\ connected' = TRUE /\ staged' = FALSE /\ config' = None
                    /\ Send(Message("config", One(Str, config)))
               ELSE UNCHANGED <<connected, staged, config, fifo>>
  /\ UNCHANGED <<pars, lora, curves, stream, sawReady, retry, borrowed, conn, wsc,
                 main, pacing, sock, slot, podVars, moves>>

\* _apply_lora_catalog, of which the stream sees that the filter cache is read again.
Catalog == cache' = enabled

\* Mutated form: nothing is seeded.
EvReady_NoSeed ==
  /\ Event("ready")
  /\ Catalog
  /\ main' = "seeded"
  /\ UNCHANGED <<pars, pending, quiet, committed, curves, stream, session, pacing, client,
                 podVars, moves>>

\* _ev_ready: catalog and seed, ...
EvReady ==
  /\ Event("ready")
  /\ Catalog
  /\ dirty' = [k \in Keys |-> IF k = Str THEN dirty[k] ELSE knob[k]]
  /\ main' = "seeded"
  /\ UNCHANGED <<pars, pending, quiet, committed, curves, snapshot, session, pacing, client,
                 podVars, moves>>

\* ... and then the gate.
GateOpens ==
  /\ main = "seeded"
  /\ events' = Tail(events)
  /\ sawReady' = TRUE /\ borrowed' = FALSE
  /\ main' = "frame"
  /\ UNCHANGED <<pars, lora, curves, stream, connected, config, staged, retry, conn, wsc,
                 pacing, client, podVars, moves>>

\* A close before ready may be worth another pod, after 1.5 s.
EvClose ==
  /\ Event("close")
  /\ events' = Tail(events)
  /\ connected' = FALSE
  /\ \/ ~sawReady /\ retry' = retry + 1
     \/ UNCHANGED retry
  /\ UNCHANGED <<pars, lora, curves, stream, sawReady, borrowed, config, staged, conn,
                 wsc, main, pacing, client, podVars, moves>>

\* The failover tick joins again and opens; nothing is reset.  A Connect may have
\* overtaken it: then it replaces that connection, whose gate may be open.
FailoverTick ==
  /\ main = "frame" /\ retry > 0
  /\ retry' = retry - 1
  /\ \/ OpenWs /\ borrowed' = sawReady
     \/ UNCHANGED <<conn, wsc, staged, config, events, client, podVars, pacer, borrowed>>
  /\ UNCHANGED <<pars, lora, curves, stream, connected, sawReady, main, msg, moves>>

Far(v, w) == (IF v > w THEN v - w ELSE w - v) > Delta

\* settled_lora_strengths, for the one LoRA.
Settled == quiet /\ (committed = None \/ Far(committed, pending))

\* Mutated form: entries that are still moving are dropped with the quiet ones.
Debounce_DropMoving ==
  /\ committed' = IF Settled THEN pending ELSE committed
  /\ pending' = None /\ quiet' = FALSE

\* Mutated form: only the entry is cleared, not the time of its last move.
Debounce_KeepQuiet ==
  /\ committed' = IF Settled THEN pending ELSE committed
  /\ pending' = (IF quiet THEN None ELSE pending) /\ UNCHANGED quiet

\* _flush_lora_strength_debounce: what has been quiet is committed or dropped.
Debounce ==
  /\ committed' = IF Settled THEN pending ELSE committed
  /\ pending' = IF quiet THEN None ELSE pending
  /\ quiet' = FALSE

\* Mutated form: the par is written before the curve's write is on record.
CurveWrites_Unrecorded(k, v) ==
  /\ held' = IF lastCurve[k] \notin {None, v} THEN held \cup {k} ELSE held
  /\ lastCurve' = [lastCurve EXCEPT ![k] = v]
  /\ knob' = [knob EXCEPT ![k] = v]

\* A curve's value: on record before the par is written, so that the echo of
\* that write through OnParChange is not taken for the user's.
CurveWrites(k, v) ==
  /\ lastCurve' = [lastCurve EXCEPT ![k] = v]
  /\ held' = IF lastCurve'[k] \notin {None, v} THEN held \cup {k} ELSE held
  /\ knob' = [knob EXCEPT ![k] = v]

WithCommit == [dirty EXCEPT ![Str] = IF Settled THEN pending ELSE @]

\* _sample_curves is OnTick's, which runs in some frames only.
Curves ==
  \/ /\ dirty' = WithCommit
     /\ UNCHANGED <<knob, curves, moves>>
  \/ /\ Change
     /\ \E k \in Curved \ held, v \in Values :
          /\ dirty' = [WithCommit EXCEPT ![k] = v]
          /\ CurveWrites(k, v)

\* The end of a frame with no event left.
EndFrame ==
  /\ main = "frame" /\ events = <<>>
  /\ main' = "idle"
  /\ IF connected
       THEN /\ Debounce
            /\ Curves
            /\ pacer' = IF pacer = "off" THEN "sleeping" ELSE pacer
       ELSE UNCHANGED <<knob, pending, quiet, committed, curves, dirty, pacer, moves>>
  /\ UNCHANGED <<enabled, fader, cache, snapshot, session, msg, client, podVars>>

-----------------------------------------------------------------------------
(* Time *)

Quiet ==
  /\ pending # None /\ ~quiet
  /\ quiet' = TRUE
  /\ UNCHANGED <<pars, cache, pending, committed, curves, stream, session, main, pacing,
                 client, podVars, moves>>

OverrideEnds(k) ==
  /\ k \in held
  /\ held' = held \ {k}
  /\ UNCHANGED <<pars, lora, lastCurve, stream, session, main, pacing, client, podVars, moves>>

-----------------------------------------------------------------------------
(* The pacer thread *)

\* The three conditions before the lock.  They do not ask whose ready it was.
PacerGate ==
  /\ pacer = "sleeping"
  /\ connected /\ wsc /\ sawReady
  /\ pacer' = "gated" /\ msg' = [for |-> IF borrowed THEN None ELSE conn, raw |-> Nothing]
  /\ UNCHANGED <<pars, lora, curves, stream, session, main, client, podVars, moves>>

\* filter_params_for_wire: no strength of a LoRA that is not enabled.
Filter(raw) == IF cache THEN raw ELSE [raw EXCEPT ![Str] = None]

\* Mutated form: _dirty is sent and forgotten, the snapshot never sees it.
PacerBuild_NoMerge ==
  /\ pacer = "gated"
  /\ pacer' = "built"
  /\ dirty' = Nothing
  /\ msg' = [msg EXCEPT !.raw = Filter(Over(dirty, snapshot))]
  /\ UNCHANGED <<pars, lora, curves, snapshot, session, main, client, podVars, moves>>

\* Under _lock: dirty wins, the snapshot keeps it.
PacerBuild ==
  /\ pacer = "gated"
  /\ pacer' = "built"
  /\ snapshot' = Over(dirty, snapshot)
  /\ dirty' = Nothing
  /\ msg' = [for |-> msg.for, raw |-> Filter(snapshot')]
  /\ UNCHANGED <<pars, lora, curves, session, main, client, podVars, moves>>

\* To whichever client there is now; its slot takes it, connected or not.
PacerSend ==
  /\ pacer = "built"
  /\ pacer' = "sleeping" /\ msg' = NoMsg
  /\ slot' = IF wsc THEN msg ELSE slot
  /\ UNCHANGED <<pars, lora, curves, stream, session, main, sock, fifo, podVars, moves>>

-----------------------------------------------------------------------------
(* The recv thread, the socket and the pod *)

SocketOpens ==
  /\ sock = "dialing"
  /\ sock' = "open"
  /\ events' = Append(events, "open")
  /\ UNCHANGED <<pars, lora, curves, stream, connected, sawReady, config, staged, retry, borrowed,
                 conn, wsc, main, pacing, fifo, slot, podVars, moves>>

SocketDies ==
  /\ sock \in {"dialing", "open"}
  /\ Gone
  /\ UNCHANGED <<pars, lora, curves, stream, connected, sawReady, config, staged, retry, borrowed,
                 conn, wsc, main, pacing, pod, moves>>

\* A pod that has its config applies params; a strength only to a loaded LoRA.
Applies(raw) ==
  IF pod = "waiting" THEN UNCHANGED <<podKnob, podStr>>
  ELSE /\ podKnob' = [k \in Knobs |-> IF raw[k] # None THEN raw[k] ELSE podKnob[k]]
       /\ podStr' = IF podStr # None /\ raw[Str] # None THEN raw[Str] ELSE podStr

\* The queue first.  The config and enable_lora load the LoRA.
DeliverDiscrete ==
  /\ sock = "open" /\ fifo # <<>>
  /\ fifo' = Tail(fifo)
  /\ LET m == Head(fifo) IN
       /\ pod' = IF m.kind = "config" /\ pod = "waiting" THEN "encoding" ELSE pod
       /\ IF m.kind = "params" THEN Applies(m.raw)
                               ELSE podStr' = m.raw[Str] /\ UNCHANGED podKnob
  /\ UNCHANGED <<pars, lora, curves, stream, session, main, pacing, sock, slot, moves>>

\* Then the slot.
DeliverParams ==
  /\ sock = "open" /\ fifo = <<>> /\ slot # NoMsg
  /\ slot' = NoMsg
  /\ Applies(slot.raw)
  /\ UNCHANGED <<pars, lora, curves, stream, session, main, pacing, sock, fifo, pod, moves>>

PodReady ==
  /\ sock = "open" /\ pod = "encoding"
  /\ pod' = "ready"
  /\ events' = Append(events, "ready")
  /\ UNCHANGED <<pars, lora, curves, stream, connected, sawReady, config, staged, retry, borrowed,
                 conn, wsc, main, pacing, client, podStr, podKnob, moves>>

Frame == BeginFrame \/ EvOpen \/ EvReady \/ GateOpens \/ EvClose \/ EndFrame
PacerStep == PacerGate \/ PacerBuild \/ PacerSend
RecvStep == DeliverDiscrete \/ DeliverParams

Next ==
  \/ \E k \in Knobs, v \in Values : MoveKnob(k, v) \/ SetParam(k, v)
  \/ \E v \in Values : MoveFader(v)
  \/ Toggle \/ LoraRoute
  \/ Connect \/ Disconnect
  \/ Frame \/ FailoverTick
  \/ Quiet
  \/ \E k \in Curved : OverrideEnds(k)
  \/ PacerStep \/ RecvStep
  \/ SocketOpens \/ SocketDies \/ PodReady

Spec == Init /\ [][Next]_vars

\* The host calls the drain every frame; the pacer ticks every 16 ms; a client
\* with an open socket writes.  Nothing is assumed of the user or the pod.
FairSpec ==
  /\ Spec
  /\ WF_vars(Frame) /\ WF_vars(LoraRoute)
  /\ WF_vars(PacerStep) /\ WF_vars(RecvStep)

-----------------------------------------------------------------------------
(* Properties *)

Streaming == connected /\ wsc /\ sawReady /\ main = "idle"

\* What the next message will say is what the pars show: no edit of the user,
\* of a curve or before ready is lost between _dirty and the snapshot, however
\* the pacer's merge falls between the main thread's writes.  A gate that an
\* overtaken failover tick found open shows nothing until the pod's own ready.
MergedViewIsUi ==
  Streaming /\ ~borrowed => \A k \in Knobs : Over(dirty, snapshot)[k] = knob[k]

\* A message whose gate was opened by this connection's ready carries every
\* knob: the pod never has to fall back on a default of its own (_ev_ready
\* seeds before it opens the gate).
StreamIsFull ==
  sock = "open" /\ slot # NoMsg /\ slot.for = conn
    => \A k \in Knobs : slot.raw[k] # None

\* The ready gate, as far as it holds: the only params that a pod gets before its
\* ready are those let through by an earlier connection's.
GateHolds ==
  [][slot' # slot /\ slot' # NoMsg /\ pod # "ready" => slot'.for # conn]_vars

\* "we send NOTHING until the server's ready" (demon_ext.py:2000; "The params
\* pacer must send NOTHING until ready", tests/test_demon_ext_source.py:66-78).
\* Fails: a message past the gate is sent to whatever client there is by then,
\* and a failover tick that a Connect has overtaken replaces a ready connection
\* and leaves _saw_ready set.
NothingBeforeReady ==
  [][slot' # slot /\ slot' # NoMsg => pod = "ready"]_vars

\* An override window opens by the user's hand only: a curve that mistook the
\* echo of its own write for one would lock itself out.
HeldByUserOnly ==
  [][\A k \in held' \ held : \E v \in Values : MoveKnob(k, v)]_vars

\* With nothing pending, the strength the debounce holds for committed is the
\* fader's within the jitter it ignores, through toggles and reconnects.
DebounceTracks ==
  enabled /\ pending = None /\ committed # None /\ main # "toggling"
    => ~Far(committed, fader)

\* Once the user leaves the knobs alone, a streaming pod comes to hold what
\* they show, and keeps it; a value that a script has set goes with the next
\* message of the pacer.
PodConverges ==
  <>[](connected /\ sawReady /\ sock = "open" /\ pod = "ready"
         => \A k \in Knobs : podKnob[k] = knob[k])

\* The strength the next message will carry is the one the debounce holds for
\* committed.  Fails when a LoRA is enabled again at another strength: the pod is
\* set back to the older one, and the fader has to leave the committed value
\* before anything is sent again.
MergedStrengthIsCommitted ==
  Streaming /\ enabled /\ committed # None /\ Over(dirty, snapshot)[Str] # None
    => ~Far(Over(dirty, snapshot)[Str], committed)

\* The first message of a pod is its config.  Fails: a script's SetParam, sent after
\* the socket opened and before the open event is drained, goes ahead of it.
ConfigFirst ==
  [][DeliverDiscrete /\ pod = "waiting" => Head(fifo).kind = "config"]_vars

\* No strength reaches a pod for a LoRA it has not loaded.
StrengthsOfLoadedOnly ==
  [][DeliverParams /\ slot.raw[Str] # None => podStr # None]_vars
=============================================================================
