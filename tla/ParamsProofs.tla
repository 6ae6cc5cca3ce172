---------------------------- MODULE ParamsProofs ----------------------------
(***************************************************************************)
(* Proofs about ParamsStream, for any knobs, curves and values, and any    *)
(* number of connections and moves: what the pacer merges is what the pars *)
(* show, a streaming pod gets every knob, and the debounce keeps to the    *)
(* fader.                                                                  *)
(***************************************************************************)
EXTENDS ParamsStream, SequenceTheorems, TLAPS

\* The newest client has posted each event at most once, and its close last.
Posted ==
  /\ Len(events) <= (IF sock \in {"open", "dead"} THEN 1 ELSE 0)
                    + (IF sock = "dead" THEN 1 ELSE 0) + (IF pod = "ready" THEN 1 ELSE 0)
  /\ \A i \in DOMAIN events : events[i] = "close" => sock = "dead" /\ i = Len(events)

\* Between the seed and the gate the ready event is still at the head.
TypeInv == TypeOK /\ Posted /\ (main = "seeded" => events # << >>)

\* A config that is still staged has not been sent: no pod can be ready.
Staged ==
  staged => /\ (~sawReady \/ borrowed) /\ main # "seeded"
            /\ pod = "waiting" /\ \A i \in DOMAIN fifo : fifo[i].kind # "config"
            /\ \A i \in DOMAIN events : events[i] # "ready"

\* What has been heard of the pod is of the pod there is, unless an overtaken
\* failover tick replaced it.
Heard ==
  ((sawReady /\ ~borrowed) \/ main = "seeded" \/ \E i \in DOMAIN events : events[i] = "ready")
    => pod = "ready"

Shown == \A k \in Knobs : Over(dirty, snapshot)[k] = knob[k]

\* From the seed on, what the pacer would merge is what the pars show.
Merged == main = "seeded" \/ (connected /\ sawReady /\ ~borrowed) => Shown

Full(raw) == \A k \in Knobs : raw[k] # None

\* A message is for the connection whose gate it passed, and full if that is the
\* one there still is.
Carried ==
  /\ msg.for <= conn /\ slot.for <= conn
  /\ pacer \in {"gated", "built"} /\ msg.for = conn => pod = "ready"
  /\ pacer = "gated" /\ msg.for = conn
       => (connected /\ sawReady /\ ~borrowed) \/ sock = "dead"
  /\ pacer = "built" /\ msg.for = conn => Full(msg.raw) \/ sock = "dead"
  /\ sock # "dead" /\ slot # NoMsg /\ slot.for = conn => Full(slot.raw)

StreamInv == TypeInv /\ Staged /\ Heard /\ Merged /\ Carried

\* A strength that waits is the fader's.
Waits ==
  /\ enabled /\ main # "toggling" /\ pending # None => pending = fader
  /\ DebounceTracks

-----------------------------------------------------------------------------
(* Dicts and events *)

LEMMA OverType ==
  ASSUME NEW d \in [Keys -> Maybe], NEW s \in [Keys -> Maybe]
  PROVE  Over(d, s) \in [Keys -> Maybe]
BY DEF Over

LEMMA NothingType == Nothing \in [Keys -> Maybe] /\ NoMsg \in Msg
<1>1. Nothing \in [Keys -> Maybe]
  BY DEF Nothing, Maybe
<1>2. 0 \in 0..Conns
  BY ParamsAssumption
<1>3. QED
  BY <1>1, <1>2 DEF NoMsg, Msg

LEMMA FilterType ==
  ASSUME NEW raw \in [Keys -> Maybe]
  PROVE  Filter(raw) \in [Keys -> Maybe] /\ \A k \in Knobs : Filter(raw)[k] = raw[k]
BY ParamsNames DEF Filter, Maybe, Keys

LEMMA CommitType ==
  ASSUME TypeOK
  PROVE  WithCommit \in [Keys -> Maybe] /\ \A k \in Knobs : WithCommit[k] = dirty[k]
<1>1. dirty \in [Keys -> Maybe] /\ pending \in Maybe /\ \A k \in Knobs : k # Str /\ k \in Keys
  BY ParamsNames DEF TypeOK, Keys
<1>2. QED
  BY <1>1 DEF WithCommit

LEMMA MessageType ==
  ASSUME NEW k \in Keys, NEW v \in Maybe, NEW kind \in {"config", "lora", "params"}
  PROVE  /\ Message(kind, One(k, v)) \in Discrete
         /\ Message(kind, One(k, v)).kind = kind
<1>1. One(k, v) \in [Keys -> Maybe]
  BY NothingType DEF One
<1>2. QED
  BY <1>1 DEF Message, Discrete

LEMMA SendType ==
  ASSUME TypeInv, NEW m \in Discrete, Send(m)
  PROVE  /\ fifo' \in Seq(Discrete)
         /\ \A i \in DOMAIN fifo' : fifo'[i] = m \/ (i \in DOMAIN fifo /\ fifo'[i] = fifo[i])
BY DEF Send, TypeInv, TypeOK

LEMMA Drained ==
  ASSUME TypeInv, events # << >>, events' = Tail(events)
  PROVE  /\ events' \in Seq({"open", "ready", "close"})
         /\ Len(events') = Len(events) - 1
         /\ \A i \in DOMAIN events' : i + 1 \in DOMAIN events /\ events'[i] = events[i + 1]
BY DEF TypeInv, TypeOK

LEMMA PostedOne ==
  ASSUME TypeInv, NEW e \in {"open", "ready", "close"}, events' = Append(events, e)
  PROVE  /\ events' \in Seq({"open", "ready", "close"}) /\ events' # << >>
         /\ Len(events') = Len(events) + 1
         /\ \A i \in DOMAIN events' :
              \/ i \in DOMAIN events /\ events'[i] = events[i]
              \/ i = Len(events') /\ events'[i] = e
BY DEF TypeInv, TypeOK

-----------------------------------------------------------------------------
(* Types *)

LEMMA TypeInit == Init => TypeInv
<1> SUFFICES ASSUME Init PROVE TypeInv
  OBVIOUS
<1>1. None \in Maybe /\ 0 \in 0..Conns /\ 0 \in 0..Moves
  BY ParamsAssumption DEF Maybe
<1>2. events \in Seq({"open", "ready", "close"}) /\ Len(events) = 0
  BY DEF Init
<1>3. TypeOK
  <2>1. /\ knob \in [Knobs -> Values] /\ enabled \in BOOLEAN /\ fader \in Values
        /\ cache \in BOOLEAN /\ quiet \in BOOLEAN /\ (quiet => pending # None)
        /\ connected \in BOOLEAN /\ sawReady \in BOOLEAN /\ staged \in BOOLEAN
        /\ retry \in Nat /\ wsc \in BOOLEAN /\ borrowed \in BOOLEAN
    BY ParamsAssumption DEF Init
  <2>2. /\ lastCurve \in [Curved -> Maybe] /\ held \subseteq Curved
        /\ pending \in Maybe /\ committed \in Maybe
        /\ dirty \in [Keys -> Maybe] /\ snapshot \in [Keys -> Maybe]
        /\ config \in Maybe /\ conn \in 0..Conns
        /\ msg \in Msg /\ slot \in Msg /\ podStr \in Maybe
        /\ podKnob \in [Knobs -> Maybe] /\ moves \in 0..Moves /\ fifo \in Seq(Discrete)
    BY <1>1, NothingType, ParamsAssumption DEF Init
  <2>3. QED
    BY <1>2, <2>1, <2>2 DEF Init, TypeOK
<1>4. Posted
  BY <1>2 DEF Init, Posted
<1>5. QED
  BY <1>3, <1>4 DEF Init, TypeInv

\* What OpenWs leaves: a client that dials, its config staged, no event.
LEMMA OpenTypes ==
  ASSUME TypeInv, OpenWs
  PROVE  /\ conn' \in 0..Conns /\ wsc' \in BOOLEAN /\ staged' \in BOOLEAN
         /\ config' \in Maybe /\ events' = << >> /\ fifo' \in Seq(Discrete)
         /\ sock' = "dialing" /\ slot' = NoMsg /\ pod' = "waiting"
         /\ podStr' \in Maybe /\ podKnob' \in [Knobs -> Maybe]
         /\ pacer' \in {"off", "sleeping", "gated", "built"}
<1>1. None \in Maybe /\ fader \in Maybe
  BY DEF Maybe, TypeInv, TypeOK
<1>2. config' \in Maybe /\ podStr' \in Maybe /\ podKnob' \in [Knobs -> Maybe]
  BY <1>1 DEF OpenWs, SessionConfig
<1>3. QED
  BY <1>2, ParamsAssumption DEF OpenWs, TypeInv, TypeOK

LEMMA GoneTypes ==
  ASSUME TypeInv, Gone, pod' = pod
  PROVE  /\ sock' = "dead" /\ fifo' \in Seq(Discrete) /\ slot' = NoMsg /\ podStr' \in Maybe
         /\ podKnob' \in [Knobs -> Maybe]
         /\ events' \in Seq({"open", "ready", "close"}) /\ Len(events') <= 3
         /\ Posted' /\ (events # << >> => events' # << >>)
<1>1. podStr' \in Maybe /\ podKnob' \in [Knobs -> Maybe] /\ fifo' \in Seq(Discrete)
  BY DEF Gone, Maybe
<1>2. CASE sock \in {"dialing", "open"}
  <2>1. events' = Append(events, "close")
    BY <1>2 DEF Gone
  <2>2. \A i \in DOMAIN events : events[i] # "close"
    BY <1>2 DEF TypeInv, Posted
  <2>3. Len(events) <= 1 + (IF pod = "ready" THEN 1 ELSE 0)
    BY <1>2 DEF TypeInv, TypeOK, Posted
  <2>4. events \in Seq({"open", "ready", "close"}) /\ pod \in {"waiting", "encoding", "ready"}
    BY DEF TypeInv, TypeOK
  <2>5. QED
    BY <1>1, <2>1, <2>2, <2>3, <2>4, PostedOne DEF Gone, Posted
<1>3. CASE sock \notin {"dialing", "open"}
  BY <1>1, <1>3 DEF Gone, TypeInv, TypeOK, Posted
<1>4. QED
  BY <1>2, <1>3

LEMMA TypeUser ==
  ASSUME TypeInv
  PROVE  /\ \A k \in Knobs, v \in Values : MoveKnob(k, v) \/ SetParam(k, v) => TypeInv'
         /\ \A v \in Values : MoveFader(v) => TypeInv'
         /\ Toggle => TypeInv'
         /\ LoraRoute => TypeInv'
         /\ Quiet => TypeInv'
         /\ \A k \in Curved : OverrideEnds(k) => TypeInv'
<1>1. Values \subseteq Maybe /\ Knobs \subseteq Keys /\ None \notin Values
  BY ParamsNames DEF Maybe, Keys
<1>2. ASSUME NEW k \in Knobs, NEW v \in Values, MoveKnob(k, v) PROVE TypeInv'
  <2>1. /\ knob' \in [Knobs -> Values] /\ dirty' \in [Keys -> Maybe]
        /\ held' \subseteq Curved /\ moves' \in 0..Moves
    BY <1>1, <1>2, ParamsAssumption DEF MoveKnob, User, Change, TypeInv, TypeOK
  <2>2. QED
    BY <1>2, <2>1 DEF MoveKnob, User, TypeInv, TypeOK, Posted, lora, session, pacing, client, podVars
<1>3. ASSUME NEW v \in Values, MoveFader(v) PROVE TypeInv'
  <2>1. pending' \in Maybe /\ quiet' \in BOOLEAN /\ (quiet' => pending' # None)
    BY <1>1, <1>3 DEF MoveFader, TypeInv, TypeOK
  <2>2. moves' \in 0..Moves
    BY <1>3, ParamsAssumption DEF MoveFader, User, Change, TypeInv, TypeOK
  <2>3. QED
    BY <1>3, <2>1, <2>2
       DEF MoveFader, User, TypeInv, TypeOK, Posted, curves, stream, session, pacing, client, podVars
<1>4. ASSUME Toggle PROVE TypeInv'
  <2>1. enabled' \in BOOLEAN /\ cache' \in BOOLEAN
    BY <1>4 DEF Toggle
  <2>2. moves' \in 0..Moves
    BY <1>4, ParamsAssumption DEF Toggle, User, Change, TypeInv, TypeOK
  <2>3. QED
    BY <1>4, <2>1, <2>2
       DEF Toggle, User, TypeInv, TypeOK, Posted, curves, stream, session, pacing, client, podVars
<1>5. ASSUME LoraRoute PROVE TypeInv'
  <2>1. /\ pending' \in Maybe /\ quiet' \in BOOLEAN /\ committed' \in Maybe
        /\ (quiet' => pending' # None)
    BY <1>1, <1>5 DEF LoraRoute, TypeInv, TypeOK, Maybe
  <2>2. fifo' \in Seq(Discrete)
    <3>1. (IF enabled THEN fader ELSE None) \in Maybe /\ Str \in Keys
      BY <1>1 DEF Maybe, Keys, TypeInv, TypeOK
    <3>2. QED
      BY <1>5, <3>1, MessageType, SendType DEF LoraRoute, TypeInv, TypeOK
  <2>3. QED
    BY <1>5, <2>1, <2>2
       DEF LoraRoute, TypeInv, TypeOK, Posted, pars, curves, stream, session, pacing, podVars
<1>6. ASSUME Quiet PROVE TypeInv'
  BY <1>6 DEF Quiet, TypeInv, TypeOK, Posted, pars, curves, stream, session, pacing, client, podVars
<1>7. ASSUME NEW k \in Curved, OverrideEnds(k) PROVE TypeInv'
  BY <1>7 DEF OverrideEnds, TypeInv, TypeOK, Posted, pars, lora, stream, session, pacing, client, podVars
<1>8. ASSUME NEW k \in Knobs, NEW v \in Values, SetParam(k, v) PROVE TypeInv'
  <2>1. fifo' \in Seq(Discrete)
    BY <1>1, <1>8, MessageType, SendType DEF SetParam
  <2>2. moves' \in 0..Moves
    BY <1>8, ParamsAssumption DEF SetParam, User, Change, TypeInv, TypeOK
  <2>3. QED
    BY <1>8, <2>1, <2>2
       DEF SetParam, TypeInv, TypeOK, Posted, pars, lora, curves, stream, session, pacing, podVars
<1>9. QED
  BY <1>2, <1>3, <1>4, <1>5, <1>6, <1>7, <1>8

LEMMA TypeOpening ==
  ASSUME TypeInv
  PROVE  /\ Connect => TypeInv'
         /\ Disconnect => TypeInv'
         /\ FailoverTick => TypeInv'
<1>1. None \in Maybe /\ FALSE \in BOOLEAN /\ enabled \in BOOLEAN
  BY DEF Maybe, TypeInv, TypeOK
<1>2. ASSUME Connect PROVE TypeInv'
  <2>1. /\ sawReady' \in BOOLEAN /\ borrowed' \in BOOLEAN /\ cache' \in BOOLEAN
        /\ quiet' \in BOOLEAN /\ ~quiet'
        /\ pending' \in Maybe /\ committed' \in Maybe /\ snapshot' \in [Keys -> Maybe]
    BY <1>1, <1>2, NothingType DEF Connect, CleanSlate
  <2>2. CASE OpenWs
    <3>1. Posted'
      BY <2>2, OpenTypes DEF Posted
    <3>2. events' \in Seq({"open", "ready", "close"}) /\ Len(events') = 0
      BY <2>2, OpenTypes
    <3>3. msg' \in Msg /\ slot' \in Msg /\ main' = "idle"
      BY <1>2, <2>2, OpenTypes, NothingType DEF Connect, TypeInv, TypeOK
    <3>4. QED
      BY <1>2, <2>1, <2>2, <3>1, <3>2, <3>3, OpenTypes DEF Connect, TypeInv, TypeOK, pars, curves
  <2>3. CASE UNCHANGED <<conn, wsc, staged, config, events, client, podVars, pacer>>
    BY <1>2, <2>1, <2>3 DEF Connect, TypeInv, TypeOK, Posted, pars, curves, client, podVars
  <2>4. QED
    BY <1>2, <2>2, <2>3 DEF Connect
<1>3. ASSUME Disconnect PROVE TypeInv'
  <2>1. Gone /\ pod' = pod
    BY <1>3 DEF Disconnect
  <2>2. dirty' \in [Keys -> Maybe] /\ msg' \in Msg /\ slot' \in Msg
    BY <1>3, <2>1, GoneTypes, NothingType DEF Disconnect
  <2>3. wsc' \in BOOLEAN /\ connected' \in BOOLEAN
    BY <1>3 DEF Disconnect
  <2>4. QED
    BY <1>3, <2>1, <2>2, <2>3, GoneTypes DEF Disconnect, TypeInv, TypeOK, pars, lora, curves
<1>4. ASSUME FailoverTick PROVE TypeInv'
  <2>1. retry' \in Nat
    BY <1>4 DEF FailoverTick, TypeInv, TypeOK
  <2>2. CASE OpenWs
    <3>1. Posted'
      BY <2>2, OpenTypes DEF Posted
    <3>2. events' \in Seq({"open", "ready", "close"}) /\ Len(events') = 0
      BY <2>2, OpenTypes
    <3>3. msg' \in Msg /\ slot' \in Msg /\ main' = "frame"
      BY <1>4, <2>2, OpenTypes, NothingType DEF FailoverTick, TypeInv, TypeOK
    <3>4. QED
      BY <1>4, <2>1, <2>2, <3>1, <3>2, <3>3, OpenTypes
         DEF FailoverTick, TypeInv, TypeOK, pars, lora, curves, stream
  <2>3. CASE UNCHANGED <<conn, wsc, staged, config, events, client, podVars, pacer, borrowed>>
    BY <1>4, <2>1, <2>3
       DEF FailoverTick, TypeInv, TypeOK, Posted, pars, lora, curves, stream, client, podVars
  <2>4. QED
    BY <1>4, <2>2, <2>3 DEF FailoverTick
<1>5. QED
  BY <1>2, <1>3, <1>4

LEMMA DrainedPosted ==
  ASSUME TypeInv, events # << >>, events' = Tail(events), sock' = sock, pod' = pod
  PROVE  /\ events' \in Seq({"open", "ready", "close"}) /\ Len(events') <= 3 /\ Posted'
<1>1. /\ Len(events') = Len(events) - 1
      /\ \A i \in DOMAIN events' : i + 1 \in DOMAIN events /\ events'[i] = events[i + 1]
  BY Drained
<1>2. DOMAIN events' \subseteq Nat /\ Len(events) \in Nat /\ Len(events) <= 3
  BY Drained DEF TypeInv, TypeOK
<1>3. \A i \in DOMAIN events' : events'[i] = "close" => sock' = "dead" /\ i = Len(events')
  <2> SUFFICES ASSUME NEW i \in DOMAIN events', events'[i] = "close"
               PROVE  sock' = "dead" /\ i = Len(events')
    OBVIOUS
  <2>1. i + 1 \in DOMAIN events /\ events[i + 1] = "close"
    BY <1>1
  <2>2. sock = "dead" /\ i + 1 = Len(events)
    BY <2>1 DEF TypeInv, Posted
  <2>3. QED
    BY <1>1, <1>2, <2>2
<1>4. QED
  BY <1>1, <1>2, <1>3, Drained DEF TypeInv, Posted

LEMMA TypeFrame ==
  ASSUME TypeInv
  PROVE  /\ BeginFrame => TypeInv'
         /\ EvOpen => TypeInv'
         /\ EvReady => TypeInv'
         /\ GateOpens => TypeInv'
         /\ EvClose => TypeInv'
<1>1. None \in Maybe /\ TRUE \in BOOLEAN /\ FALSE \in BOOLEAN
  BY DEF Maybe
<1>2. ASSUME BeginFrame PROVE TypeInv'
  BY <1>2 DEF BeginFrame, TypeInv, TypeOK, Posted, pars, lora, curves, stream, session, pacing,
              client, podVars
<1>3. ASSUME EvOpen PROVE TypeInv'
  <2>1. events # << >> /\ events' = Tail(events) /\ sock' = sock /\ pod' = pod /\ slot' = slot
        /\ main = "frame" /\ main' = "frame"
    BY <1>3 DEF EvOpen, Event, podVars
  <2>2. connected' \in BOOLEAN /\ staged' \in BOOLEAN /\ config' \in Maybe
    BY <1>1, <1>3 DEF EvOpen, TypeInv, TypeOK
  <2>3. fifo' \in Seq(Discrete)
    <3>1. Str \in Keys /\ config \in Maybe
      BY DEF Keys, TypeInv, TypeOK
    <3>2. QED
      BY <1>3, <3>1, MessageType, SendType DEF EvOpen, TypeInv, TypeOK
  <2>4. QED
    BY <1>3, <2>1, <2>2, <2>3, DrainedPosted
       DEF EvOpen, TypeInv, TypeOK, pars, lora, curves, stream, pacing, podVars
<1>4. ASSUME EvReady PROVE TypeInv'
  <2>1. dirty' \in [Keys -> Maybe]
    BY <1>4 DEF EvReady, TypeInv, TypeOK, Keys, Maybe
  <2>2. cache' \in BOOLEAN
    BY <1>4 DEF EvReady, Catalog, TypeInv, TypeOK
  <2>3. QED
    BY <1>4, <2>1, <2>2
       DEF EvReady, Event, TypeInv, TypeOK, Posted, pars, curves, session, pacing, client, podVars
<1>5. ASSUME GateOpens PROVE TypeInv'
  <2>1. events # << >> /\ events' = Tail(events) /\ sock' = sock /\ pod' = pod
    BY <1>5 DEF GateOpens, TypeInv, client, podVars
  <2>2. sawReady' \in BOOLEAN /\ borrowed' \in BOOLEAN /\ main' = "frame"
    BY <1>1, <1>5 DEF GateOpens
  <2>3. QED
    BY <1>5, <2>1, <2>2, DrainedPosted
       DEF GateOpens, TypeInv, TypeOK, pars, lora, curves, stream, pacing, client, podVars
<1>6. ASSUME EvClose PROVE TypeInv'
  <2>1. events # << >> /\ events' = Tail(events) /\ sock' = sock /\ pod' = pod
        /\ main = "frame"
    BY <1>6 DEF EvClose, Event, client, podVars
  <2>2. connected' \in BOOLEAN
    BY <1>1, <1>6 DEF EvClose
  <2>3. retry' \in Nat
    <3>1. retry \in Nat /\ (retry' = retry + 1 \/ retry' = retry)
      BY <1>6 DEF EvClose, TypeInv, TypeOK
    <3>2. QED
      BY <3>1
  <2>4. QED
    BY <1>6, <2>1, <2>2, <2>3, DrainedPosted
       DEF EvClose, TypeInv, TypeOK, pars, lora, curves, stream, pacing, client, podVars
<1>7. QED
  BY <1>2, <1>3, <1>4, <1>5, <1>6

LEMMA TypeEndFrame == TypeInv /\ EndFrame => TypeInv'
<1> SUFFICES ASSUME TypeInv, EndFrame PROVE TypeInv'
  OBVIOUS
<1>1. None \in Maybe /\ Values \subseteq Maybe /\ Curved \subseteq Knobs /\ Curved \subseteq Keys
  BY ParamsAssumption DEF Maybe, Keys
<1>2. main' = "idle"
  BY DEF EndFrame
<1>3. pacer' \in {"off", "sleeping", "gated", "built"}
  BY DEF EndFrame, TypeInv, TypeOK
<1>4. /\ pending' \in Maybe /\ committed' \in Maybe /\ quiet' \in BOOLEAN
      /\ (quiet' => pending' # None)
  BY <1>1 DEF EndFrame, Debounce, TypeInv, TypeOK
<1>5. /\ dirty' \in [Keys -> Maybe] /\ knob' \in [Knobs -> Values]
      /\ lastCurve' \in [Curved -> Maybe] /\ held' \subseteq Curved /\ moves' \in 0..Moves
  <2>1. CASE ~connected
    BY <2>1 DEF EndFrame, TypeInv, TypeOK, curves
  <2>2. CASE connected /\ dirty' = WithCommit /\ UNCHANGED <<knob, curves, moves>>
    BY <2>2, CommitType DEF TypeInv, TypeOK, curves
  <2>3. ASSUME NEW k \in Curved \ held, NEW v \in Values,
               Change,
               dirty' = [WithCommit EXCEPT ![k] = v], CurveWrites(k, v)
        PROVE  /\ dirty' \in [Keys -> Maybe] /\ knob' \in [Knobs -> Values]
               /\ lastCurve' \in [Curved -> Maybe] /\ held' \subseteq Curved
               /\ moves' \in 0..Moves
    <3>1. dirty' \in [Keys -> Maybe]
      BY <1>1, <2>3, CommitType DEF TypeInv
    <3>2. knob' \in [Knobs -> Values] /\ lastCurve' \in [Curved -> Maybe] /\ held' \subseteq Curved
      BY <1>1, <2>3 DEF CurveWrites, TypeInv, TypeOK
    <3>3. moves' \in 0..Moves
      BY <2>3, ParamsAssumption DEF Change, TypeInv, TypeOK
    <3>4. QED
      BY <3>1, <3>2, <3>3
  <2>4. QED
    BY <2>1, <2>2, <2>3 DEF EndFrame, Curves
<1>6. QED
  BY <1>2, <1>3, <1>4, <1>5 DEF EndFrame, TypeInv, TypeOK, Posted, session, client, podVars

LEMMA TypePacer == TypeInv /\ PacerStep => TypeInv'
<1> SUFFICES ASSUME TypeInv, PacerStep PROVE TypeInv'
  OBVIOUS
<1>1. CASE PacerGate
  <2>1. msg' \in Msg
    BY <1>1, NothingType DEF PacerGate, Msg, TypeInv, TypeOK
  <2>2. QED
    BY <1>1, <2>1 DEF PacerGate, TypeInv, TypeOK, Posted, pars, lora, curves, stream, session,
                      client, podVars
<1>2. CASE PacerBuild
  <2>1. snapshot' \in [Keys -> Maybe] /\ dirty' \in [Keys -> Maybe]
    BY <1>2, OverType, NothingType DEF PacerBuild, TypeInv, TypeOK
  <2>2. Filter(snapshot') \in [Keys -> Maybe]
    BY <2>1, FilterType
  <2>3. msg' \in Msg
    BY <1>2, <2>2 DEF PacerBuild, Msg, TypeInv, TypeOK
  <2>4. QED
    BY <1>2, <2>1, <2>3 DEF PacerBuild, TypeInv, TypeOK, Posted, pars, lora, curves, session,
                            client, podVars
<1>3. CASE PacerSend
  <2>1. msg' \in Msg /\ slot' \in Msg
    BY <1>3, NothingType DEF PacerSend, TypeInv, TypeOK
  <2>2. QED
    BY <1>3, <2>1 DEF PacerSend, TypeInv, TypeOK, Posted, pars, lora, curves, stream, session,
                      podVars
<1>4. QED
  BY <1>1, <1>2, <1>3 DEF PacerStep

LEMMA AppliesType ==
  ASSUME TypeInv, NEW raw \in [Keys -> Maybe], Applies(raw)
  PROVE  podKnob' \in [Knobs -> Maybe] /\ podStr' \in Maybe
<1>1. Knobs \subseteq Keys /\ Str \in Keys
  BY DEF Keys
<1>2. QED
  BY <1>1 DEF Applies, TypeInv, TypeOK

LEMMA TypePod ==
  ASSUME TypeInv
  PROVE  /\ SocketOpens => TypeInv'
         /\ SocketDies => TypeInv'
         /\ RecvStep => TypeInv'
         /\ PodReady => TypeInv'
<1>1. None \in Maybe
  BY DEF Maybe
<1>2. ASSUME SocketOpens PROVE TypeInv'
  <2>1. /\ Len(events) <= IF pod = "ready" THEN 1 ELSE 0
        /\ \A i \in DOMAIN events : events[i] # "close"
    BY <1>2 DEF SocketOpens, TypeInv, TypeOK, Posted
  <2>2. events' = Append(events, "open") /\ sock' = "open" /\ pod' = pod
    BY <1>2 DEF SocketOpens, podVars
  <2>3. Posted' /\ Len(events') <= 3
    BY <2>1, <2>2, PostedOne DEF Posted, TypeInv, TypeOK
  <2>4. QED
    BY <1>2, <2>2, <2>3, PostedOne
       DEF SocketOpens, TypeInv, TypeOK, pars, lora, curves, stream, pacing, podVars
<1>3. ASSUME SocketDies PROVE TypeInv'
  <2>1. Gone /\ pod' = pod
    BY <1>3 DEF SocketDies
  <2>2. slot' \in Msg
    BY <2>1, NothingType DEF Gone
  <2>3. QED
    BY <1>3, <2>1, <2>2, GoneTypes DEF SocketDies, TypeInv, TypeOK, pars, lora, curves, stream, pacing
<1>4. ASSUME DeliverDiscrete PROVE TypeInv'
  <2>1. fifo' \in Seq(Discrete) /\ podStr' \in Maybe /\ podKnob' \in [Knobs -> Maybe]
    <3>1. Head(fifo) \in Discrete /\ fifo' \in Seq(Discrete)
      BY <1>4 DEF DeliverDiscrete, TypeInv, TypeOK
    <3>2. Head(fifo).raw \in [Keys -> Maybe] /\ Str \in Keys
      BY <3>1 DEF Discrete, Keys
    <3>3. CASE Head(fifo).kind = "params"
      BY <1>4, <3>1, <3>2, <3>3, AppliesType DEF DeliverDiscrete
    <3>4. CASE Head(fifo).kind # "params"
      BY <1>4, <3>1, <3>2, <3>4 DEF DeliverDiscrete, TypeInv, TypeOK
    <3>5. QED
      BY <3>3, <3>4
  <2>2. pod' \in {"waiting", "encoding", "ready"} /\ (pod' = "ready" <=> pod = "ready")
    BY <1>4 DEF DeliverDiscrete, TypeInv, TypeOK
  <2>3. QED
    BY <1>4, <2>1, <2>2
       DEF DeliverDiscrete, TypeInv, TypeOK, Posted, pars, lora, curves, stream, session, pacing
<1>5. ASSUME DeliverParams PROVE TypeInv'
  <2>1. slot.raw \in [Keys -> Maybe]
    BY DEF TypeInv, TypeOK, Msg
  <2>2. podKnob' \in [Knobs -> Maybe] /\ podStr' \in Maybe
    BY <1>5, <2>1, AppliesType DEF DeliverParams
  <2>3. slot' \in Msg
    BY <1>5, NothingType DEF DeliverParams
  <2>4. QED
    BY <1>5, <2>2, <2>3
       DEF DeliverParams, TypeInv, TypeOK, Posted, pars, lora, curves, stream, session, pacing
<1>6. ASSUME PodReady PROVE TypeInv'
  <2>1. /\ Len(events) <= 1 /\ \A i \in DOMAIN events : events[i] # "close"
    BY <1>6 DEF PodReady, TypeInv, TypeOK, Posted
  <2>2. events' = Append(events, "ready") /\ sock' = "open" /\ pod' = "ready"
    BY <1>6 DEF PodReady, client
  <2>3. Posted' /\ Len(events') <= 3
    BY <2>1, <2>2, PostedOne DEF Posted, TypeInv, TypeOK
  <2>4. QED
    BY <1>6, <2>2, <2>3, PostedOne
       DEF PodReady, TypeInv, TypeOK, pars, lora, curves, stream, pacing, client
<1>7. QED
  BY <1>2, <1>3, <1>4, <1>5, <1>6 DEF RecvStep

LEMMA TypeNext == TypeInv /\ [Next]_vars => TypeInv'
<1> SUFFICES ASSUME TypeInv, [Next]_vars PROVE TypeInv'
  OBVIOUS
<1>1. CASE UNCHANGED vars
  BY <1>1 DEF vars, TypeInv, TypeOK, Posted, pars, lora, curves, stream, session, pacing,
              client, podVars
<1>2. CASE Next
  BY <1>2, TypeUser, TypeOpening, TypeFrame, TypeEndFrame, TypePacer, TypePod DEF Next, Frame
<1>3. QED
  BY <1>1, <1>2

\* Pars, dicts, the queue of events and the threads' positions stay in their
\* types, and the newest client never has more than an open, a ready and a close
\* waiting for the main thread.
THEOREM TypeCorrect == Spec => []TypeOK
<1>1. Spec => []TypeInv
  BY TypeInit, TypeNext, PTL DEF Spec
<1>2. TypeInv => TypeOK
  BY DEF TypeInv
<1>3. QED
  BY <1>1, <1>2, PTL

-----------------------------------------------------------------------------
(* The session's side: what is staged and heard *)

LEMMA StreamInit == Init => StreamInv
<1> SUFFICES ASSUME Init PROVE StreamInv
  OBVIOUS
<1>1. Staged /\ Heard /\ Merged
  BY DEF Init, Staged, Heard, Merged
<1>2. Carried
  BY DEF Init, Carried, NoMsg
<1>3. QED
  BY <1>1, <1>2, TypeInit DEF StreamInv

LEMMA StagedStep ==
  ASSUME StreamInv, Next
  PROVE  Staged'
<1> USE DEF Staged
<1>1. TypeInv /\ Staged
  BY DEF StreamInv
<1>2. ASSUME NEW k \in Knobs, NEW v \in Values, MoveKnob(k, v) PROVE Staged'
  BY <1>1, <1>2 DEF MoveKnob, session, client, podVars
<1>2b. ASSUME NEW k \in Knobs, NEW v \in Values, SetParam(k, v) PROVE Staged'
  <2>1. Message("params", One(k, v)) \in Discrete /\ Message("params", One(k, v)).kind # "config"
    BY MessageType DEF Keys, Maybe
  <2>2. \A i \in DOMAIN fifo' : fifo'[i].kind = "params" \/ (i \in DOMAIN fifo /\ fifo'[i] = fifo[i])
    BY <1>1, <1>2b, <2>1, SendType, MessageType DEF SetParam, Message
  <2>3. QED
    BY <1>1, <1>2b, <2>2 DEF SetParam, User, session, podVars
<1>3. ASSUME NEW v \in Values, MoveFader(v) PROVE Staged'
  BY <1>1, <1>3 DEF MoveFader, session, client, podVars
<1>4. CASE Toggle
  BY <1>1, <1>4 DEF Toggle, session, client, podVars
<1>5. CASE LoraRoute
  <2>1. CASE ~connected
    BY <1>1, <1>5, <2>1 DEF LoraRoute, session, podVars
  <2>2. CASE connected
    <3>1. PICK m \in Discrete : m.kind = "lora" /\ Send(m)
      <4>1. (IF enabled THEN fader ELSE None) \in Maybe /\ Str \in Keys
        BY <1>1 DEF Maybe, Keys, TypeInv, TypeOK
      <4>2. QED
        BY <1>5, <2>2, <4>1, MessageType DEF LoraRoute
    <3>2. \A i \in DOMAIN fifo' : fifo'[i].kind = "lora" \/ (i \in DOMAIN fifo /\ fifo'[i] = fifo[i])
      BY <1>1, <3>1, SendType
    <3>3. QED
      BY <1>1, <1>5, <3>2 DEF LoraRoute, session, podVars
  <2>3. QED
    BY <2>1, <2>2
<1>6. CASE Connect
  <2>1. ~sawReady' /\ main' # "seeded"
    BY <1>6 DEF Connect, CleanSlate
  <2>2. CASE OpenWs
    <3>1. DOMAIN fifo' = {} /\ pod' = "waiting" /\ DOMAIN events' = {}
      BY <2>2 DEF OpenWs
    <3>2. QED
      BY <2>1, <3>1
  <2>3. CASE UNCHANGED <<conn, wsc, staged, config, events, client, podVars, pacer>>
    BY <1>1, <2>1, <2>3 DEF client, podVars
  <2>4. QED
    BY <1>6, <2>2, <2>3 DEF Connect
<1>7. CASE Disconnect
  <2>1. \A i \in DOMAIN events' :
          events'[i] = "close" \/ (i \in DOMAIN events /\ events'[i] = events[i])
    BY <1>1, <1>7, PostedOne DEF Disconnect, Gone
  <2>2. QED
    BY <1>1, <1>7, <2>1 DEF Disconnect, Gone
<1>8. CASE BeginFrame
  BY <1>1, <1>8 DEF BeginFrame, session, client, podVars
<1>9. CASE EvOpen
  BY <1>1, <1>9 DEF EvOpen, TypeInv, TypeOK
<1>10. CASE EvReady
  <2>1. 1 \in DOMAIN events /\ events[1] = "ready"
    BY <1>1, <1>10 DEF EvReady, Event, TypeInv, TypeOK
  <2>2. QED
    BY <1>1, <1>10, <2>1 DEF EvReady, session
<1>11. CASE GateOpens
  BY <1>1, <1>11 DEF GateOpens
<1>12. CASE EvClose
  BY <1>1, <1>12, Drained DEF EvClose, Event, client, podVars
<1>13. CASE FailoverTick
  <2>1. main' # "seeded" /\ sawReady' = sawReady /\ sawReady \in BOOLEAN
    BY <1>1, <1>13 DEF FailoverTick, TypeInv, TypeOK
  <2>2. CASE OpenWs /\ borrowed' = sawReady
    <3>1. DOMAIN fifo' = {} /\ pod' = "waiting" /\ DOMAIN events' = {}
      BY <2>2 DEF OpenWs
    <3>2. ~sawReady' \/ borrowed'
      BY <2>1, <2>2, Zenon
    <3>3. QED
      BY <2>1, <3>1, <3>2
  <2>3. CASE UNCHANGED <<conn, wsc, staged, config, events, client, podVars, pacer, borrowed>>
    BY <1>1, <2>1, <2>3 DEF client, podVars
  <2>4. QED
    BY <1>13, <2>2, <2>3 DEF FailoverTick
<1>14. CASE EndFrame
  BY <1>1, <1>14 DEF EndFrame, session, client, podVars
<1>15. CASE Quiet
  BY <1>1, <1>15 DEF Quiet, session, client, podVars
<1>16. ASSUME NEW k \in Curved, OverrideEnds(k) PROVE Staged'
  BY <1>1, <1>16 DEF OverrideEnds, session, client, podVars
<1>17. CASE PacerStep
  BY <1>1, <1>17 DEF PacerStep, PacerGate, PacerBuild, PacerSend, session, client, podVars
<1>18. CASE RecvStep
  <2>1. CASE DeliverDiscrete
    <3>1. fifo \in Seq(Discrete) /\ fifo # << >> /\ fifo' = Tail(fifo)
      BY <1>1, <2>1 DEF DeliverDiscrete, TypeInv, TypeOK
    <3>2. 1 \in DOMAIN fifo /\ Head(fifo) = fifo[1]
      BY <3>1
    <3>3. \A i \in DOMAIN fifo' : i + 1 \in DOMAIN fifo /\ fifo'[i] = fifo[i + 1]
      BY <3>1
    <3>4. QED
      BY <1>1, <2>1, <3>2, <3>3 DEF DeliverDiscrete, session
  <2>2. CASE DeliverParams
    BY <1>1, <2>2 DEF DeliverParams, session
  <2>3. QED
    BY <1>18, <2>1, <2>2 DEF RecvStep
<1>19. CASE SocketOpens
  BY <1>1, <1>19, PostedOne DEF SocketOpens, podVars
<1>20. CASE SocketDies
  <2>1. events' = Append(events, "close")
    BY <1>20 DEF SocketDies, Gone
  <2>2. QED
    BY <1>1, <1>20, <2>1, PostedOne DEF SocketDies, Gone
<1>21. CASE PodReady
  BY <1>1, <1>21 DEF PodReady
<1>22. QED
  BY <1>2, <1>3, <1>4, <1>5, <1>6, <1>7, <1>8, <1>9, <1>10, <1>11, <1>12, <1>13, <1>14, <1>15,
     <1>16, <1>17, <1>18, <1>19, <1>20, <1>21, <1>2b DEF Next, Frame

LEMMA HeardStep ==
  ASSUME StreamInv, Next
  PROVE  Heard'
<1> USE DEF Heard
<1>1. TypeInv /\ Heard
  BY DEF StreamInv
<1>2. ASSUME NEW k \in Knobs, NEW v \in Values, MoveKnob(k, v) PROVE Heard'
  BY <1>1, <1>2 DEF MoveKnob, session, podVars
<1>2b. ASSUME NEW k \in Knobs, NEW v \in Values, SetParam(k, v) PROVE Heard'
  BY <1>1, <1>2b DEF SetParam, session, podVars
<1>3. ASSUME NEW v \in Values, MoveFader(v) PROVE Heard'
  BY <1>1, <1>3 DEF MoveFader, session, podVars
<1>4. CASE Toggle \/ LoraRoute \/ BeginFrame \/ EndFrame \/ Quiet
  BY <1>1, <1>4 DEF Toggle, LoraRoute, BeginFrame, EndFrame, Quiet, session, podVars
<1>5. CASE Connect
  BY <1>1, <1>5 DEF Connect, CleanSlate, OpenWs, podVars
<1>6. CASE Disconnect
  <2>1. \A i \in DOMAIN events' :
          events'[i] = "close" \/ (i \in DOMAIN events /\ events'[i] = events[i])
    BY <1>1, <1>6, PostedOne DEF Disconnect, Gone
  <2>2. QED
    BY <1>1, <1>6, <2>1 DEF Disconnect
<1>7. CASE EvOpen
  BY <1>1, <1>7, Drained DEF EvOpen, Event, podVars
<1>8. CASE EvReady
  <2>1. 1 \in DOMAIN events /\ events[1] = "ready"
    BY <1>1, <1>8 DEF EvReady, Event, TypeInv, TypeOK
  <2>2. QED
    BY <1>1, <1>8, <2>1 DEF EvReady, podVars
<1>9. CASE GateOpens
  BY <1>1, <1>9 DEF GateOpens, podVars
<1>10. CASE EvClose
  BY <1>1, <1>10, Drained DEF EvClose, Event, podVars
<1>11. CASE FailoverTick
  BY <1>1, <1>11 DEF FailoverTick, OpenWs, podVars
<1>12. ASSUME NEW k \in Curved, OverrideEnds(k) PROVE Heard'
  BY <1>1, <1>12 DEF OverrideEnds, session, podVars
<1>13. CASE PacerStep
  BY <1>1, <1>13 DEF PacerStep, PacerGate, PacerBuild, PacerSend, session, podVars
<1>14. CASE RecvStep
  BY <1>1, <1>14 DEF RecvStep, DeliverDiscrete, DeliverParams, session
<1>15. CASE SocketOpens
  BY <1>1, <1>15, PostedOne DEF SocketOpens, podVars
<1>16. CASE SocketDies
  <2>1. events' = Append(events, "close")
    BY <1>16 DEF SocketDies, Gone
  <2>2. QED
    BY <1>1, <1>16, <2>1, PostedOne DEF SocketDies
<1>17. CASE PodReady
  BY <1>17 DEF PodReady
<1>18. QED
  BY <1>2, <1>3, <1>4, <1>5, <1>6, <1>7, <1>8, <1>9, <1>10, <1>11, <1>12, <1>13, <1>14, <1>15,
     <1>16, <1>17, <1>2b DEF Next, Frame

-----------------------------------------------------------------------------
(* The stream: what the dicts and the messages say *)

\* A value written to the par and to _dirty together.
LEMMA WriteShows ==
  ASSUME TypeInv, NEW d \in [Keys -> Maybe], NEW k \in Knobs, NEW v \in Values,
         \A j \in Knobs : d[j] = dirty[j],
         Shown, dirty' = [d EXCEPT ![k] = v], knob' = [knob EXCEPT ![k] = v],
         snapshot' = snapshot
  PROVE  Shown'
<1>1. v # None /\ Knobs \subseteq Keys /\ knob \in [Knobs -> Values]
  BY ParamsNames DEF Keys, TypeInv, TypeOK
<1>2. QED
  BY <1>1 DEF Shown, Over

\* The pacer's merge changes neither what a next merge would say ...
LEMMA MergeShows ==
  ASSUME TypeInv, Shown, snapshot' = Over(dirty, snapshot), dirty' = Nothing, knob' = knob
  PROVE  Shown'
<1>1. Knobs \subseteq Keys /\ dirty \in [Keys -> Maybe] /\ snapshot \in [Keys -> Maybe]
  BY DEF Keys, TypeInv, TypeOK
<1>2. QED
  BY <1>1 DEF Shown, Over, Nothing

\* ... nor leaves a knob out.
LEMMA MergeIsFull ==
  ASSUME TypeInv, Shown
  PROVE  Full(Filter(Over(dirty, snapshot)))
<1>1. \A k \in Knobs : knob[k] # None
  BY ParamsNames DEF TypeInv, TypeOK
<1>2. Over(dirty, snapshot) \in [Keys -> Maybe]
  BY OverType DEF TypeInv, TypeOK
<1>3. QED
  BY <1>1, <1>2, FilterType DEF Shown, Full

LEMMA MergedStep ==
  ASSUME StreamInv, Next
  PROVE  Merged'
<1>1. TypeInv /\ Merged /\ Staged
  BY DEF StreamInv
<1>2. ASSUME NEW k \in Knobs, NEW v \in Values, MoveKnob(k, v) PROVE Merged'
  <2>1. Shown => Shown'
    BY <1>1, <1>2, WriteShows DEF MoveKnob, TypeInv, TypeOK
  <2>2. QED
    BY <1>1, <1>2, <2>1 DEF Merged, MoveKnob, session
<1>2b. ASSUME NEW k \in Knobs, NEW v \in Values, SetParam(k, v) PROVE Merged'
  BY <1>1, <1>2b DEF Merged, Shown, SetParam, pars, stream, session
<1>3. ASSUME NEW v \in Values, MoveFader(v) PROVE Merged'
  BY <1>1, <1>3 DEF Merged, Shown, MoveFader, stream, session
<1>4. CASE Toggle \/ LoraRoute \/ BeginFrame \/ Quiet
  BY <1>1, <1>4 DEF Merged, Shown, Toggle, LoraRoute, BeginFrame, Quiet, pars, stream, session
<1>5. CASE Connect
  BY <1>5 DEF Merged, Connect, CleanSlate
<1>6. CASE Disconnect
  BY <1>6 DEF Merged, Disconnect
<1>7. CASE EvOpen
  BY <1>1, <1>7 DEF Merged, Staged, Shown, EvOpen, Event, pars, stream
<1>8. CASE EvReady
  <2>1. Shown'
    BY <1>8, <1>1, ParamsNames DEF Shown, Over, EvReady, pars, Keys, TypeInv, TypeOK
  <2>2. QED
    BY <2>1 DEF Merged
<1>9. CASE GateOpens
  BY <1>1, <1>9 DEF Merged, Shown, GateOpens, pars, stream
<1>10. CASE EvClose
  BY <1>10 DEF Merged, EvClose, Event
<1>11. CASE FailoverTick
  <2>1. /\ main' = "frame" /\ connected' = connected /\ sawReady' = sawReady
        /\ Shown => Shown'
    BY <1>11 DEF FailoverTick, Shown, pars, stream
  <2>2. borrowed' = sawReady \/ borrowed' = borrowed
    BY <1>11 DEF FailoverTick
  <2>3. sawReady' /\ ~borrowed' => sawReady /\ ~borrowed
    BY <2>1, <2>2, Zenon
  <2>4. QED
    BY <1>1, <2>1, <2>3 DEF Merged
<1>12. CASE EndFrame
  <2>1. CASE connected
    <3>1. Shown => Shown'
      <4>1. CASE dirty' = WithCommit /\ UNCHANGED <<knob, curves, moves>>
        BY <1>1, <1>12, <4>1, CommitType DEF Shown, Over, EndFrame, TypeInv, TypeOK, Keys
      <4>2. ASSUME NEW k \in Curved, NEW v \in Values,
                   dirty' = [WithCommit EXCEPT ![k] = v], CurveWrites(k, v)
            PROVE  Shown => Shown'
        <5>1. k \in Knobs /\ WithCommit \in [Keys -> Maybe]
          BY <1>1, CommitType, ParamsAssumption DEF TypeInv
        <5>2. knob' = [knob EXCEPT ![k] = v] /\ snapshot' = snapshot
          BY <1>12, <4>2 DEF CurveWrites, EndFrame
        <5>3. \A j \in Knobs : WithCommit[j] = dirty[j]
          BY <1>1, CommitType DEF TypeInv
        <5>4. QED
          BY <1>1, <4>2, <5>1, <5>2, <5>3, WriteShows
      <4>3. QED
        BY <1>12, <2>1, <4>1, <4>2 DEF EndFrame, Curves
    <3>2. QED
      BY <1>1, <1>12, <3>1 DEF Merged, EndFrame, session
  <2>2. CASE ~connected
    BY <1>12, <2>2 DEF Merged, EndFrame, session
  <2>3. QED
    BY <2>1, <2>2
<1>13. ASSUME NEW k \in Curved, OverrideEnds(k) PROVE Merged'
  BY <1>1, <1>13 DEF Merged, Shown, OverrideEnds, pars, stream, session
<1>14. CASE PacerGate \/ PacerSend
  BY <1>1, <1>14 DEF Merged, Shown, PacerGate, PacerSend, pars, stream, session
<1>15. CASE PacerBuild
  BY <1>1, <1>15, MergeShows DEF Merged, PacerBuild, pars, session
<1>16. CASE RecvStep
  BY <1>1, <1>16 DEF Merged, Shown, RecvStep, DeliverDiscrete, DeliverParams, pars, stream, session
<1>17. CASE SocketOpens \/ SocketDies \/ PodReady
  BY <1>1, <1>17 DEF Merged, Shown, SocketOpens, SocketDies, PodReady, pars, stream
<1>18. QED
  BY <1>2, <1>3, <1>4, <1>5, <1>6, <1>7, <1>8, <1>9, <1>10, <1>11, <1>12, <1>13, <1>14, <1>15,
     <1>16, <1>17, <1>2b DEF Next, Frame, PacerStep

LEMMA CarriedStep ==
  ASSUME StreamInv, Next
  PROVE  Carried'
<1>1. /\ TypeInv /\ Carried /\ Merged /\ Heard /\ Staged
      /\ msg.for \in Int /\ slot.for \in Int /\ conn \in Int /\ msg \in Msg
  BY DEF StreamInv, TypeInv, TypeOK, Msg, None
<1>2. ASSUME NEW k \in Knobs, NEW v \in Values, MoveKnob(k, v) PROVE Carried'
  BY <1>1, <1>2 DEF Carried, MoveKnob, session, pacing, client, podVars
<1>2b. ASSUME NEW k \in Knobs, NEW v \in Values, SetParam(k, v) PROVE Carried'
  BY <1>1, <1>2b DEF Carried, SetParam, session, pacing, podVars
<1>3. ASSUME NEW v \in Values, MoveFader(v) PROVE Carried'
  BY <1>1, <1>3 DEF Carried, MoveFader, session, pacing, client, podVars
<1>4. CASE Toggle \/ LoraRoute \/ BeginFrame \/ Quiet \/ EvReady
  BY <1>1, <1>4
     DEF Carried, Toggle, LoraRoute, BeginFrame, Quiet, EvReady, session, pacing, client, podVars
<1>5. ASSUME OpenWs, msg' = msg PROVE Carried'
  <2>1. 0 <= conn
    BY <1>1 DEF TypeInv, TypeOK
  <2>2. conn' = conn + 1 /\ slot' = NoMsg
    BY <1>5 DEF OpenWs
  <2>3. msg'.for # conn' /\ msg'.for <= conn' /\ slot'.for <= conn'
    BY <1>1, <1>5, <2>1, <2>2 DEF Carried, NoMsg
  <2>4. QED
    BY <2>2, <2>3 DEF Carried
<1>6. CASE Connect
  <2>1. CASE UNCHANGED <<conn, wsc, staged, config, events, client, podVars, pacer>>
    BY <1>1, <1>6, <2>1 DEF Carried, Connect, client, podVars
  <2>2. QED
    BY <1>5, <1>6, <2>1 DEF Connect
<1>7. CASE FailoverTick
  <2>1. CASE UNCHANGED <<conn, wsc, staged, config, events, client, podVars, pacer, borrowed>>
    BY <1>1, <1>7, <2>1 DEF Carried, FailoverTick, client, podVars
  <2>2. QED
    BY <1>5, <1>7, <2>1 DEF FailoverTick
<1>8. CASE Disconnect
  <2>1. 0 <= conn
    BY <1>1 DEF TypeInv, TypeOK
  <2>2. QED
    BY <1>8, <2>1 DEF Carried, Disconnect, Gone, NoMsg
<1>9. CASE EvOpen \/ GateOpens
  BY <1>1, <1>9 DEF Carried, EvOpen, GateOpens, pacing, client, podVars
<1>10. CASE EvClose
  <2>1. sock = "dead"
    BY <1>1, <1>10 DEF EvClose, Event, TypeInv, TypeOK, Posted
  <2>2. QED
    BY <1>1, <1>10, <2>1 DEF Carried, EvClose, pacing, client, podVars
<1>11. CASE EndFrame
  BY <1>1, <1>11 DEF Carried, EndFrame, session, client, podVars
<1>12. ASSUME NEW k \in Curved, OverrideEnds(k) PROVE Carried'
  BY <1>1, <1>12 DEF Carried, OverrideEnds, session, pacing, client, podVars
<1>13. CASE PacerGate
  <2>1. /\ msg'.for <= conn /\ pacer' = "gated" /\ UNCHANGED <<session, client, podVars>>
        /\ msg'.for = conn => connected /\ sawReady /\ ~borrowed
    BY <1>1, <1>13 DEF PacerGate, None, TypeInv, TypeOK
  <2>2. QED
    BY <1>1, <2>1 DEF Carried, Heard, session, client, podVars
<1>14. CASE PacerBuild
  <2>1. connected /\ sawReady /\ ~borrowed => Full(Filter(Over(dirty, snapshot)))
    BY <1>1, MergeIsFull DEF Merged
  <2>2. msg'.for = msg.for /\ msg'.raw = Filter(Over(dirty, snapshot)) /\ pacer' = "built"
    BY <1>14 DEF PacerBuild
  <2>3. msg.for = conn => Full(msg'.raw) \/ sock = "dead"
    BY <1>1, <1>14, <2>1, <2>2 DEF Carried, PacerBuild
  <2>4. QED
    BY <1>1, <1>14, <2>2, <2>3 DEF Carried, PacerBuild, Full, session, client, podVars
<1>15. CASE PacerSend
  <2>1. 0 <= conn
    BY <1>1 DEF TypeInv, TypeOK
  <2>2. QED
    BY <1>1, <1>15, <2>1 DEF Carried, Full, PacerSend, NoMsg, session, podVars
<1>16. CASE DeliverDiscrete
  BY <1>1, <1>16 DEF Carried, DeliverDiscrete, session, pacing
<1>17. CASE DeliverParams
  <2>1. 0 <= conn
    BY <1>1 DEF TypeInv, TypeOK
  <2>2. QED
    BY <1>1, <1>17, <2>1 DEF Carried, DeliverParams, NoMsg, session, pacing
<1>18. CASE SocketOpens
  BY <1>1, <1>18 DEF Carried, SocketOpens, pacing, podVars
<1>19. CASE SocketDies
  <2>1. 0 <= conn
    BY <1>1 DEF TypeInv, TypeOK
  <2>2. QED
    BY <1>1, <1>19, <2>1 DEF Carried, SocketDies, Gone, NoMsg, pacing
<1>20. CASE PodReady
  BY <1>1, <1>20 DEF Carried, PodReady, pacing, client
<1>21. QED
  BY <1>2, <1>3, <1>4, <1>6, <1>7, <1>8, <1>9, <1>10, <1>11, <1>12, <1>13, <1>14, <1>15,
     <1>16, <1>17, <1>18, <1>19, <1>20, <1>2b DEF Next, Frame, PacerStep, RecvStep

LEMMA StreamNext == StreamInv /\ [Next]_vars => StreamInv'
<1> SUFFICES ASSUME StreamInv, [Next]_vars PROVE StreamInv'
  OBVIOUS
<1>1. TypeInv'
  BY TypeNext DEF StreamInv
<1>2. CASE UNCHANGED vars
  BY <1>1, <1>2 DEF vars, StreamInv, Staged, Heard, Merged, Shown, Carried, Full,
                    pars, stream, session, pacing, client, podVars
<1>3. CASE Next
  BY <1>1, <1>3, StagedStep, HeardStep, MergedStep, CarriedStep DEF StreamInv
<1>4. QED
  BY <1>2, <1>3

LEMMA StreamAlways == Spec => []StreamInv
BY StreamInit, StreamNext, PTL DEF Spec

\* What the next message will say is what the pars show, wherever the pacer's
\* merge falls between the writes of the user, the curves and the seed, and
\* however many failover workers a Connect has left asleep: only a gate that one
\* of them found open says less, until the new pod's own ready.
THEOREM MergedViewAlways == Spec => []MergedViewIsUi
<1>1. StreamInv => MergedViewIsUi
  BY DEF StreamInv, Merged, Shown, MergedViewIsUi, Streaming
<1>2. QED
  BY <1>1, StreamAlways, PTL

\* Every message let through by this connection's own ready carries every knob,
\* whatever sleeping failover workers do to the connection meanwhile.
THEOREM StreamIsFullAlways == Spec => []StreamIsFull
<1>1. StreamInv => StreamIsFull
  BY DEF StreamInv, Carried, Full, StreamIsFull
<1>2. QED
  BY <1>1, StreamAlways, PTL

\* A pod that has not sent ready is sent no params but what an earlier pod's
\* ready let through: a message past the gate when the client was replaced, or
\* a gate that an overtaken failover tick left open.
THEOREM GateHoldsAlways == Spec => GateHolds
<1> DEFINE Holds == slot' # slot /\ slot' # NoMsg /\ pod # "ready" => slot'.for # conn
<1>1. StreamInv /\ [Next]_vars => [Holds]_vars
  <2> SUFFICES ASSUME StreamInv, Next, slot' # slot, slot' # NoMsg, pod # "ready"
               PROVE  slot'.for # conn
    BY DEF vars, client
  <2>1. CASE PacerSend
    BY <2>1 DEF PacerSend, StreamInv, Carried
  <2>2. CASE ~PacerSend
    <3>1. ~(PacerGate \/ PacerBuild \/ RecvStep \/ SocketOpens \/ SocketDies \/ PodReady)
      BY DEF PacerGate, PacerBuild, RecvStep, DeliverDiscrete, DeliverParams, SocketOpens,
             SocketDies, PodReady, Gone, client
    <3>2. ~(Connect \/ Disconnect \/ FailoverTick)
      BY DEF Connect, Disconnect, FailoverTick, OpenWs, Gone, client
    <3>3. ~(Frame \/ Toggle \/ LoraRoute \/ Quiet)
      BY DEF Frame, BeginFrame, EvOpen, EvReady, GateOpens, EvClose, EndFrame, Toggle,
             LoraRoute, Quiet, client
    <3>4. \A v \in Values : ~MoveFader(v) /\ \A k \in Knobs : ~MoveKnob(k, v) /\ ~SetParam(k, v)
      BY DEF MoveKnob, MoveFader, SetParam, client
    <3>5. \A k \in Curved : ~OverrideEnds(k)
      BY DEF OverrideEnds, client
    <3>6. QED
      BY <2>2, <3>1, <3>2, <3>3, <3>4, <3>5 DEF Next, PacerStep
  <2>3. QED
    BY <2>1, <2>2
<1>2. QED
  BY <1>1, StreamAlways, PTL DEF Spec, GateHolds

-----------------------------------------------------------------------------
(* The override window and the debounce *)

\* Only the user's hand opens an override window: no curve takes the echo of its
\* own write for one.
THEOREM HeldByUserAlways == Spec => HeldByUserOnly
<1> DEFINE ByUser == \A k \in held' \ held : \E v \in Values : MoveKnob(k, v)
<1>1. TypeInv /\ [Next]_vars => [ByUser]_vars
  <2> SUFFICES ASSUME TypeInv, Next, NEW k \in held', k \notin held
               PROVE  \E v \in Values : MoveKnob(k, v)
    BY DEF vars
  <2>1. ASSUME NEW j \in Knobs, NEW v \in Values, MoveKnob(j, v)
        PROVE  \E w \in Values : MoveKnob(k, w)
    <3>1. k = j
      BY <2>1 DEF MoveKnob
    <3>2. QED
      BY <2>1, <3>1
  <2>2. ~(PacerStep \/ RecvStep \/ SocketOpens \/ SocketDies \/ PodReady)
    BY DEF PacerStep, PacerGate, PacerBuild, PacerSend, RecvStep, DeliverDiscrete,
           DeliverParams, SocketOpens, SocketDies, PodReady, curves
  <2>3. ~(Connect \/ Disconnect \/ FailoverTick)
    BY DEF Connect, Disconnect, FailoverTick, curves
  <2>4. ~(BeginFrame \/ EvOpen \/ EvReady \/ GateOpens \/ EvClose)
    BY DEF BeginFrame, EvOpen, EvReady, GateOpens, EvClose, curves
  <2>5. ~(Toggle \/ LoraRoute \/ Quiet)
    BY DEF Toggle, LoraRoute, Quiet, curves
  <2>6. \A v \in Values : ~MoveFader(v) /\ \A j \in Knobs : ~SetParam(j, v)
    BY DEF MoveFader, SetParam, curves
  <2>7. \A j \in Curved : ~OverrideEnds(j)
    BY DEF OverrideEnds
  <2>8. ~EndFrame
    <3>1. \A j \in Curved, v \in Values : CurveWrites(j, v) => held' = held
      BY DEF CurveWrites, TypeInv, TypeOK
    <3>2. QED
      BY <3>1 DEF EndFrame, Curves, curves
  <2>9. QED
    BY <2>1, <2>2, <2>3, <2>4, <2>5, <2>6, <2>7, <2>8 DEF Next, Frame
<1>2. Spec => []TypeInv
  BY TypeInit, TypeNext, PTL DEF Spec
<1>3. QED
  BY <1>1, <1>2, PTL DEF Spec, HeldByUserOnly

LEMMA WaitsStep == TypeInv /\ Waits /\ [Next]_vars => Waits'
<1> SUFFICES ASSUME TypeInv, Waits, [Next]_vars PROVE Waits'
  OBVIOUS
<1> USE DEF Waits, DebounceTracks
<1>1. fader \in Int /\ \A v \in Values : v \in Int /\ ~Far(v, v)
  BY ParamsAssumption DEF Far, TypeInv, TypeOK
<1>2. None \notin Values
  BY ParamsNames
<1>3. CASE UNCHANGED <<enabled, fader, pending, committed>> /\ (main = "toggling" => main' = "toggling")
  BY <1>3
<1>4. ASSUME NEW v \in Values, MoveFader(v) PROVE Waits'
  BY <1>2, <1>4 DEF MoveFader
<1>5. CASE Toggle
  BY <1>5 DEF Toggle
<1>6. CASE LoraRoute
  <2>1. CASE enabled
    BY <1>1, <1>6, <2>1 DEF LoraRoute, pars, TypeInv, TypeOK
  <2>2. CASE ~enabled
    BY <1>6, <2>2 DEF LoraRoute, pars
  <2>3. QED
    BY <2>1, <2>2
<1>7. CASE Connect
  BY <1>7 DEF Connect, CleanSlate
<1>8. CASE EndFrame
  <2>1. main = "frame" /\ enabled' = enabled /\ fader' = fader
    BY <1>8 DEF EndFrame
  <2>2. CASE ~connected
    BY <1>8, <2>1, <2>2 DEF EndFrame
  <2>3. CASE connected /\ ~quiet
    <3>1. pending' = pending /\ committed' = committed
      BY <1>8, <2>3 DEF EndFrame, Debounce, Settled
    <3>2. QED
      BY <2>1, <3>1
  <2>4. CASE connected /\ quiet
    <3>1. pending # None /\ (enabled => pending = fader) /\ pending' = None
      BY <1>8, <2>1, <2>4 DEF EndFrame, Debounce, TypeInv, TypeOK
    <3>2. committed' = IF committed = None \/ Far(committed, pending) THEN pending ELSE committed
      BY <1>8, <2>4 DEF EndFrame, Debounce, Settled
    <3>3. ~Far(fader, fader)
      BY <1>1 DEF TypeInv, TypeOK
    <3>4. enabled /\ committed' # None => ~Far(committed', fader)
      BY <3>1, <3>2, <3>3
    <3>5. QED
      BY <2>1, <3>1, <3>4
  <2>5. QED
    BY <2>2, <2>3, <2>4
<1>9. ASSUME NEW k \in Knobs, NEW v \in Values, MoveKnob(k, v) \/ SetParam(k, v) PROVE Waits'
  BY <1>3, <1>9 DEF MoveKnob, SetParam, pars, lora
<1>10. CASE Quiet
  BY <1>3, <1>10 DEF Quiet, pars
<1>11. CASE BeginFrame \/ EvOpen \/ EvReady \/ GateOpens \/ EvClose
  BY <1>3, <1>11 DEF BeginFrame, EvOpen, EvReady, GateOpens, EvClose, Event, pars, lora
<1>12. CASE Disconnect \/ FailoverTick
  BY <1>3, <1>12 DEF Disconnect, FailoverTick, pars, lora
<1>13. ASSUME NEW k \in Curved, OverrideEnds(k) PROVE Waits'
  BY <1>3, <1>13 DEF OverrideEnds, pars, lora
<1>14. CASE PacerStep
  BY <1>3, <1>14 DEF PacerStep, PacerGate, PacerBuild, PacerSend, pars, lora
<1>15. CASE RecvStep
  BY <1>3, <1>15 DEF RecvStep, DeliverDiscrete, DeliverParams, pars, lora
<1>16. CASE SocketOpens \/ SocketDies \/ PodReady
  BY <1>3, <1>16 DEF SocketOpens, SocketDies, PodReady, pars, lora
<1>17. CASE UNCHANGED vars
  BY <1>3, <1>17 DEF vars, pars, lora
<1>18. QED
  BY <1>4, <1>5, <1>6, <1>7, <1>8, <1>9, <1>10, <1>11, <1>12, <1>13, <1>14, <1>15, <1>16, <1>17
     DEF Next, Frame

\* With nothing pending, what the debounce holds for committed is the fader's
\* strength within the jitter.
THEOREM DebounceTracksAlways == Spec => []DebounceTracks
<1>1. Init => Waits
  BY DEF Init, Waits, DebounceTracks
<1>2. Waits => DebounceTracks
  BY DEF Waits
<1>3. QED
  BY <1>1, <1>2, TypeInit, TypeNext, WaitsStep, PTL DEF Spec

=============================================================================
