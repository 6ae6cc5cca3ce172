------------------------------ MODULE WSClient ------------------------------
(***************************************************************************)
(* One WSClient: the outbound FIFO, the coalesced params slot, the frame   *)
(* deferred on a full socket, and the recv thread that alone reads and     *)
(* writes the socket.  The main thread enqueues discrete messages and      *)
(* calls close(); the pacer thread publishes params.                       *)
(*                                                                         *)
(* A discrete message is its number in the order of the calls, and so are  *)
(* params; they are tagged so that the wire keeps them apart.  Taking a    *)
(* frame off the queue (or the slot) and writing it are one step: nothing  *)
(* but the recv thread can touch a frame it has taken.                     *)
(***************************************************************************)
EXTENDS Naturals, Sequences, SequencesExt

CONSTANTS
  Capacity,      \* maxsize of _outbound, 512 in the code
  MaxDiscrete,   \* bound: calls of send_text / send_binary
  MaxParams,     \* bound: calls of send_params
  Big,           \* discrete messages longer than _SEND_FRAGMENT_BYTES
  Fragments      \* fragments such a message is cut into

ASSUME WSClientAssumption ==
  /\ Capacity \in Nat \ {0}
  /\ MaxDiscrete \in Nat /\ MaxParams \in Nat
  /\ Big \subseteq 1..MaxDiscrete
  /\ Fragments \in Nat /\ Fragments > 1

VARIABLES
  outbound,       \* _outbound
  latestParams,   \* _latest_params
  pendingSend,    \* _pending_send
  closing,        \* _closing
  ws,             \* _ws is not None
  thread,         \* where the recv thread stands in _run
  inHand,         \* the large message _send_fragmented is sending
  fragsLeft,      \* its fragments still to be written
  evicting,       \* an _enqueue that found the queue full and has yet to evict
  \* History.
  wire,           \* frames written to the socket, in order
  nDiscrete,      \* discrete calls so far
  nParams,        \* params calls so far
  accepted,       \* discrete messages whose enqueue answered True
  evicted,        \* discrete messages dropped to make room
  closes          \* calls of on_close

queueVars  == <<outbound, pendingSend, evicting, accepted, evicted, nDiscrete>>
paramsVars == <<latestParams, nParams>>
sendVars   == <<inHand, fragsLeft, wire>>
connVars   == <<closing, ws, thread, closes>>
vars == <<queueVars, paramsVars, sendVars, connVars>>

Discrete(n) == <<"discrete", n>>
ParamsMsg(n) == <<"params", n>>
Messages == {Discrete(n) : n \in 1..MaxDiscrete}
Params   == {ParamsMsg(n) : n \in 1..MaxParams}
Frames   == Messages \cup Params
Nothing  == <<"none", 0>>

States == {"unstarted", "starting", "dialing", "top", "fifo", "fragment",
           "params", "recv", "final", "closed", "done"}

TypeOK ==
  /\ outbound \in Seq(Messages) /\ Len(outbound) <= Capacity
  /\ latestParams \in Params \cup {Nothing}
  /\ pendingSend \in Messages \cup {Nothing}
  /\ inHand \in Messages \cup {Nothing}
  /\ evicting \in Messages \cup {Nothing}
  /\ closing \in BOOLEAN /\ ws \in BOOLEAN
  /\ thread \in States
  /\ fragsLeft \in 0..Fragments
  /\ wire \in Seq(Frames)
  /\ nDiscrete \in 0..MaxDiscrete /\ nParams \in 0..MaxParams
  /\ accepted \subseteq Messages /\ evicted \subseteq Messages
  /\ closes \in 0..1

Init ==
  /\ outbound = <<>> /\ latestParams = Nothing /\ pendingSend = Nothing
  /\ closing = FALSE /\ ws = FALSE /\ thread = "unstarted"
  /\ inHand = Nothing /\ fragsLeft = 0 /\ evicting = Nothing
  /\ wire = <<>> /\ nDiscrete = 0 /\ nParams = 0
  /\ accepted = {} /\ evicted = {} /\ closes = 0

-----------------------------------------------------------------------------
(* Callers *)

Goto(s) == thread' = s

\* connect(): start the thread.  _open_ws builds a client per connection and
\* calls this once, before the client is in use.
Connect ==
  /\ thread = "unstarted"
  /\ closing' = FALSE
  /\ Goto("starting")
  /\ UNCHANGED <<queueVars, paramsVars, sendVars, ws, closes>>

\* close(): only a request; the recv thread does the rest.
Close ==
  /\ thread # "unstarted"
  /\ ~closing
  /\ closing' = TRUE
  /\ UNCHANGED <<queueVars, paramsVars, sendVars, ws, thread, closes>>

NextMessage == Discrete(nDiscrete + 1)

\* send_text / send_binary, by the main thread.  With room the message is
\* queued; a full queue is noticed here and makes room in Evict.
Enqueue ==
  /\ evicting = Nothing
  /\ nDiscrete < MaxDiscrete
  /\ nDiscrete' = nDiscrete + 1
  /\ IF closing \/ ~ws
       THEN UNCHANGED <<outbound, evicting, accepted>>
       ELSE IF Len(outbound) < Capacity
              THEN /\ outbound' = Append(outbound, NextMessage)
                   /\ accepted' = accepted \cup {NextMessage}
                   /\ UNCHANGED evicting
              ELSE /\ evicting' = NextMessage
                   /\ UNCHANGED <<outbound, accepted>>
  /\ UNCHANGED <<pendingSend, evicted, paramsVars, sendVars, connVars>>

\* Mutated form: the new message is queued without making room.
Evict_NoRoom ==
  /\ evicting # Nothing
  /\ evicting' = Nothing
  /\ outbound' = Append(outbound, evicting)
  /\ accepted' = accepted \cup {evicting}
  /\ UNCHANGED <<evicted, pendingSend, nDiscrete, paramsVars, sendVars, connVars>>

\* The rest of that call: drop the oldest queued message, whatever it is, and
\* queue the new one.  If the recv thread emptied the queue meanwhile, the new
\* message is the one that is dropped.
Evict ==
  /\ evicting # Nothing
  /\ evicting' = Nothing
  /\ IF outbound = <<>>
       THEN UNCHANGED <<outbound, accepted, evicted>>
       ELSE /\ outbound' = Append(Tail(outbound), evicting)
            /\ accepted' = accepted \cup {evicting}
            /\ evicted' = evicted \cup {Head(outbound)}
  /\ UNCHANGED <<pendingSend, nDiscrete, paramsVars, sendVars, connVars>>

\* send_params, by the pacer thread, which may run before the recv thread does
\* and does not ask whether there is a socket.
SendParams ==
  /\ thread # "unstarted"
  /\ nParams < MaxParams
  /\ nParams' = nParams + 1
  /\ latestParams' = IF closing THEN latestParams ELSE ParamsMsg(nParams + 1)
  /\ UNCHANGED <<queueVars, sendVars, connVars>>

-----------------------------------------------------------------------------
(* The recv thread *)

\* The first act of _run empties the deferred frame and the params slot.
Reset ==
  /\ thread = "starting"
  /\ pendingSend' = Nothing
  /\ latestParams' = Nothing
  /\ Goto("dialing")
  /\ UNCHANGED <<outbound, evicting, accepted, evicted, nDiscrete, nParams,
                 sendVars, closing, ws, closes>>

Dial ==
  /\ thread = "dialing"
  /\ \/ ws' = TRUE /\ Goto("top") /\ UNCHANGED closes
     \/ Goto("done") /\ closes' = closes + 1 /\ UNCHANGED ws
  /\ UNCHANGED <<queueVars, paramsVars, sendVars, closing>>

\* while not self._closing
LoopTop ==
  /\ thread = "top"
  /\ Goto(IF closing THEN "final" ELSE "fifo")
  /\ UNCHANGED <<queueVars, paramsVars, sendVars, closing, ws, closes>>

\* The deferred frame goes first; the mutated form appends it to the queue's
\* order instead, taking fresh frames before it.
NextFrame_QueueFirst == IF outbound # <<>> THEN Head(outbound) ELSE pendingSend
NextFrame == IF pendingSend # Nothing THEN pendingSend
             ELSE IF outbound # <<>> THEN Head(outbound) ELSE Nothing

\* NextFrame has been taken off the queue, or was deferred already.
Taken == outbound' = IF pendingSend # Nothing THEN outbound ELSE Tail(outbound)

\* The socket cannot take a write: keep the frame and go read.  Mutated forms:
\* the frame is not kept; the thread goes round again instead of reading.
FifoDefer_Drop ==
  /\ thread = "fifo" /\ NextFrame # Nothing
  /\ Taken
  /\ pendingSend' = Nothing
  /\ Goto("recv")
  /\ UNCHANGED <<evicting, accepted, evicted, nDiscrete, paramsVars, sendVars,
                 closing, ws, closes>>

FifoDefer_Spin ==
  /\ thread = "fifo" /\ NextFrame # Nothing
  /\ Taken
  /\ pendingSend' = NextFrame
  /\ Goto("top")
  /\ UNCHANGED <<evicting, accepted, evicted, nDiscrete, paramsVars, sendVars,
                 closing, ws, closes>>

FifoDefer ==
  /\ thread = "fifo" /\ NextFrame # Nothing
  /\ Taken
  /\ pendingSend' = NextFrame
  /\ Goto("recv")
  /\ UNCHANGED <<evicting, accepted, evicted, nDiscrete, paramsVars, sendVars,
                 closing, ws, closes>>

\* Write the next discrete frame.  A large one only begins here; a write that
\* fails ends the connection and takes the frame with it.
FifoWrite ==
  /\ thread = "fifo" /\ NextFrame # Nothing
  /\ Taken
  /\ pendingSend' = Nothing
  /\ \/ /\ NextFrame[2] \notin Big
        /\ wire' = Append(wire, NextFrame)
        /\ UNCHANGED <<inHand, fragsLeft, thread>>
     \/ /\ NextFrame[2] \in Big
        /\ inHand' = NextFrame /\ fragsLeft' = Fragments
        /\ Goto("fragment")
        /\ UNCHANGED wire
     \/ Goto("final") /\ UNCHANGED sendVars
  /\ UNCHANGED <<evicting, accepted, evicted, nDiscrete, paramsVars,
                 closing, ws, closes>>

\* One fragment and, unless it is the last, one read of the socket between
\* fragments.  The write or the read may end the connection; _closing is not
\* looked at.
Fragment ==
  /\ thread = "fragment"
  /\ \/ /\ fragsLeft > 1
        /\ fragsLeft' = fragsLeft - 1
        /\ UNCHANGED <<inHand, wire, thread>>
     \/ /\ fragsLeft = 1
        /\ fragsLeft' = 0
        /\ wire' = Append(wire, inHand)
        /\ inHand' = Nothing
        /\ Goto("fifo")
     \/ /\ inHand' = Nothing /\ fragsLeft' = 0
        /\ Goto("final")
        /\ UNCHANGED wire
  /\ UNCHANGED <<queueVars, paramsVars, closing, ws, closes>>

FifoEmpty ==
  /\ thread = "fifo" /\ NextFrame = Nothing
  /\ Goto("params")
  /\ UNCHANGED <<queueVars, paramsVars, sendVars, closing, ws, closes>>

\* The params slot: left alone while the socket cannot take a write, written
\* otherwise.  The mutated form writes it but keeps it for the next round.
ParamsFlush_Resend ==
  /\ thread = "params"
  /\ \/ Goto("recv") /\ UNCHANGED wire
     \/ /\ latestParams # Nothing
        /\ wire' = Append(wire, latestParams)
        /\ Goto("recv")
  /\ UNCHANGED <<queueVars, paramsVars, inHand, fragsLeft, closing, ws, closes>>

ParamsFlush ==
  /\ thread = "params"
  /\ \/ Goto("recv") /\ UNCHANGED <<latestParams, wire>>
     \/ /\ latestParams # Nothing
        /\ latestParams' = Nothing
        /\ \/ wire' = Append(wire, latestParams) /\ Goto("recv")
           \/ UNCHANGED wire /\ Goto("final")
  /\ UNCHANGED <<queueVars, nParams, inHand, fragsLeft, closing, ws, closes>>

\* After a flush the flag is looked at once more; then the read times out or
\* brings a frame (round again), or the connection ends.
Recv ==
  /\ thread = "recv"
  /\ IF closing THEN Goto("final") ELSE thread' \in {"top", "final"}
  /\ UNCHANGED <<queueVars, paramsVars, sendVars, closing, ws, closes>>

\* The finally block: close the socket and call on_close, then forget the
\* socket; in between a discrete send is still accepted.
Finish ==
  /\ thread = "final"
  /\ closes' = closes + 1
  /\ Goto("closed")
  /\ UNCHANGED <<queueVars, paramsVars, sendVars, closing, ws>>

\* Mutated form: the socket of the last run stays in place.
Unset_KeepSocket ==
  /\ thread = "closed"
  /\ Goto("done")
  /\ UNCHANGED <<queueVars, paramsVars, sendVars, closing, ws, closes>>

Unset ==
  /\ thread = "closed"
  /\ ws' = FALSE
  /\ Goto("done")
  /\ UNCHANGED <<queueVars, paramsVars, sendVars, closing, closes>>

RecvThread ==
  Reset \/ Dial \/ LoopTop \/ FifoDefer \/ FifoWrite \/ Fragment \/ FifoEmpty
    \/ ParamsFlush \/ Recv \/ Finish \/ Unset

Next == Connect \/ Close \/ Enqueue \/ Evict \/ SendParams \/ RecvThread

\* The thread never blocks for ever: dial, write and read have timeouts, and
\* a socket that cannot take a write is not written to.
Spec     == Init /\ [][Next]_vars
FairSpec == Spec /\ WF_vars(RecvThread) /\ WF_vars(Evict)

-----------------------------------------------------------------------------
(* Properties *)

Running == thread \notin {"final", "closed", "done"}

Waiting ==
  {outbound[i] : i \in DOMAIN outbound} \cup ({pendingSend, inHand} \ {Nothing})
OnWire == {wire[i] : i \in DOMAIN wire}

\* Backpressure, deferral and fragmentation lose no discrete message: while
\* the thread runs, every accepted one that eviction spared waits or is sent.
NoneLost == Running => accepted \ evicted \subseteq Waiting \cup OnWire

\* The wire carries discrete messages in the order of the calls, none twice,
\* and params that only get newer.
WireInOrder ==
  \A i, j \in DOMAIN wire :
    i < j /\ wire[i][1] = wire[j][1] => wire[i][2] < wire[j][2]

\* A stalled socket never keeps the thread from reading: server pings are
\* answered inside recv, so every flush leads back there or ends.
BackToRecv == thread = "fifo" ~> thread \in {"recv", "fragment", "done"}

\* close() works: the thread ends and reports the close exactly once.
CloseTakesEffect == closing /\ Running ~> thread = "done" /\ closes = 1 /\ ~ws

\* The client implements the channel: a deferred or half-sent message is still
\* the head of the stream.
Some(m) == IF m = Nothing THEN <<>> ELSE <<m>>
ChannelSpec ==
  INSTANCE Channel WITH
    NoParams <- Nothing,
    stream <- Some(inHand) \o Some(pendingSend) \o outbound,
    slot <- latestParams,
    delivered <- wire
ImplementsChannel == ChannelSpec!Spec
=============================================================================
