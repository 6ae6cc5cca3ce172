------------------------------ MODULE WSProofs ------------------------------
(***************************************************************************)
(* Proofs about WSClient, for a queue of any capacity, any number of calls *)
(* and messages of any size: its types, that no accepted message is lost   *)
(* while the thread runs, and the order of the frames on the wire.         *)
(***************************************************************************)
EXTENDS WSClient, SequenceTheorems, TLAPS

\* Where the one message that has left the queue can be, and what a client that
\* has not dialled yet holds.
Basic ==
  /\ closes = IF thread \in {"closed", "done"} THEN 1 ELSE 0
  /\ thread = "fragment" <=> inHand # Nothing
  /\ inHand # Nothing => pendingSend = Nothing
  /\ thread \in {"unstarted", "starting", "dialing"} =>
       /\ ~ws /\ outbound = << >> /\ pendingSend = Nothing /\ evicting = Nothing
       /\ accepted = {}

TypeInv == TypeOK /\ Basic

\* m is newer than every frame of its kind on the wire w; the queue q only holds
\* messages newer than m; w and q are in order.
Above(w, m)   == \A i \in DOMAIN w : w[i][1] = m[1] => w[i][2] < m[2]
Before(m, q)  == \A i \in DOMAIN q : m[2] < q[i][2]
InOrder(w)    == \A i, j \in DOMAIN w : i < j /\ w[i][1] = w[j][1] => w[i][2] < w[j][2]
Ascending(q)  == \A i, j \in DOMAIN q : i < j => q[i][2] < q[j][2]

\* What has been written comes before what left the queue, and that before what
\* is still in it.
Order ==
  /\ InOrder(wire) /\ Ascending(outbound)
  /\ \A i \in DOMAIN outbound : Above(wire, outbound[i])
  /\ \A m \in {pendingSend, inHand} \ {Nothing} : Above(wire, m) /\ Before(m, outbound)
  /\ latestParams # Nothing => Above(wire, latestParams)

\* No message is numbered higher than the call under way, which holds the
\* highest if it has yet to evict.
Top == IF evicting = Nothing THEN nDiscrete ELSE nDiscrete - 1

Newest ==
  /\ evicting # Nothing => evicting = Discrete(nDiscrete)
  /\ \A i \in DOMAIN outbound : outbound[i][2] <= Top
  /\ \A m \in {pendingSend, inHand} \ {Nothing} : m[2] <= Top
  /\ \A i \in DOMAIN wire : wire[i][1] = "discrete" => wire[i][2] <= Top
  /\ \A i \in DOMAIN wire : wire[i][1] = "params" => wire[i][2] <= nParams
  /\ latestParams # Nothing => latestParams[2] <= nParams

OrderInv == TypeInv /\ Order /\ Newest

-----------------------------------------------------------------------------
(* Types *)

LEMMA Kinds ==
  /\ \A m \in Messages : m[1] = "discrete" /\ m[2] \in Nat /\ m[2] \in 1..MaxDiscrete
  /\ \A p \in Params : p[1] = "params" /\ p[2] \in Nat /\ p[2] \in 1..MaxParams
  /\ Nothing \notin Messages /\ Nothing \notin Params
BY WSClientAssumption DEF Messages, Params, Discrete, ParamsMsg, Nothing

LEMMA NextFrameIs ==
  ASSUME TypeOK, NextFrame # Nothing, Taken
  PROVE  /\ NextFrame \in Messages /\ outbound' \in Seq(Messages)
         /\ \/ pendingSend = NextFrame /\ outbound' = outbound
            \/ /\ pendingSend = Nothing /\ outbound # << >>
               /\ NextFrame = Head(outbound) /\ outbound' = Tail(outbound)
         /\ Len(outbound') <= Capacity
<1>1. outbound \in Seq(Messages) /\ pendingSend \in Messages \cup {Nothing}
      /\ Len(outbound) <= Capacity /\ Capacity \in Nat
  BY WSClientAssumption DEF TypeOK
<1>2. CASE pendingSend # Nothing
  BY <1>1, <1>2 DEF NextFrame, Taken
<1>3. CASE pendingSend = Nothing
  <2>1. outbound # << >> /\ NextFrame = Head(outbound) /\ outbound' = Tail(outbound)
    BY <1>3 DEF NextFrame, Taken
  <2>2. Head(outbound) \in Messages /\ Tail(outbound) \in Seq(Messages)
        /\ Len(Tail(outbound)) = Len(outbound) - 1 /\ Len(outbound) \in Nat
    BY <1>1, <2>1
  <2>3. Len(outbound') <= Capacity /\ outbound' \in Seq(Messages)
    BY <1>1, <2>1, <2>2
  <2>4. NextFrame \in Messages
    BY <2>1, <2>2
  <2>5. QED
    BY <1>3, <2>1, <2>3, <2>4
<1>4. QED
  BY <1>2, <1>3

LEMMA FramesAre == Messages \subseteq Frames /\ Params \subseteq Frames
BY DEF Frames

LEMMA Written ==
  ASSUME NEW S, NEW w \in Seq(S), NEW m \in S
  PROVE  /\ Append(w, m) \in Seq(S)
         /\ Len(Append(w, m)) = Len(w) + 1 /\ Len(w) \in Nat
         /\ DOMAIN w = 1 .. Len(w) /\ DOMAIN Append(w, m) = 1 .. Len(w) + 1
         /\ \A i \in 1 .. Len(w) : Append(w, m)[i] = w[i]
         /\ Append(w, m)[Len(w) + 1] = m
OBVIOUS

LEMMA TypeInit == Init => TypeInv
<1> SUFFICES ASSUME Init PROVE TypeInv
  OBVIOUS
<1>1. closing \in BOOLEAN /\ ws \in BOOLEAN
  BY DEF Init
<1>2. Len(<< >>) <= Capacity
  BY WSClientAssumption
<1>3. TypeOK
  BY <1>1, <1>2, WSClientAssumption DEF Init, TypeOK, States
<1>4. Basic
  BY DEF Init, Basic
<1>5. QED
  BY <1>3, <1>4 DEF TypeInv

LEMMA TypeCallers ==
  TypeInv /\ (Connect \/ Close \/ Enqueue \/ Evict \/ SendParams) => TypeInv'
<1> SUFFICES ASSUME TypeInv, Connect \/ Close \/ Enqueue \/ Evict \/ SendParams
             PROVE  TypeInv'
  OBVIOUS
<1> USE DEF TypeInv
<1>1. CASE Connect \/ Close
  <2>1. closing' \in BOOLEAN /\ thread' \in States
    BY <1>1 DEF Connect, Close, Goto, States, TypeOK
  <2>2. UNCHANGED <<queueVars, paramsVars, sendVars, ws, closes>>
    BY <1>1 DEF Connect, Close
  <2>3. TypeOK'
    BY <2>1, <2>2 DEF TypeOK, queueVars, paramsVars, sendVars
  <2>4. Basic'
    BY <1>1, <2>2 DEF Connect, Close, Goto, Basic, queueVars, sendVars
  <2>5. QED
    BY <2>3, <2>4
<1>2. CASE Enqueue
  <2>1. nDiscrete' \in 0..MaxDiscrete /\ NextMessage \in Messages
    BY <1>2, WSClientAssumption DEF Enqueue, NextMessage, Messages, TypeOK
  <2>2. outbound' \in Seq(Messages) /\ Len(outbound') <= Capacity
    BY <1>2, <2>1, WSClientAssumption DEF Enqueue, TypeOK
  <2>3. evicting' \in Messages \cup {Nothing} /\ accepted' \subseteq Messages
    BY <1>2, <2>1 DEF Enqueue, TypeOK
  <2>4. TypeOK'
    BY <1>2, <2>1, <2>2, <2>3 DEF Enqueue, TypeOK, paramsVars, sendVars, connVars
  <2>5. ws => thread \notin {"unstarted", "starting", "dialing"}
    BY DEF Basic
  <2>6. ~ws => UNCHANGED <<outbound, evicting, accepted>>
    BY <1>2 DEF Enqueue
  <2>7. Basic'
    BY <1>2, <2>5, <2>6 DEF Enqueue, Basic, sendVars, connVars
  <2>8. QED
    BY <2>4, <2>7
<1>3. CASE Evict
  <2>1. evicting \in Messages /\ evicting' = Nothing
    BY <1>3 DEF Evict, TypeOK
  <2>2. /\ outbound' \in Seq(Messages) /\ Len(outbound') <= Capacity
        /\ accepted' \subseteq Messages /\ evicted' \subseteq Messages
    <3>1. CASE outbound = << >>
      BY <1>3, <3>1 DEF Evict, TypeOK
    <3>2. CASE outbound # << >>
      <4>1. /\ Head(outbound) \in Messages /\ Tail(outbound) \in Seq(Messages)
            /\ Len(Tail(outbound)) = Len(outbound) - 1 /\ Len(outbound) \in Nat
        BY <3>2 DEF TypeOK
      <4>2. QED
        BY <1>3, <2>1, <3>2, <4>1, WSClientAssumption DEF Evict, TypeOK
    <3>3. QED
      BY <3>1, <3>2
  <2>3. TypeOK'
    BY <1>3, <2>1, <2>2 DEF Evict, TypeOK, paramsVars, sendVars, connVars
  <2>4. Basic'
    BY <1>3 DEF Evict, Basic, paramsVars, sendVars, connVars
  <2>5. QED
    BY <2>3, <2>4
<1>4. CASE SendParams
  <2>1. nParams' \in 0..MaxParams /\ latestParams' \in Params \cup {Nothing}
    BY <1>4, WSClientAssumption DEF SendParams, TypeOK, Params
  <2>2. TypeOK'
    BY <1>4, <2>1 DEF SendParams, TypeOK, queueVars, sendVars, connVars
  <2>3. Basic'
    BY <1>4 DEF SendParams, Basic, queueVars, sendVars, connVars
  <2>4. QED
    BY <2>2, <2>3
<1>5. QED
  BY <1>1, <1>2, <1>3, <1>4

LEMMA TypeRecv == TypeInv /\ RecvThread => TypeInv'
<1> SUFFICES ASSUME TypeInv, RecvThread PROVE TypeInv'
  OBVIOUS
<1> USE DEF TypeInv
<1>1. CASE Reset
  <2>1. TypeOK'
    BY <1>1 DEF Reset, Goto, States, TypeOK, sendVars
  <2>2. Basic'
    BY <1>1 DEF Reset, Goto, Basic, sendVars
  <2>3. QED
    BY <2>1, <2>2
<1>2. CASE Dial
  <2>1. closes' \in 0..1
    BY <1>2 DEF Dial, Basic
  <2>2. ws' \in BOOLEAN /\ thread' \in {"top", "done"}
    BY <1>2 DEF Dial, Goto, TypeOK
  <2>3. TypeOK'
    BY <1>2, <2>1, <2>2 DEF Dial, States, TypeOK, queueVars, paramsVars, sendVars
  <2>4. Basic'
    BY <1>2 DEF Dial, Goto, Basic, queueVars, sendVars
  <2>5. QED
    BY <2>3, <2>4
<1>3. CASE LoopTop \/ FifoEmpty \/ Recv
  <2>1. /\ thread \in {"top", "fifo", "recv"} /\ thread' \in {"final", "fifo", "params", "top"}
        /\ UNCHANGED <<queueVars, paramsVars, sendVars, closing, ws, closes>>
    BY <1>3 DEF LoopTop, FifoEmpty, Recv, Goto
  <2>2. TypeOK'
    BY <2>1 DEF States, TypeOK, queueVars, paramsVars, sendVars
  <2>3. Basic'
    BY <2>1 DEF Basic, queueVars, sendVars
  <2>4. QED
    BY <2>2, <2>3
<1>4. CASE FifoDefer
  <2>1. NextFrame # Nothing /\ Taken /\ pendingSend' = NextFrame /\ thread = "fifo" /\ thread' = "recv"
        /\ UNCHANGED <<evicting, accepted, evicted, nDiscrete, paramsVars, sendVars, closing, ws, closes>>
    BY <1>4 DEF FifoDefer, Goto
  <2>2. TypeOK'
    BY <2>1, NextFrameIs DEF States, TypeOK, paramsVars, sendVars
  <2>3. Basic'
    BY <2>1 DEF Basic, sendVars
  <2>4. QED
    BY <2>2, <2>3
<1>5. CASE FifoWrite
  <2>1. NextFrame # Nothing /\ Taken /\ pendingSend' = Nothing /\ thread = "fifo"
        /\ UNCHANGED <<evicting, accepted, evicted, nDiscrete, paramsVars, closing, ws, closes>>
    BY <1>5 DEF FifoWrite
  <2>2. NextFrame \in Messages /\ outbound' \in Seq(Messages) /\ Len(outbound') <= Capacity
    BY <2>1, NextFrameIs
  <2>3. \/ wire' = Append(wire, NextFrame) /\ UNCHANGED <<inHand, fragsLeft, thread>>
        \/ /\ inHand' = NextFrame /\ fragsLeft' = Fragments /\ thread' = "fragment"
           /\ wire' = wire
        \/ thread' = "final" /\ UNCHANGED <<inHand, fragsLeft, wire>>
    BY <1>5 DEF FifoWrite, Goto, sendVars
  <2>4. /\ inHand' \in Messages \cup {Nothing}
        /\ fragsLeft' \in 0..Fragments /\ thread' \in States
    BY <2>2, <2>3, WSClientAssumption DEF TypeOK, States
  <2>8. wire' \in Seq(Frames)
    <3>1. wire \in Seq(Frames) /\ NextFrame \in Frames
      BY <2>2, FramesAre DEF TypeOK
    <3>2. Append(wire, NextFrame) \in Seq(Frames)
      BY <3>1, Written
    <3>3. QED
      BY <2>3, <3>1, <3>2
  <2>5. TypeOK'
    BY <2>1, <2>2, <2>4, <2>8 DEF TypeOK, paramsVars
  <2>6. Basic'
    BY <2>1, <2>3 DEF Basic
  <2>7. QED
    BY <2>5, <2>6
<1>6. CASE Fragment
  <2>1. thread = "fragment" /\ inHand \in Messages
        /\ UNCHANGED <<queueVars, paramsVars, closing, ws, closes>>
    BY <1>6 DEF Fragment, Basic, TypeOK
  <2>2. \/ fragsLeft' \in 0..Fragments /\ UNCHANGED <<inHand, wire, thread>>
        \/ /\ fragsLeft' = 0 /\ inHand' = Nothing
           /\ \/ wire' = Append(wire, inHand) /\ thread' = "fifo"
              \/ wire' = wire /\ thread' = "final"
    BY <1>6, WSClientAssumption DEF Fragment, Goto, TypeOK
  <2>3. /\ inHand' \in Messages \cup {Nothing}
        /\ fragsLeft' \in 0..Fragments /\ thread' \in States
    BY <2>1, <2>2, WSClientAssumption DEF TypeOK, States
  <2>7. wire' \in Seq(Frames)
    <3>1. wire \in Seq(Frames) /\ inHand \in Frames
      BY <2>1, FramesAre DEF TypeOK
    <3>2. Append(wire, inHand) \in Seq(Frames)
      BY <3>1, Written
    <3>3. QED
      BY <2>2, <3>1, <3>2
  <2>4. TypeOK'
    BY <2>1, <2>3, <2>7 DEF TypeOK, queueVars, paramsVars
  <2>5. Basic'
    BY <2>1, <2>2 DEF Basic, queueVars
  <2>6. QED
    BY <2>4, <2>5
<1>7. CASE ParamsFlush
  <2>1. thread = "params" /\ thread' \in {"recv", "final"}
        /\ UNCHANGED <<queueVars, nParams, inHand, fragsLeft, closing, ws, closes>>
    BY <1>7 DEF ParamsFlush, Goto
  <2>2. \/ UNCHANGED <<latestParams, wire>>
        \/ latestParams' = Nothing /\ wire' = wire
        \/ latestParams \in Params /\ latestParams' = Nothing /\ wire' = Append(wire, latestParams)
    BY <1>7 DEF ParamsFlush, TypeOK
  <2>3. wire' \in Seq(Frames) /\ latestParams' \in Params \cup {Nothing}
    BY <2>2, FramesAre, Written DEF TypeOK
  <2>4. TypeOK'
    BY <2>1, <2>3 DEF TypeOK, States, queueVars
  <2>5. Basic'
    BY <2>1 DEF Basic, queueVars
  <2>6. QED
    BY <2>4, <2>5
<1>8. CASE Finish \/ Unset
  <2>1. /\ thread' \in States /\ closes' \in 0..1
        /\ UNCHANGED <<queueVars, paramsVars, sendVars, closing>>
    BY <1>8 DEF Finish, Unset, Goto, States, Basic, TypeOK
  <2>2. ws' \in BOOLEAN
    BY <1>8 DEF Finish, Unset, TypeOK
  <2>3. TypeOK'
    BY <2>1, <2>2 DEF TypeOK, queueVars, paramsVars, sendVars
  <2>4. Basic'
    BY <1>8 DEF Finish, Unset, Goto, Basic, queueVars, sendVars
  <2>5. QED
    BY <2>3, <2>4
<1>9. QED
  BY <1>1, <1>2, <1>3, <1>4, <1>5, <1>6, <1>7, <1>8 DEF RecvThread

LEMMA TypeStep == TypeInv /\ [Next]_vars => TypeInv'
<1>1. ASSUME TypeInv, UNCHANGED vars PROVE TypeInv'
  BY <1>1 DEF vars, queueVars, paramsVars, sendVars, connVars, TypeInv, TypeOK, Basic
<1>2. QED
  BY <1>1, TypeCallers, TypeRecv DEF Next

\* Every variable of the client keeps its type; the queue never holds more than
\* its capacity, and on_close is called once at most.
THEOREM TypeCorrect == Spec => []TypeOK
<1>1. TypeInv => TypeOK
  BY DEF TypeInv
<1>2. QED
  BY <1>1, TypeInit, TypeStep, PTL DEF Spec

-----------------------------------------------------------------------------
(* Sequences of numbered messages *)

LEMMA AppendInOrder ==
  ASSUME NEW w \in Seq(Frames), NEW m \in Frames, InOrder(w), Above(w, m)
  PROVE  InOrder(Append(w, m))
<1> DEFINE v == Append(w, m)
<1>1. /\ DOMAIN v = 1 .. Len(w) + 1 /\ DOMAIN w = 1 .. Len(w) /\ Len(w) \in Nat
      /\ \A i \in 1 .. Len(w) : v[i] = w[i]
      /\ v[Len(w) + 1] = m
  BY Written
<1> HIDE DEF v
<1> SUFFICES ASSUME NEW i \in DOMAIN v, NEW j \in DOMAIN v, i < j, v[i][1] = v[j][1]
             PROVE  v[i][2] < v[j][2]
  BY DEF InOrder, v
<1>2. i \in 1 .. Len(w) /\ v[i] = w[i]
  BY <1>1
<1>3. CASE j \in 1 .. Len(w)
  BY <1>1, <1>2, <1>3 DEF InOrder
<1>4. CASE j = Len(w) + 1
  BY <1>1, <1>2, <1>4 DEF Above
<1>5. QED
  BY <1>1, <1>3, <1>4

LEMMA AppendAbove ==
  ASSUME NEW w \in Seq(Frames), NEW m \in Frames, NEW x, Above(w, x),
         m[1] = x[1] => m[2] < x[2]
  PROVE  Above(Append(w, m), x)
<1>1. \A i \in 1 .. Len(w) + 1 : i \in 1 .. Len(w) \/ i = Len(w) + 1
  BY Written
<1>2. QED
  BY <1>1, Written DEF Above

LEMMA AppendAscending ==
  ASSUME NEW q \in Seq(Messages), NEW m \in Messages, Ascending(q),
         \A i \in DOMAIN q : q[i][2] < m[2]
  PROVE  Ascending(Append(q, m))
<1> DEFINE v == Append(q, m)
<1>1. /\ DOMAIN v = 1 .. Len(q) + 1 /\ DOMAIN q = 1 .. Len(q) /\ Len(q) \in Nat
      /\ \A i \in 1 .. Len(q) : v[i] = q[i]
      /\ v[Len(q) + 1] = m
  BY Written
<1> HIDE DEF v
<1> SUFFICES ASSUME NEW i \in DOMAIN v, NEW j \in DOMAIN v, i < j PROVE v[i][2] < v[j][2]
  BY DEF Ascending, v
<1>2. i \in 1 .. Len(q) /\ v[i] = q[i]
  BY <1>1
<1>3. CASE j \in 1 .. Len(q)
  BY <1>1, <1>2, <1>3 DEF Ascending
<1>4. CASE j = Len(q) + 1
  BY <1>1, <1>2, <1>4
<1>5. QED
  BY <1>1, <1>3, <1>4

LEMMA TailIs ==
  ASSUME NEW q \in Seq(Messages), q # << >>
  PROVE  /\ Tail(q) \in Seq(Messages) /\ Head(q) \in Messages /\ Head(q) = q[1]
         /\ Len(q) \in Nat \ {0} /\ DOMAIN q = 1 .. Len(q) /\ DOMAIN Tail(q) = 1 .. Len(q) - 1
         /\ \A i \in 1 .. Len(q) - 1 : Tail(q)[i] = q[i + 1]
OBVIOUS

LEMMA TailAscending ==
  ASSUME NEW q \in Seq(Messages), q # << >>, Ascending(q)
  PROVE  Ascending(Tail(q)) /\ Before(Head(q), Tail(q))
<1>1. \A i \in 1 .. Len(q) - 1 : 1 \in DOMAIN q /\ i + 1 \in DOMAIN q /\ 1 < i + 1
  BY TailIs
<1>2. Before(Head(q), Tail(q))
  BY <1>1, TailIs DEF Ascending, Before
<1>3. \A i, j \in 1 .. Len(q) - 1 : i < j => i + 1 < j + 1
  BY TailIs
<1>4. Ascending(Tail(q))
  BY <1>1, <1>3, TailIs DEF Ascending
<1>5. QED
  BY <1>2, <1>4

-----------------------------------------------------------------------------
(* The order on the wire *)

LEMMA OrderInit == Init => OrderInv
<1> SUFFICES ASSUME Init PROVE OrderInv
  OBVIOUS
<1>1. DOMAIN wire = {} /\ DOMAIN outbound = {}
  BY DEF Init
<1>2. Order /\ Newest
  BY <1>1 DEF Init, Order, Newest, InOrder, Ascending
<1>3. QED
  BY <1>2, TypeInit DEF OrderInv

\* A frame that leaves the queue is the oldest that waits.
LEMMA Oldest ==
  ASSUME OrderInv, NextFrame # Nothing, Taken
  PROVE  /\ NextFrame \in Messages /\ Above(wire, NextFrame) /\ NextFrame[2] <= Top
         /\ outbound' \in Seq(Messages) /\ Ascending(outbound') /\ Before(NextFrame, outbound')
         /\ \A i \in DOMAIN outbound' : Above(wire, outbound'[i]) /\ outbound'[i][2] <= Top
<1> USE DEF OrderInv, TypeInv, Order, Newest
<1>1. /\ NextFrame \in Messages /\ outbound' \in Seq(Messages)
      /\ \/ pendingSend = NextFrame /\ outbound' = outbound
         \/ /\ pendingSend = Nothing /\ outbound # << >>
            /\ NextFrame = Head(outbound) /\ outbound' = Tail(outbound)
  BY NextFrameIs
<1>2. CASE pendingSend = NextFrame /\ outbound' = outbound
  BY <1>1, <1>2
<1>3. CASE /\ pendingSend = Nothing /\ outbound # << >>
           /\ NextFrame = Head(outbound) /\ outbound' = Tail(outbound)
  <2>1. outbound \in Seq(Messages)
    BY DEF TypeOK
  <2>2. 1 \in DOMAIN outbound /\ NextFrame = outbound[1]
    BY <1>3, <2>1, TailIs
  <2>3. \A i \in DOMAIN outbound' : i + 1 \in DOMAIN outbound /\ outbound'[i] = outbound[i + 1]
    BY <1>3, <2>1, TailIs
  <2>4. Ascending(outbound') /\ Before(NextFrame, outbound')
    BY <1>3, <2>1, TailAscending
  <2>5. QED
    BY <1>1, <2>2, <2>3, <2>4
<1>4. QED
  BY <1>1, <1>2, <1>3

\* Written next, it is the newest on the wire and older than what stays queued.
LEMMA OldestWritten ==
  ASSUME OrderInv, NEW m \in Messages, NEW q \in Seq(Messages),
         Above(wire, m), m[2] <= Top, Before(m, q),
         \A i \in DOMAIN q : Above(wire, q[i]),
         wire' = Append(wire, m)
  PROVE  /\ InOrder(wire') /\ \A i \in DOMAIN q : Above(wire', q[i])
         /\ \A i \in DOMAIN wire' : wire'[i][1] = "discrete" => wire'[i][2] <= Top
         /\ \A i \in DOMAIN wire' : wire'[i][1] = "params" => wire'[i][2] <= nParams
         /\ latestParams # Nothing => Above(wire', latestParams)
<1>1. wire \in Seq(Frames) /\ m \in Frames /\ m[1] = "discrete"
  BY FramesAre, Kinds DEF OrderInv, TypeInv, TypeOK
<1>2. InOrder(wire')
  BY <1>1, AppendInOrder DEF OrderInv, Order
<1>3. \A i \in DOMAIN q : Above(wire', q[i])
  BY <1>1, AppendAbove DEF Before
<1>4. \A i \in DOMAIN wire' : wire'[i] = m \/ (i \in DOMAIN wire /\ wire'[i] = wire[i])
  BY <1>1, Written
<1>5. latestParams # Nothing => Above(wire', latestParams)
  <2> SUFFICES ASSUME latestParams # Nothing PROVE Above(wire', latestParams)
    OBVIOUS
  <2>1. latestParams[1] = "params" /\ Above(wire, latestParams)
    BY Kinds DEF OrderInv, TypeInv, TypeOK, Order
  <2>2. QED
    BY <1>1, <2>1, AppendAbove
<1>6. QED
  BY <1>1, <1>2, <1>3, <1>4, <1>5 DEF OrderInv, Newest

\* A step that at most forgets something keeps the order.
LEMMA Forgets ==
  ASSUME OrderInv, UNCHANGED <<outbound, wire, nDiscrete, nParams, evicting>>,
         pendingSend' \in {pendingSend, Nothing}, inHand' \in {inHand, Nothing},
         latestParams' \in {latestParams, Nothing}
  PROVE  Order' /\ Newest'
BY DEF OrderInv, Order, Newest, Top, Above, Before, InOrder, Ascending

LEMMA OrderEnqueue == ASSUME OrderInv, Enqueue PROVE Order' /\ Newest'
<1> USE DEF OrderInv, TypeInv
<1>1. /\ evicting = Nothing /\ nDiscrete \in Nat /\ nDiscrete' = nDiscrete + 1
      /\ UNCHANGED <<pendingSend, inHand, latestParams, wire, nParams>>
  BY DEF Enqueue, TypeOK, paramsVars, sendVars
<1>2. /\ NextMessage \in Messages /\ NextMessage[1] = "discrete" /\ NextMessage[2] = nDiscrete + 1
  BY <1>1, WSClientAssumption DEF Enqueue, NextMessage, Messages, Discrete, TypeOK
<1>3. /\ \A i \in DOMAIN outbound : outbound[i] \in Messages /\ outbound[i][2] \in Nat
                                  /\ outbound[i][2] <= nDiscrete
      /\ \A m \in {pendingSend, inHand} \ {Nothing} : m[2] \in Nat /\ m[2] <= nDiscrete
      /\ \A i \in DOMAIN wire : wire[i][1] = "discrete" => wire[i][2] \in Nat /\ wire[i][2] <= nDiscrete
  <2>1. \A i \in DOMAIN wire : wire[i] \in Messages \cup Params
    BY DEF TypeOK, Frames
  <2>2. \A i \in DOMAIN outbound : outbound[i] \in Messages
    BY DEF TypeOK
  <2>3. \A m \in {pendingSend, inHand} \ {Nothing} : m \in Messages
    BY DEF TypeOK
  <2>4. QED
    BY <1>1, <2>1, <2>2, <2>3, Kinds DEF Newest, Top
<1>4. CASE outbound' = outbound /\ evicting' = Nothing
  <2>1. Order'
    BY <1>1, <1>4 DEF Order
  <2>2. Newest'
    BY <1>1, <1>3, <1>4 DEF Newest, Top
  <2>3. QED
    BY <2>1, <2>2
<1>5. CASE outbound' = outbound /\ evicting' = NextMessage
  <2>1. Order'
    BY <1>1, <1>5 DEF Order
  <2>2. evicting' = Discrete(nDiscrete') /\ evicting' # Nothing
    BY <1>1, <1>2, <1>5, Kinds DEF NextMessage
  <2>3. Top' = nDiscrete
    BY <1>1, <2>2 DEF Top
  <2>4. Newest'
    BY <1>1, <1>3, <1>5, <2>2, <2>3 DEF Newest
  <2>5. QED
    BY <2>1, <2>4
<1>6. CASE outbound' = Append(outbound, NextMessage) /\ evicting' = Nothing
  <2>1. outbound \in Seq(Messages)
    BY DEF TypeOK
  <2>2. Ascending(outbound')
    <3>1. \A i \in DOMAIN outbound : outbound[i][2] < NextMessage[2]
      BY <1>1, <1>2, <1>3
    <3>2. QED
      BY <1>2, <1>6, <2>1, <3>1, AppendAscending DEF Order
  <2>3. \A i \in DOMAIN outbound' :
          outbound'[i] = NextMessage \/ (i \in DOMAIN outbound /\ outbound'[i] = outbound[i])
    BY <1>2, <1>6, <2>1, Written
  <2>4. Above(wire, NextMessage)
    BY <1>1, <1>2, <1>3 DEF Above
  <2>5. \A i \in DOMAIN outbound' : Above(wire, outbound'[i])
    BY <2>3, <2>4 DEF Order
  <2>6. \A m \in {pendingSend, inHand} \ {Nothing} : Before(m, outbound')
    BY <1>1, <1>2, <1>3, <2>3 DEF Order, Before
  <2>7. Order'
    BY <1>1, <2>2, <2>5, <2>6 DEF Order
  <2>8. Newest'
    BY <1>1, <1>2, <1>3, <1>6, <2>3 DEF Newest, Top
  <2>9. QED
    BY <2>7, <2>8
<1>7. QED
  BY <1>1, <1>4, <1>5, <1>6 DEF Enqueue

LEMMA OrderEvict == ASSUME OrderInv, Evict PROVE Order' /\ Newest'
<1> USE DEF OrderInv, TypeInv
<1>1. /\ evicting = Discrete(nDiscrete) /\ evicting \in Messages /\ evicting' = Nothing
      /\ Top = nDiscrete - 1 /\ nDiscrete \in Nat /\ Top' = nDiscrete
      /\ UNCHANGED <<pendingSend, inHand, latestParams, wire, nParams, nDiscrete>>
  BY DEF Evict, TypeOK, Newest, Top, paramsVars, sendVars
<1>2. evicting[1] = "discrete" /\ evicting[2] = nDiscrete
  BY <1>1 DEF Discrete
<1>3. /\ \A i \in DOMAIN outbound : /\ outbound[i] \in Messages /\ outbound[i][2] \in Nat
                                  /\ outbound[i][2] < nDiscrete
      /\ \A m \in {pendingSend, inHand} \ {Nothing} : m[2] \in Nat /\ m[2] < nDiscrete
      /\ \A i \in DOMAIN wire : wire[i][1] = "discrete" => wire[i][2] \in Nat /\ wire[i][2] < nDiscrete
  <2>1. \A i \in DOMAIN wire : wire[i] \in Messages \cup Params
    BY DEF TypeOK, Frames
  <2>2. \A i \in DOMAIN outbound : outbound[i] \in Messages
    BY DEF TypeOK
  <2>3. \A m \in {pendingSend, inHand} \ {Nothing} : m \in Messages
    BY DEF TypeOK
  <2>4. QED
    BY <1>1, <2>1, <2>2, <2>3, Kinds DEF Newest
<1>4. CASE outbound' = outbound
  <2>1. Order'
    BY <1>1, <1>4 DEF Order
  <2>2. Newest'
    BY <1>1, <1>3, <1>4 DEF Newest
  <2>3. QED
    BY <2>1, <2>2
<1>5. CASE outbound # << >> /\ outbound' = Append(Tail(outbound), evicting)
  <2> DEFINE q == Tail(outbound)
  <2>1. outbound \in Seq(Messages) /\ q \in Seq(Messages) /\ Ascending(q)
    BY <1>5, TailIs, TailAscending DEF TypeOK, Order
  <2>2. \A i \in DOMAIN q : \E j \in DOMAIN outbound : q[i] = outbound[j]
    <3>1. \A i \in DOMAIN q : i + 1 \in DOMAIN outbound /\ q[i] = outbound[i + 1]
      BY <1>5, <2>1, TailIs
    <3>2. QED
      BY <3>1
  <2> HIDE DEF q
  <2>3. Ascending(outbound')
    <3>1. \A i \in DOMAIN q : q[i][2] < evicting[2]
      BY <1>2, <1>3, <2>2
    <3>2. QED
      BY <1>1, <1>5, <2>1, <3>1, AppendAscending DEF q
  <2>4. \A i \in DOMAIN outbound' :
          outbound'[i] = evicting \/ \E j \in DOMAIN outbound : outbound'[i] = outbound[j]
    <3>1. \A i \in DOMAIN outbound' : outbound'[i] = evicting \/ (i \in DOMAIN q /\ outbound'[i] = q[i])
      BY <1>1, <1>5, <2>1, Written DEF q
    <3>2. QED
      BY <2>2, <3>1
  <2>5. Above(wire, evicting)
    BY <1>2, <1>3 DEF Above
  <2>6. \A i \in DOMAIN outbound' : Above(wire, outbound'[i])
    BY <2>4, <2>5 DEF Order
  <2>7. \A m \in {pendingSend, inHand} \ {Nothing} : Before(m, outbound')
    BY <1>2, <1>3, <2>4 DEF Order, Before
  <2>8. Order'
    BY <1>1, <2>3, <2>6, <2>7 DEF Order
  <2>9. Newest'
    BY <1>1, <1>2, <1>3, <2>4 DEF Newest
  <2>10. QED
    BY <2>8, <2>9
<1>6. QED
  BY <1>4, <1>5 DEF Evict

LEMMA OrderSendParams == ASSUME OrderInv, SendParams PROVE Order' /\ Newest'
<1> USE DEF OrderInv, TypeInv
<1>1. /\ nParams \in Nat /\ nParams' = nParams + 1
      /\ UNCHANGED <<outbound, pendingSend, evicting, nDiscrete, inHand, wire>>
      /\ latestParams' = latestParams \/ latestParams' = ParamsMsg(nParams + 1)
  BY DEF SendParams, TypeOK, queueVars, sendVars
<1>2. \A i \in DOMAIN wire : wire[i][1] = "params" => wire[i][2] \in Nat /\ wire[i][2] <= nParams
  <2>1. \A i \in DOMAIN wire : wire[i] \in Messages \cup Params
    BY DEF TypeOK, Frames
  <2>2. QED
    BY <2>1, Kinds DEF Newest
<1>3. latestParams # Nothing => latestParams[2] \in Nat /\ latestParams[2] <= nParams
  BY Kinds DEF TypeOK, Newest
<1>4. Above(wire, ParamsMsg(nParams + 1)) /\ ParamsMsg(nParams + 1)[2] = nParams + 1
  BY <1>1, <1>2 DEF Above, ParamsMsg
<1>5. Order'
  BY <1>1, <1>4 DEF Order
<1>6. Newest'
  BY <1>1, <1>2, <1>3, <1>4 DEF Newest, Top
<1>7. QED
  BY <1>5, <1>6

LEMMA OrderFifo == ASSUME OrderInv, FifoDefer \/ FifoWrite PROVE Order' /\ Newest'
<1> USE DEF OrderInv, TypeInv
<1>1. /\ NextFrame # Nothing /\ Taken /\ inHand = Nothing
      /\ UNCHANGED <<evicting, nDiscrete, latestParams, nParams>>
  BY DEF FifoDefer, FifoWrite, Basic, paramsVars
<1>2. Top' = Top
  BY <1>1 DEF Top
<1>3. CASE /\ wire' = wire
           /\ \/ pendingSend' = NextFrame /\ inHand' = Nothing
              \/ pendingSend' = Nothing /\ inHand' = NextFrame
              \/ pendingSend' = Nothing /\ inHand' = Nothing
  <2>1. Order'
    BY <1>1, <1>3, Oldest DEF Order
  <2>2. Newest'
    BY <1>1, <1>2, <1>3, Oldest DEF Newest
  <2>3. QED
    BY <2>1, <2>2
<1>4. CASE wire' = Append(wire, NextFrame) /\ pendingSend' = Nothing /\ inHand' = Nothing
  <2>1. /\ InOrder(wire') /\ \A i \in DOMAIN outbound' : Above(wire', outbound'[i])
        /\ \A i \in DOMAIN wire' : wire'[i][1] = "discrete" => wire'[i][2] <= Top
        /\ \A i \in DOMAIN wire' : wire'[i][1] = "params" => wire'[i][2] <= nParams
        /\ latestParams # Nothing => Above(wire', latestParams)
    BY <1>1, <1>4, Oldest, OldestWritten
  <2>2. Order'
    BY <1>1, <1>4, <2>1, Oldest DEF Order
  <2>3. Newest'
    BY <1>1, <1>2, <1>4, <2>1, Oldest DEF Newest
  <2>4. QED
    BY <2>2, <2>3
<1>5. QED
  BY <1>1, <1>3, <1>4 DEF FifoDefer, FifoWrite, sendVars

LEMMA OrderFragment == ASSUME OrderInv, Fragment PROVE Order' /\ Newest'
<1> USE DEF OrderInv, TypeInv
<1>1. inHand \in Messages /\ inHand # Nothing /\ pendingSend = Nothing
      /\ UNCHANGED <<outbound, pendingSend, evicting, nDiscrete, latestParams, nParams>>
  BY DEF Fragment, Basic, TypeOK, queueVars, paramsVars
<1>2. CASE wire' = wire /\ inHand' \in {inHand, Nothing}
  BY <1>1, <1>2, Forgets
<1>3. CASE wire' = Append(wire, inHand) /\ inHand' = Nothing
  <2>1. Above(wire, inHand) /\ Before(inHand, outbound) /\ inHand[2] <= Top
        /\ outbound \in Seq(Messages) /\ \A i \in DOMAIN outbound : Above(wire, outbound[i])
    BY <1>1 DEF Order, Newest, TypeOK
  <2>2. /\ InOrder(wire') /\ \A i \in DOMAIN outbound : Above(wire', outbound[i])
        /\ \A i \in DOMAIN wire' : wire'[i][1] = "discrete" => wire'[i][2] <= Top
        /\ \A i \in DOMAIN wire' : wire'[i][1] = "params" => wire'[i][2] <= nParams
        /\ latestParams # Nothing => Above(wire', latestParams)
    BY <1>1, <1>3, <2>1, OldestWritten
  <2>3. Order'
    BY <1>1, <1>3, <2>2 DEF Order
  <2>4. Newest'
    BY <1>1, <1>3, <2>2 DEF Newest, Top
  <2>5. QED
    BY <2>3, <2>4
<1>4. QED
  BY <1>2, <1>3 DEF Fragment

LEMMA OrderParamsFlush == ASSUME OrderInv, ParamsFlush PROVE Order' /\ Newest'
<1> USE DEF OrderInv, TypeInv
<1>1. UNCHANGED <<outbound, pendingSend, evicting, nDiscrete, inHand, nParams>>
  BY DEF ParamsFlush, queueVars
<1>2. CASE wire' = wire /\ latestParams' \in {latestParams, Nothing}
  BY <1>1, <1>2, Forgets
<1>3. CASE latestParams # Nothing /\ latestParams' = Nothing /\ wire' = Append(wire, latestParams)
  <2>1. /\ latestParams \in Params /\ latestParams[1] = "params" /\ latestParams \in Frames
        /\ wire \in Seq(Frames) /\ Above(wire, latestParams) /\ latestParams[2] <= nParams
    BY <1>3, Kinds, FramesAre DEF TypeOK, Order, Newest
  <2>2. InOrder(wire')
    BY <1>3, <2>1, AppendInOrder DEF Order
  <2>3. \A m \in Messages : Above(wire, m) => Above(wire', m)
    BY <1>3, <2>1, Kinds, AppendAbove
  <2>4. \A i \in DOMAIN wire' : wire'[i] = latestParams \/ (i \in DOMAIN wire /\ wire'[i] = wire[i])
    BY <1>3, <2>1, Written
  <2>5. /\ \A i \in DOMAIN outbound : outbound[i] \in Messages
        /\ \A m \in {pendingSend, inHand} \ {Nothing} : m \in Messages
    BY DEF TypeOK
  <2>6. Order'
    BY <1>1, <1>3, <2>2, <2>3, <2>5 DEF Order
  <2>7. Newest'
    BY <1>1, <1>3, <2>1, <2>4 DEF Newest, Top
  <2>8. QED
    BY <2>6, <2>7
<1>4. QED
  BY <1>2, <1>3 DEF ParamsFlush

LEMMA OrderStep == OrderInv /\ [Next]_vars => OrderInv'
<1> SUFFICES ASSUME OrderInv, [Next]_vars PROVE Order' /\ Newest'
  BY TypeStep DEF OrderInv
<1>1. CASE \/ UNCHANGED vars \/ Connect \/ Close \/ Reset \/ Dial \/ LoopTop \/ FifoEmpty
           \/ Recv \/ Finish \/ Unset
  <2>1. /\ UNCHANGED <<outbound, wire, nDiscrete, nParams, evicting, inHand>>
        /\ pendingSend' \in {pendingSend, Nothing} /\ latestParams' \in {latestParams, Nothing}
    BY <1>1 DEF vars, Connect, Close, Reset, Dial, LoopTop, FifoEmpty, Recv, Finish, Unset,
                queueVars, paramsVars, sendVars
  <2>2. QED
    BY <2>1, Forgets
<1>2. QED
  BY <1>1, OrderEnqueue, OrderEvict, OrderSendParams, OrderFifo, OrderFragment, OrderParamsFlush
     DEF Next, RecvThread

\* The wire carries discrete messages in the order of the calls, none twice, and
\* params that only get newer, through eviction, deferral and fragmentation.
THEOREM WireInOrderAlways == Spec => []WireInOrder
<1>1. OrderInv => WireInOrder
  BY DEF OrderInv, Order, InOrder, WireInOrder
<1>2. QED
  BY <1>1, OrderInit, OrderStep, PTL DEF Spec

-----------------------------------------------------------------------------
(* No message is lost *)

Elems(q) == {q[i] : i \in DOMAIN q}

LEMMA AppendElems ==
  ASSUME NEW S, NEW q \in Seq(S), NEW m \in S
  PROVE  Elems(Append(q, m)) = Elems(q) \cup {m}
<1>1. \A i \in 1 .. Len(q) + 1 : i \in 1 .. Len(q) \/ i = Len(q) + 1
  BY Written
<1>2. 1 .. Len(q) \subseteq 1 .. Len(q) + 1 /\ Len(q) + 1 \in 1 .. Len(q) + 1
  BY Written
<1>3. QED
  BY <1>1, <1>2, Written DEF Elems

LEMMA TailElems ==
  ASSUME NEW q \in Seq(Messages), q # << >>
  PROVE  Elems(q) = Elems(Tail(q)) \cup {Head(q)}
<1>1. \A i \in DOMAIN q : i = 1 \/ (i - 1 \in DOMAIN Tail(q) /\ Tail(q)[i - 1] = q[i])
  BY TailIs
<1>2. \A i \in DOMAIN Tail(q) : i + 1 \in DOMAIN q /\ Tail(q)[i] = q[i + 1]
  BY TailIs
<1>3. 1 \in DOMAIN q /\ Head(q) = q[1]
  BY TailIs
<1>4. QED
  BY <1>1, <1>2, <1>3 DEF Elems

\* A message waits in the queue or in a slot of its own, or is on the wire.
Held == Elems(outbound) \cup ({pendingSend, inHand} \ {Nothing}) \cup Elems(wire)

LEMMA NoneLostIs == NoneLost <=> (Running => accepted \ evicted \subseteq Held)
BY DEF NoneLost, Held, Waiting, OnWire, Elems

\* What is taken off the queue is still held wherever it goes.
LEMMA TakenHeld ==
  ASSUME TypeInv, NextFrame # Nothing, Taken, inHand = Nothing
  PROVE  Held \subseteq Elems(outbound') \cup {NextFrame} \cup Elems(wire)
<1>1. outbound \in Seq(Messages)
  BY DEF TypeInv, TypeOK
<1>2. CASE pendingSend = NextFrame /\ outbound' = outbound
  BY <1>2 DEF Held
<1>3. CASE /\ pendingSend = Nothing /\ outbound # << >>
           /\ NextFrame = Head(outbound) /\ outbound' = Tail(outbound)
  <2>1. Elems(outbound) = Elems(outbound') \cup {NextFrame}
    BY <1>1, <1>3, TailElems
  <2>2. QED
    BY <1>3, <2>1 DEF Held
<1>4. QED
  BY <1>2, <1>3, NextFrameIs DEF TypeInv

LEMMA LostStep == TypeInv /\ NoneLost /\ [Next]_vars => NoneLost'
<1> SUFFICES ASSUME TypeInv, NoneLost, [Next]_vars, Running'
             PROVE  accepted' \ evicted' \subseteq Held'
  BY DEF NoneLost, Held, Waiting, OnWire, Elems
<1>1. CASE /\ UNCHANGED <<outbound, pendingSend, inHand, wire, accepted, evicted>>
           /\ Running
  BY <1>1, NoneLostIs DEF Held
<1>2. CASE \/ UNCHANGED vars \/ Connect \/ Close \/ SendParams \/ Dial \/ LoopTop \/ FifoEmpty
           \/ Recv \/ Finish \/ Unset
  <2>1. /\ UNCHANGED <<outbound, pendingSend, inHand, wire, accepted, evicted>>
        /\ Running
    BY <1>2 DEF vars, Connect, Close, SendParams, Dial, LoopTop, FifoEmpty, Recv, Finish, Unset,
                queueVars, paramsVars, sendVars, connVars, Goto, Running
  <2>2. QED
    BY <1>1, <2>1
<1>3. CASE Enqueue
  <2>1. Running /\ UNCHANGED <<pendingSend, inHand, wire, evicted>>
    BY <1>3 DEF Enqueue, sendVars, connVars, Running
  <2>2. outbound \in Seq(Messages) /\ NextMessage \in Messages
    <3>1. nDiscrete + 1 \in 1..MaxDiscrete
      BY <1>3, WSClientAssumption DEF Enqueue, TypeInv, TypeOK
    <3>2. QED
      BY <3>1 DEF TypeInv, TypeOK, NextMessage, Messages
  <2>3. Elems(Append(outbound, NextMessage)) = Elems(outbound) \cup {NextMessage}
    BY <2>2, AppendElems
  <2>4. QED
    BY <1>3, <2>1, <2>3, NoneLostIs DEF Enqueue, Held
<1>4. CASE Evict
  <2>1. Running /\ UNCHANGED <<pendingSend, inHand, wire>>
    BY <1>4 DEF Evict, sendVars, connVars, Running
  <2>2. CASE outbound = << >>
    BY <1>4, <2>1, <2>2, NoneLostIs DEF Evict, Held
  <2>3. CASE outbound # << >>
    <3>1. /\ outbound \in Seq(Messages) /\ Tail(outbound) \in Seq(Messages) /\ evicting \in Messages
      BY <1>4, <2>3, TailIs DEF Evict, TypeInv, TypeOK
    <3>2. Elems(outbound) = Elems(Tail(outbound)) \cup {Head(outbound)}
      BY <2>3, <3>1, TailElems
    <3>3. Elems(Append(Tail(outbound), evicting)) = Elems(Tail(outbound)) \cup {evicting}
      <4>1. \A q \in Seq(Messages) : \A m \in Messages : Elems(Append(q, m)) = Elems(q) \cup {m}
        BY AppendElems
      <4>2. QED
        BY <3>1, <4>1, Zenon
    <3>4. QED
      BY <1>4, <2>1, <2>3, <3>2, <3>3, NoneLostIs DEF Evict, Held
  <2>4. QED
    BY <2>2, <2>3
<1>5. CASE Reset
  BY <1>5 DEF Reset, TypeInv, Basic
<1>6. CASE FifoDefer \/ FifoWrite
  <2>1. /\ Running /\ NextFrame # Nothing /\ Taken /\ inHand = Nothing
        /\ UNCHANGED <<accepted, evicted>>
    BY <1>6 DEF FifoDefer, FifoWrite, Running, TypeInv, Basic
  <2>2. wire \in Seq(Frames) /\ NextFrame \in Frames
    BY <2>1, NextFrameIs, FramesAre DEF TypeInv, TypeOK
  <2>3. Elems(Append(wire, NextFrame)) = Elems(wire) \cup {NextFrame}
    BY <2>2, AppendElems
  <2>4. \/ wire' = wire /\ (pendingSend' = NextFrame \/ inHand' = NextFrame)
        \/ wire' = Append(wire, NextFrame)
    BY <1>6 DEF FifoDefer, FifoWrite, Goto, Running, sendVars
  <2>5. Elems(outbound') \cup {NextFrame} \cup Elems(wire) \subseteq Held'
    BY <2>1, <2>3, <2>4 DEF Held
  <2>6. QED
    BY <2>1, <2>5, TakenHeld, NoneLostIs
<1>7. CASE Fragment
  <2>1. /\ Running /\ UNCHANGED <<outbound, pendingSend, accepted, evicted>>
        /\ wire \in Seq(Frames) /\ inHand \in Frames
    BY <1>7, FramesAre DEF Fragment, Running, TypeInv, TypeOK, Basic, queueVars
  <2>2. Elems(Append(wire, inHand)) = Elems(wire) \cup {inHand}
    BY <2>1, AppendElems
  <2>3. UNCHANGED <<inHand, wire>> \/ wire' = Append(wire, inHand)
    BY <1>7 DEF Fragment, Goto, Running
  <2>4. Held \subseteq Held'
    BY <2>1, <2>2, <2>3 DEF Held
  <2>5. QED
    BY <2>1, <2>4, NoneLostIs
<1>8. CASE ParamsFlush
  <2>1. /\ Running /\ UNCHANGED <<outbound, pendingSend, inHand, accepted, evicted>>
        /\ wire \in Seq(Frames)
    BY <1>8 DEF ParamsFlush, Running, TypeInv, TypeOK, queueVars
  <2>2. wire' = wire \/ (latestParams \in Frames /\ wire' = Append(wire, latestParams))
    BY <1>8, FramesAre DEF ParamsFlush, TypeInv, TypeOK
  <2>3. Elems(wire) \subseteq Elems(wire')
    <3>1. CASE wire' = wire
      BY <3>1
    <3>2. CASE latestParams \in Frames /\ wire' = Append(wire, latestParams)
      <4>1. Elems(Append(wire, latestParams)) = Elems(wire) \cup {latestParams}
        BY <2>1, <3>2, AppendElems
      <4>2. QED
        BY <3>2, <4>1
    <3>3. QED
      BY <2>2, <3>1, <3>2
  <2>4. QED
    BY <2>1, <2>3, NoneLostIs DEF Held
<1>9. QED
  BY <1>2, <1>3, <1>4, <1>5, <1>6, <1>7, <1>8 DEF Next, RecvThread

\* Backpressure, deferral and fragmentation lose no accepted message that
\* eviction spared, as long as the thread runs.
THEOREM NoneLostAlways == Spec => []NoneLost
<1>1. Init => NoneLost
  BY DEF Init, NoneLost
<1>2. QED
  BY <1>1, TypeInit, TypeStep, LostStep, PTL DEF Spec
-----------------------------------------------------------------------------
(***************************************************************************)
(* WSClient implements Channel, for any capacity and messages of any size: *)
(* the stream of the abstract channel is the message in hand or deferred,  *)
(* followed by the queue.  At most one message has left the queue, so every *)
(* step of the client is a step of the channel or changes nothing in it.   *)
(***************************************************************************)

\* The message that has left the queue, if there is one, as a sequence.
Lead   == Some(inHand) \o Some(pendingSend)
Stream == Lead \o outbound

-----------------------------------------------------------------------------
(* Sequences *)

LEMMA AppendBehind ==
  ASSUME NEW f \in Seq(Messages), NEW q \in Seq(Messages), NEW m \in Messages
  PROVE  Append(f \o q, m) = f \o Append(q, m)
<1>1. f \o q \in Seq(Messages) /\ <<m>> \in Seq(Messages)
  BY ConcatProperties
<1>2. Append(f \o q, m) = (f \o q) \o <<m>> /\ Append(q, m) = q \o <<m>>
  BY <1>1, AppendIsConcat
<1>3. QED
  BY <1>1, <1>2, ConcatAssociative

\* Without its first element behind f, f \o q is f \o Tail(q).
LEMMA RemoveBehind ==
  ASSUME NEW f \in Seq(Messages), NEW q \in Seq(Messages), q # << >>
  PROVE  /\ Len(f) + 1 \in DOMAIN (f \o q)
         /\ ChannelSpec!RemoveAt(f \o q, Len(f) + 1) = f \o Tail(q)
<1> DEFINE s == f \o q
           n == Len(f)
           k == Len(q)
<1>1. /\ s \in Seq(Messages) /\ Len(s) = n + k /\ n \in Nat /\ k \in Nat \ {0}
      /\ DOMAIN s = 1 .. n + k
  BY ConcatProperties, LenProperties, EmptySeq
<1>2. SubSeq(s, 1, n) = f
  BY <1>1, SubSeqOfConcat1, SubSeqFull
<1>3. SubSeq(s, n + 2, n + k) = SubSeq(q, 2, k)
  BY <1>1, SubSeqOfConcat2
<1>4. SubSeq(q, 2, k) = Tail(q)
  BY TailIsSubSeq
<1>5. n + 1 \in DOMAIN s /\ (n + 1) - 1 = n /\ (n + 1) + 1 = n + 2
  BY <1>1
<1> HIDE DEF s, n, k
<1>6. ChannelSpec!RemoveAt(s, n + 1) = f \o Tail(q)
  BY <1>1, <1>2, <1>3, <1>4, <1>5, Zenon DEF ChannelSpec!RemoveAt
<1>7. QED
  BY <1>5, <1>6 DEF s, n

LEMMA FirstOf ==
  ASSUME NEW m \in Messages, NEW q \in Seq(Messages)
  PROVE  /\ <<m>> \o q \in Seq(Messages) /\ <<m>> \o q # << >>
         /\ Head(<<m>> \o q) = m /\ Tail(<<m>> \o q) = q
OBVIOUS

LEMMA HeadAndTail ==
  ASSUME NEW q \in Seq(Messages), q # << >>
  PROVE  <<Head(q)>> \o Tail(q) = q
OBVIOUS

LEMMA NothingForgotten ==
  ASSUME NEW s \in Seq(Messages)
  PROVE  0 \in 0..Len(s) /\ SubSeq(s, 0 + 1, Len(s)) = s
BY SubSeqFull, LenProperties

LEMMA FirstForgotten ==
  ASSUME NEW s \in Seq(Messages), s # << >>
  PROVE  1 \in 0..Len(s) /\ SubSeq(s, 1 + 1, Len(s)) = Tail(s)
BY TailIsSubSeq, EmptySeq

-----------------------------------------------------------------------------
(* Steps *)

\* Between two steps at most one message is out of the queue.
LEMMA LeadIs ==
  ASSUME TypeInv
  PROVE  /\ Lead \in Seq(Messages) /\ outbound \in Seq(Messages) /\ Stream \in Seq(Messages)
         /\ inHand = Nothing /\ pendingSend = Nothing => Lead = << >>
         /\ inHand # Nothing => inHand \in Messages /\ Lead = <<inHand>>
         /\ inHand = Nothing /\ pendingSend # Nothing =>
              pendingSend \in Messages /\ Lead = <<pendingSend>>
<1>1. outbound \in Seq(Messages) /\ inHand \in Messages \cup {Nothing}
      /\ pendingSend \in Messages \cup {Nothing} /\ (inHand # Nothing => pendingSend = Nothing)
  BY DEF TypeInv, TypeOK, Basic
<1>2. Some(Nothing) = << >> /\ \A m \in Messages : Some(m) = <<m>>
  BY Kinds DEF Some
<1>3. << >> \o << >> = << >> /\ \A m \in Messages : <<m>> \o << >> = <<m>> /\ << >> \o <<m>> = <<m>>
  OBVIOUS
<1>4. /\ inHand = Nothing /\ pendingSend = Nothing => Lead = << >>
      /\ inHand # Nothing => inHand \in Messages /\ Lead = <<inHand>>
      /\ inHand = Nothing /\ pendingSend # Nothing =>
           pendingSend \in Messages /\ Lead = <<pendingSend>>
  BY <1>1, <1>2, <1>3 DEF Lead
<1>5. << >> \in Seq(Messages) /\ \A m \in Messages : <<m>> \in Seq(Messages)
  OBVIOUS
<1>6. Lead \in Seq(Messages)
  BY <1>4, <1>5
<1>7. QED
  BY <1>1, <1>4, <1>6, ConcatProperties DEF Stream

\* The stream seen with no message in hand: the next frame is its first element.
LEMMA NextIsFirst ==
  ASSUME TypeInv, inHand = Nothing, NextFrame # Nothing, Taken
  PROVE  /\ NextFrame \in Messages /\ outbound' \in Seq(Messages)
         /\ Stream = <<NextFrame>> \o outbound'
<1>1. CASE pendingSend = NextFrame /\ outbound' = outbound
  BY <1>1, LeadIs DEF Stream
<1>2. CASE /\ pendingSend = Nothing /\ outbound # << >>
           /\ NextFrame = Head(outbound) /\ outbound' = Tail(outbound)
  <2>1. Stream = outbound
    BY <1>2, LeadIs, ConcatEmptySeq DEF Stream
  <2>2. QED
    BY <1>2, <2>1, LeadIs, HeadAndTail
<1>3. NextFrame \in Messages /\ outbound' \in Seq(Messages)
  BY NextFrameIs DEF TypeInv
<1>4. QED
  BY <1>1, <1>2, <1>3, NextFrameIs DEF TypeInv

\* A step of the channel, or none.
Implements == ChannelSpec!Next \/ (Stream' = Stream /\ UNCHANGED <<latestParams, wire>>)

LEMMA DeliverStep ==
  ASSUME NEW m \in Messages, NEW q \in Seq(Messages), Stream = <<m>> \o q, Stream' = q,
         wire' = Append(wire, m), latestParams' = latestParams
  PROVE  Implements
<1>1. Stream # << >> /\ Head(Stream) = m /\ Tail(Stream) = q
  BY FirstOf
<1>2. ChannelSpec!Deliver
  BY <1>1 DEF ChannelSpec!Deliver, Stream, Lead
<1>3. QED
  BY <1>2 DEF Implements, ChannelSpec!Next

LEMMA DropStep ==
  ASSUME NEW m \in Messages, NEW q \in Seq(Messages), Stream = <<m>> \o q, Stream' = q,
         UNCHANGED <<wire, latestParams>>
  PROVE  Implements
<1>1. Stream \in Seq(Messages) /\ Stream # << >> /\ Tail(Stream) = q
  BY FirstOf
<1>2. 1 \in 0..Len(Stream) /\ Stream' = SubSeq(Stream, 1 + 1, Len(Stream))
  BY <1>1, FirstForgotten
<1>3. ChannelSpec!Forget
  BY <1>2 DEF ChannelSpec!Forget, Stream, Lead
<1>4. QED
  BY <1>3 DEF Implements, ChannelSpec!Next

LEMMA KeepsStep ==
  ASSUME TypeInv, Stream' = Stream, latestParams' \in {latestParams, Nothing}, wire' = wire
  PROVE  Implements
<1>1. 0 \in 0..Len(Stream) /\ Stream' = SubSeq(Stream, 0 + 1, Len(Stream))
  BY LeadIs, NothingForgotten
<1>2. ChannelSpec!Forget
  BY <1>1 DEF ChannelSpec!Forget, Stream, Lead
<1>3. QED
  BY <1>2 DEF Implements, ChannelSpec!Next

LEMMA EnqueueImplements == ASSUME TypeInv, Enqueue PROVE Implements
<1>1. UNCHANGED <<pendingSend, inHand, latestParams, wire>>
  BY DEF Enqueue, paramsVars, sendVars
<1>2. Lead' = Lead
  BY <1>1 DEF Lead
<1>3. CASE outbound' = outbound
  BY <1>1, <1>2, <1>3 DEF Implements, Stream
<1>4. CASE outbound' = Append(outbound, NextMessage)
  <2>1. NextMessage \in Messages
    <3>1. nDiscrete + 1 \in 1..MaxDiscrete
      BY WSClientAssumption DEF Enqueue, TypeInv, TypeOK
    <3>2. QED
      BY <3>1 DEF NextMessage, Messages
  <2>2. Stream' = Append(Stream, NextMessage)
    BY <1>2, <1>4, <2>1, LeadIs, AppendBehind DEF Stream
  <2>3. ChannelSpec!Accept(NextMessage)
    BY <1>1, <2>2 DEF ChannelSpec!Accept, Stream, Lead
  <2>4. QED
    BY <2>1, <2>3 DEF Implements, ChannelSpec!Next
<1>5. QED
  BY <1>3, <1>4 DEF Enqueue

LEMMA EvictImplements == ASSUME TypeInv, Evict PROVE Implements
<1>1. UNCHANGED <<pendingSend, inHand, latestParams, wire>> /\ evicting \in Messages
  BY DEF Evict, TypeInv, TypeOK, paramsVars, sendVars
<1>2. Lead' = Lead
  BY <1>1 DEF Lead
<1>3. CASE outbound' = outbound
  BY <1>1, <1>2, <1>3 DEF Implements, Stream
<1>4. CASE outbound # << >> /\ outbound' = Append(Tail(outbound), evicting)
  <2> DEFINE i == Len(Lead) + 1
  <2>1. /\ Lead \in Seq(Messages) /\ outbound \in Seq(Messages) /\ Tail(outbound) \in Seq(Messages)
    BY <1>4, LeadIs, TailIs
  <2>2. i \in DOMAIN Stream /\ ChannelSpec!RemoveAt(Stream, i) = Lead \o Tail(outbound)
    BY <1>4, <2>1, RemoveBehind DEF Stream
  <2> HIDE DEF i
  <2>3. Stream' = Lead \o Append(Tail(outbound), evicting)
    BY <1>2, <1>4 DEF Stream
  <2>4. Append(Lead \o Tail(outbound), evicting) = Lead \o Append(Tail(outbound), evicting)
    BY <1>1, <2>1, AppendBehind
  <2>5. Stream' = Append(ChannelSpec!RemoveAt(Stream, i), evicting)
    BY <2>2, <2>3, <2>4
  <2>6. ChannelSpec!Displace(evicting)
    BY <1>1, <2>2, <2>5 DEF ChannelSpec!Displace, Stream, Lead
  <2>7. QED
    BY <1>1, <2>6 DEF Implements, ChannelSpec!Next
<1>5. QED
  BY <1>3, <1>4 DEF Evict

LEMMA FifoImplements == ASSUME TypeInv, FifoDefer \/ FifoWrite PROVE Implements
<1>1. /\ NextFrame # Nothing /\ Taken /\ inHand = Nothing /\ latestParams' = latestParams
  BY DEF FifoDefer, FifoWrite, TypeInv, Basic, paramsVars
<1>2. /\ NextFrame \in Messages /\ outbound' \in Seq(Messages)
      /\ Stream = <<NextFrame>> \o outbound'
  BY <1>1, NextIsFirst
<1>3. TypeInv'
  BY TypeRecv DEF RecvThread
<1>4. /\ inHand' = Nothing /\ pendingSend' = NextFrame => Lead' = <<NextFrame>>
      /\ inHand' = NextFrame /\ pendingSend' = Nothing => Lead' = <<NextFrame>>
      /\ inHand' = Nothing /\ pendingSend' = Nothing => Lead' = << >>
  <2>1. Some(Nothing) = << >> /\ Some(NextFrame) = <<NextFrame>>
    BY <1>2, Kinds DEF Some
  <2>2. <<NextFrame>> \o << >> = <<NextFrame>> /\ << >> \o <<NextFrame>> = <<NextFrame>>
        /\ << >> \o << >> = << >>
    BY <1>2
  <2>3. QED
    BY <2>1, <2>2 DEF Lead, Some
<1>5. CASE /\ wire' = wire
           /\ \/ inHand' = Nothing /\ pendingSend' = NextFrame
              \/ inHand' = NextFrame /\ pendingSend' = Nothing
  <2>1. Stream' = Stream
    BY <1>2, <1>4, <1>5 DEF Stream
  <2>2. QED
    BY <1>1, <1>5, <2>1 DEF Implements
<1>6. inHand' = Nothing /\ pendingSend' = Nothing => Stream' = outbound'
  BY <1>2, <1>4, ConcatEmptySeq DEF Stream
<1>7. CASE wire' = Append(wire, NextFrame) /\ inHand' = Nothing /\ pendingSend' = Nothing
  BY <1>1, <1>2, <1>6, <1>7, DeliverStep
<1>8. CASE wire' = wire /\ inHand' = Nothing /\ pendingSend' = Nothing
  BY <1>1, <1>2, <1>6, <1>8, DropStep
<1>9. QED
  BY <1>1, <1>5, <1>7, <1>8 DEF FifoDefer, FifoWrite, sendVars

LEMMA FragmentImplements == ASSUME TypeInv, Fragment PROVE Implements
<1>1. /\ inHand \in Messages /\ pendingSend = Nothing /\ outbound \in Seq(Messages)
      /\ UNCHANGED <<outbound, pendingSend, latestParams>>
  BY DEF Fragment, TypeInv, TypeOK, Basic, queueVars, paramsVars
<1>2. Stream = <<inHand>> \o outbound
  BY <1>1, Kinds, LeadIs DEF Stream
<1>3. CASE UNCHANGED <<inHand, wire>>
  BY <1>1, <1>3 DEF Implements, Stream, Lead
<1>4. inHand' = Nothing => Stream' = outbound
  <2>1. Some(Nothing) = << >> /\ << >> \o << >> = << >>
    BY DEF Some
  <2>2. inHand' = Nothing => Lead' = << >>
    BY <1>1, <2>1 DEF Lead, Some
  <2>3. QED
    BY <1>1, <2>2, ConcatEmptySeq DEF Stream
<1>5. CASE wire' = Append(wire, inHand) /\ inHand' = Nothing
  BY <1>1, <1>2, <1>4, <1>5, DeliverStep
<1>6. CASE wire' = wire /\ inHand' = Nothing
  BY <1>1, <1>2, <1>4, <1>6, DropStep
<1>7. QED
  BY <1>3, <1>5, <1>6 DEF Fragment

LEMMA ParamsImplement == ASSUME TypeInv, SendParams \/ ParamsFlush PROVE Implements
<1>1. Stream' = Stream
  BY DEF SendParams, ParamsFlush, queueVars, sendVars, Stream, Lead
<1>2. CASE UNCHANGED <<latestParams, wire>>
  BY <1>1, <1>2 DEF Implements
<1>3. CASE SendParams /\ latestParams' = ParamsMsg(nParams + 1)
  <2>1. ParamsMsg(nParams + 1) \in Params /\ wire' = wire
    <3>1. nParams + 1 \in 1..MaxParams
      BY <1>3, WSClientAssumption DEF SendParams, TypeInv, TypeOK
    <3>2. QED
      BY <1>3, <3>1 DEF SendParams, Params, sendVars
  <2>2. ChannelSpec!Publish(ParamsMsg(nParams + 1))
    BY <1>1, <1>3, <2>1 DEF ChannelSpec!Publish, Stream, Lead
  <2>3. QED
    BY <2>1, <2>2 DEF Implements, ChannelSpec!Next
<1>4. CASE latestParams # Nothing /\ latestParams' = Nothing /\ wire' = Append(wire, latestParams)
  <2>1. ChannelSpec!DeliverParams
    BY <1>1, <1>4 DEF ChannelSpec!DeliverParams, Stream, Lead
  <2>2. QED
    BY <2>1 DEF Implements, ChannelSpec!Next
<1>5. CASE latestParams' = Nothing /\ wire' = wire
  BY <1>1, <1>5, KeepsStep
<1>6. QED
  BY <1>2, <1>3, <1>4, <1>5 DEF SendParams, ParamsFlush, sendVars

LEMMA ResetImplements == ASSUME TypeInv, Reset PROVE Implements
<1>1. /\ inHand = Nothing /\ pendingSend = Nothing /\ UNCHANGED <<outbound, inHand, wire>>
      /\ pendingSend' = Nothing /\ latestParams' = Nothing
  BY DEF Reset, TypeInv, Basic, sendVars
<1>2. Stream' = Stream
  BY <1>1 DEF Stream, Lead
<1>3. QED
  BY <1>1, <1>2, KeepsStep

LEMMA StepImplements == ASSUME TypeInv, [Next]_vars PROVE Implements
<1>1. CASE \/ UNCHANGED vars \/ Connect \/ Close \/ Dial \/ LoopTop \/ FifoEmpty
           \/ Recv \/ Finish \/ Unset
  <2>1. UNCHANGED <<outbound, pendingSend, inHand, latestParams, wire>>
    BY <1>1 DEF vars, Connect, Close, Dial, LoopTop, FifoEmpty, Recv, Finish, Unset,
                queueVars, paramsVars, sendVars
  <2>2. QED
    BY <2>1 DEF Implements, Stream, Lead
<1>2. QED
  BY <1>1, EnqueueImplements, EvictImplements, FifoImplements, FragmentImplements,
     ParamsImplement, ResetImplements DEF Next, RecvThread

\* The client implements the channel it promises: discrete messages reach the
\* wire in the order of their acceptance, at most once, one giving way only to a
\* newer one, and of the params only the newest unsent value counts.
THEOREM ImplementsChannelAlways == Spec => ImplementsChannel
<1>1. Init => ChannelSpec!Init
  <2> SUFFICES ASSUME Init PROVE ChannelSpec!Init
    OBVIOUS
  <2>1. Stream = << >>
    BY DEF Init, Stream, Lead, Some
  <2>2. QED
    BY <2>1 DEF Init, ChannelSpec!Init, Stream, Lead
<1>2. TypeInv /\ [Next]_vars => [ChannelSpec!Next]_(ChannelSpec!vars)
  BY StepImplements DEF Implements, ChannelSpec!vars, Stream, Lead
<1>3. QED
  BY <1>1, <1>2, TypeInit, TypeStep, PTL DEF Spec, ImplementsChannel, ChannelSpec!Spec
=============================================================================
