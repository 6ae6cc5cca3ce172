---------------------------- MODULE QueueProofs ----------------------------
(***************************************************************************)
(* Proofs about QueueHeartbeat, for any number of sessions, extensions,     *)
(* failing calls and presses: one worker thread at most, from it the bound   *)
(* on the answers waiting and the types, and on top of both that a session   *)
(* is parked only if the queue API refused it an extension.                  *)
(*                                                                         *)
(* OneWorker is not inductive: it takes that the thread which runs is the   *)
(* one _hb_worker holds, told to stop or not.  The bound on the queue then   *)
(* follows from where that one thread is in its cycle.                      *)
(*                                                                         *)
(* RefusalsBounded needs a budget: ToCome says how many refusals the        *)
(* current session can still come to without another press or failed call. *)
(* No step lets what was refused and what is to come grow by more than two *)
(* for a press and one for a failed call, and a session starts with three. *)
(***************************************************************************)
EXTENDS QueueHeartbeat, SequenceTheorems, TLAPS

\* The thread that runs is the one self._hb_worker holds.
CurIsAlive == \A t \in Threads : Alive(t) => t = cur

\* What a worker in the middle of a cycle has read, and what it has posted.
Cycle(t) ==
  /\ At(t, "status") => inbound = << >>
  /\ At(t, "pop") \/ At(t, "extend") => Len(inbound) <= 1
  /\ At(t, "status") \/ At(t, "pop") \/ At(t, "extend") => thread[t].sid \in Sessions

Cycles == \A t \in Threads : Cycle(t)

WorkerInv == TypeOK /\ CurIsAlive /\ Cycles

-----------------------------------------------------------------------------
(* Helpers *)

\* The part of TypeOK that is about flags.
Flags ==
  /\ opening \in BOOLEAN /\ connected \in BOOLEAN /\ retry \in BOOLEAN
  /\ flag \in BOOLEAN /\ taint \in BOOLEAN
  /\ backoff \in {"none", "blip", "parked"}

PCs == {"off", "idle", "status", "pop", "extend"}

\* Thread t moves to pc, holding session s; the others stay where they are.
Moves(t, pc, s) ==
  /\ thread' \in [Threads -> ThreadState]
  /\ thread'[t].pc = pc /\ thread'[t].sid = s
  /\ \A u \in Threads : u # t => thread'[u] = thread[u]

LEMMA MovesOf ==
  ASSUME TypeOK, NEW t \in Threads
  PROVE  /\ \A p \in PCs : Goes(t, p) => Moves(t, p, thread[t].sid)
         /\ CycleEnds(t) => Moves(t, "idle", 0)
         /\ thread' = [thread EXCEPT ![t] = Off] => Moves(t, "off", 0)
         /\ thread' = [thread EXCEPT ![t] = [pc |-> "status", sid |-> sid, stop |-> @.stop]]
              => Moves(t, "status", sid)
<1> USE ConstantsAreNat DEF TypeOK, ThreadState
<1>1. ASSUME NEW p \in PCs, Goes(t, p) PROVE Moves(t, p, thread[t].sid)
  BY <1>1 DEF Goes, Moves, PCs
<1>2. CycleEnds(t) => Moves(t, "idle", 0)
  BY DEF CycleEnds, Moves
<1>3. thread' = [thread EXCEPT ![t] = Off] => Moves(t, "off", 0)
  BY DEF Off, Moves
<1>4. thread' = [thread EXCEPT ![t] = [pc |-> "status", sid |-> sid, stop |-> @.stop]] => Moves(t, "status", sid)
  BY DEF Moves
<1>5. QED
  BY <1>1, <1>2, <1>3, <1>4

LEMMA FreshIsState ==
  /\ Off \in ThreadState /\ Fresh \in ThreadState
  /\ Off.pc = "off" /\ Fresh.pc = "idle"
BY ConstantsAreNat DEF Off, Fresh, ThreadState

\* Starting a worker keeps the types, and starts one only where none runs.
LEMMA EnsureWorkerKeeps ==
  ASSUME TypeOK, CurIsAlive, EnsureWorker
  PROVE  /\ thread' \in [Threads -> ThreadState]
         /\ cur' \in {0} \union Threads
         /\ \A t \in Threads : thread'[t].pc # "off" => t = cur'
         /\ \A t \in Threads : thread'[t] = thread[t] \/ thread'[t] = Fresh
<1> USE ConstantsAreNat DEF TypeOK, CurIsAlive, Alive
<1>1. CASE cur # 0 /\ Alive(cur)
  BY <1>1 DEF EnsureWorker
<1>2. CASE ~(cur # 0 /\ Alive(cur))
  <2>1. PICK t \in Threads : ~Alive(t) /\ cur' = t /\ thread' = [thread EXCEPT ![t] = Fresh]
    BY <1>2 DEF EnsureWorker, Free
  <2>2. 0 \notin Threads
    BY DEF Threads
  <2>3. \A u \in Threads : u # t => thread[u].pc = "off"
    BY <1>2, <2>1, <2>2
  <2>4. Fresh \in ThreadState
    BY FreshIsState
  <2>5. QED
    BY <2>1, <2>3, <2>4
<1>3. QED
  BY <1>1, <1>2

\* So the worker's invariants survive it, in a step that leaves the queue alone.
LEMMA EnsureWorkerStep ==
  ASSUME WorkerInv, EnsureWorker, UNCHANGED inbound
  PROVE  CurIsAlive' /\ Cycles'
<1>1. CurIsAlive'
  BY EnsureWorkerKeeps DEF WorkerInv, CurIsAlive, Alive
<1>2. ASSUME NEW t \in Threads PROVE Cycle(t)'
  BY <1>2, EnsureWorkerKeeps DEF WorkerInv, Cycles, Cycle, At, Fresh, Off
<1>3. QED
  BY <1>1, <1>2 DEF Cycles

\* Telling a worker to stop leaves it where it is in its cycle.
LEMMA ToldToStop ==
  ASSUME TypeOK,
         \/ UNCHANGED thread
         \/ thread' = IF cur = 0 THEN thread ELSE [thread EXCEPT ![cur].stop = TRUE]
  PROVE  /\ thread' \in [Threads -> ThreadState]
         /\ \A t \in Threads : thread'[t].pc = thread[t].pc /\ thread'[t].sid = thread[t].sid
<1>1. cur \in {0} \union Threads /\ thread \in [Threads -> ThreadState]
  BY DEF TypeOK
<1>2. CASE UNCHANGED thread
  BY <1>1, <1>2
<1>3. CASE cur # 0 /\ thread' = [thread EXCEPT ![cur].stop = TRUE]
  <2>1. cur \in Threads /\ thread' = [thread EXCEPT ![cur] = [thread[cur] EXCEPT !.stop = TRUE]]
    BY <1>1, <1>3
  <2>2. /\ [thread[cur] EXCEPT !.stop = TRUE] \in ThreadState
        /\ [thread[cur] EXCEPT !.stop = TRUE].pc = thread[cur].pc
        /\ [thread[cur] EXCEPT !.stop = TRUE].sid = thread[cur].sid
    BY <1>1, <2>1 DEF ThreadState
  <2>3. QED
    BY <1>1, <2>1, <2>2
<1>4. QED
  BY <1>2, <1>3

\* The drain loop only shortens the queue.
LEMMA Drained ==
  ASSUME TypeOK, inbound # << >>, inbound' = Tail(inbound)
  PROVE  /\ inbound' \in Seq(Answer) /\ Len(inbound') <= 2
         /\ Len(inbound) <= 1 => Len(inbound') <= 1
         /\ Head(inbound) \in Answer
BY DEF TypeOK

\* The worker adds an answer about the session it read.
LEMMA Posted ==
  ASSUME TypeOK, NEW t \in Threads, thread[t].sid \in Sessions,
         grants' \in [Sessions -> Leases],
         NEW kind \in {"status", "extended", "failed"}, PostEvent(t, kind)
  PROVE  inbound' \in Seq(Answer) /\ Len(inbound') = Len(inbound) + 1
BY DEF TypeOK, PostEvent, Answer

-----------------------------------------------------------------------------
(* One step *)

LEMMA WorkerInit == Init => WorkerInv
<1> SUFFICES ASSUME Init PROVE WorkerInv
  OBVIOUS
<1> USE ConstantsAreNat DEF Init
<1>1. 0 \in Leases /\ [auto |-> FALSE, used |-> 0] \in Context
  BY DEF Leases, Context
<1>2. \A t \in Threads : thread[t] = Off
  OBVIOUS
<1>3. TypeOK
  <2>1. /\ thread \in [Threads -> ThreadState]
        /\ grants \in [Sessions -> Leases] /\ lowered \in [Sessions -> 0 .. MaxExtensions + 1]
        /\ refusals \in [Sessions -> Nat]
    BY <1>1, FreshIsState
  <2>2. Flags
    BY <1>1 DEF Flags
  <2>3. /\ sid \in 0 .. MaxSessions /\ made \in 0 .. MaxSessions
        /\ inbound \in Seq(Answer) /\ Len(inbound) <= 2
        /\ cur \in {0} \union Threads /\ errors \in 0 .. MaxErrors /\ presses \in 0 .. MaxPresses
        /\ switches \in 0 .. MaxSwitches
    OBVIOUS
  <2>4. QED
    BY <1>1, <2>1, <2>2, <2>3 DEF TypeOK, Flags
<1>4. QED
  BY <1>2, <1>3, FreshIsState DEF WorkerInv, CurIsAlive, Cycles, Cycle, Alive, At

\* A join, whoever asks for it.
LEMMA JoinStep ==
  ASSUME WorkerInv, Join,
         connected' \in BOOLEAN, retry' \in BOOLEAN, switches' \in 0 .. MaxSwitches,
         taint' \in BOOLEAN,
         backoff' \in {"none", "blip", "parked"}
  PROVE  WorkerInv'
<1>1. EnsureWorker /\ UNCHANGED inbound
  BY DEF Join
<1>2. 0 \in Leases
  BY ConstantsAreNat DEF Leases
<1>3. TypeOK'
  <2>1. Flags'
    BY DEF Join, Flags
  <2>2. /\ sid' \in 0 .. MaxSessions /\ made' \in 0 .. MaxSessions /\ used' \in Leases
        /\ thread' \in [Threads -> ThreadState] /\ cur' \in {0} \union Threads
    BY <1>1, <1>2, EnsureWorkerKeeps, ConstantsAreNat DEF Join, WorkerInv, TypeOK
  <2>3. QED
    BY <2>1, <2>2 DEF Join, Flags, WorkerInv, TypeOK, server
<1>4. QED
  BY <1>1, <1>3, EnsureWorkerStep DEF WorkerInv

\* A request for an extension.
LEMMA RequestKeeps ==
  ASSUME WorkerInv, NEW auto \in BOOLEAN, NEW u \in Leases, RequestExtend(auto, u)
  PROVE  /\ flag' \in BOOLEAN /\ ctx' \in Context
         /\ UNCHANGED <<thread, cur>> \/ EnsureWorker
<1>1. 0 \in Leases
  BY ConstantsAreNat DEF Leases
<1>2. [auto |-> auto, used |-> IF auto THEN u ELSE 0] \in Context
  BY <1>1 DEF Context
<1>3. QED
  BY <1>2 DEF RequestExtend, WorkerInv, TypeOK

\* An answer is drained.
LEMMA DrainStep == WorkerInv /\ DrainInbound => WorkerInv'
<1> SUFFICES ASSUME WorkerInv, DrainInbound PROVE WorkerInv'
  OBVIOUS
<1> DEFINE e == Head(inbound)
<1>1. /\ inbound' \in Seq(Answer) /\ Len(inbound') <= 2
      /\ Len(inbound) <= 1 => Len(inbound') <= 1
      /\ e \in Answer
  BY Drained DEF DrainInbound, WorkerInv
<1>2. /\ used' \in Leases /\ flag' \in BOOLEAN /\ ctx' \in Context
      /\ backoff' \in {"none", "blip", "parked"} /\ taint' \in BOOLEAN
      /\ UNCHANGED <<thread, cur>> \/ EnsureWorker
  <2>1. Count(e) \in Leases
    BY <1>1 DEF Count, Answer, WorkerInv, TypeOK
  <2>2. CASE ApplyQueueStatus(e)
    BY <2>1, <2>2, RequestKeeps DEF ApplyQueueStatus, WorkerInv, TypeOK
  <2>3. CASE DropQueueStatus(e)
    BY <2>3 DEF DropQueueStatus, main, WorkerInv, TypeOK
  <2>4. CASE ApplyExtendFailure(e)
    BY <2>4 DEF ApplyExtendFailure, WorkerInv, TypeOK
  <2>5. CASE ApplyExtendResult(e)
    BY <2>1, <2>5 DEF ApplyExtendResult, WorkerInv, TypeOK
  <2>6. QED
    BY <2>2, <2>3, <2>4, <2>5 DEF DrainInbound
<1>3. /\ thread' \in [Threads -> ThreadState]
      /\ cur' \in {0} \union Threads
      /\ \A t \in Threads : thread'[t].pc # "off" => t = cur'
      /\ \A t \in Threads : thread'[t] = thread[t] \/ thread'[t] = Fresh
  BY <1>2, EnsureWorkerKeeps DEF WorkerInv, TypeOK, CurIsAlive, Alive
<1>4. TypeOK'
  BY <1>1, <1>2, <1>3 DEF DrainInbound, life, server, WorkerInv, TypeOK
<1>5. CurIsAlive'
  BY <1>3 DEF CurIsAlive, Alive
<1>6. ASSUME NEW t \in Threads PROVE Cycle(t)'
  <2>1. inbound # << >> /\ inbound \in Seq(Answer)
    BY DEF DrainInbound, WorkerInv, TypeOK
  <2>2. QED
    BY <1>1, <1>3, <1>6, <2>1 DEF WorkerInv, Cycles, Cycle, At, Fresh
<1>7. QED
  BY <1>4, <1>5, <1>6 DEF WorkerInv, Cycles

\* The worker takes a step of its cycle.
LEMMA CycleStep ==
  ASSUME WorkerInv, NEW t \in Threads, Worker(t)
  PROVE  WorkerInv'
<1> USE ConstantsAreNat
<1>1. t = cur /\ \A u \in Threads : u # t => thread[u].pc = "off"
  <2>1. thread[t].pc # "off"
    BY DEF Worker, Stops, PollOnce, StatusFails, StatusAnswers, PopExtendFlag, ExtendAnswers,
           ExtendFails, At
  <2>2. QED
    BY <2>1 DEF WorkerInv, CurIsAlive, Alive
\* It suffices to look at the thread itself and at the queue.
<1>2. ASSUME NEW p \in PCs, NEW s \in 0 .. MaxSessions, Moves(t, p, s), cur' = cur,
             p = "status" => inbound' = << >>,
             p \in {"pop", "extend"} => Len(inbound') <= 1,
             p \in {"status", "pop", "extend"} => s \in Sessions
      PROVE  CurIsAlive' /\ Cycles'
  <2>1. \A u \in Threads : u # t => thread'[u].pc = "off"
    BY <1>1, <1>2 DEF Moves
  <2>2. QED
    BY <1>1, <1>2, <2>1 DEF Moves, CurIsAlive, Alive, Cycles, Cycle, At
<1>3. /\ TypeOK /\ Cycle(t) /\ thread[t].sid \in 0 .. MaxSessions
      /\ inbound \in Seq(Answer) /\ Len(inbound) \in Nat /\ Len(inbound) <= 2
  BY LenProperties DEF WorkerInv, Cycles, TypeOK, ThreadState
<1>4. CASE Stops(t)
  <2>1. Moves(t, "off", 0) /\ UNCHANGED inbound
    BY <1>3, <1>4, MovesOf DEF Stops
  <2>2. TypeOK'
    BY <1>3, <1>4, <2>1 DEF Stops, Moves, TypeOK, life, main, server
  <2>3. QED
    BY <1>2, <1>4, <2>1, <2>2 DEF Stops, WorkerInv, PCs
<1>5. CASE PollOnce(t)
  <2>1. Moves(t, "status", sid) /\ inbound' = << >> /\ sid \in Sessions
    <3>1. sid \in Sessions
      BY <1>3, <1>5 DEF PollOnce, TypeOK, Sessions
    <3>2. QED
      BY <1>3, <1>5, <3>1, MovesOf DEF PollOnce
  <2>2. TypeOK'
    BY <1>3, <1>5, <2>1 DEF PollOnce, Moves, TypeOK, life, main, server
  <2>3. QED
    BY <1>2, <1>3, <1>5, <2>1, <2>2 DEF PollOnce, WorkerInv, PCs, TypeOK
<1>6. CASE StatusFails(t)
  <2>1. Moves(t, "idle", 0) /\ UNCHANGED inbound
    BY <1>3, <1>6, MovesOf DEF StatusFails
  <2>2. TypeOK'
    BY <1>3, <1>6, <2>1 DEF StatusFails, Moves, TypeOK, life, main, server
  <2>3. QED
    BY <1>2, <1>6, <2>1, <2>2 DEF StatusFails, WorkerInv, PCs
<1>7. CASE StatusAnswers(t)
  <2>1. Moves(t, "pop", thread[t].sid) /\ thread[t].sid \in Sessions /\ inbound = << >>
    BY <1>3, <1>7, MovesOf DEF StatusAnswers, Cycle, At, PCs
  <2>2. inbound' \in Seq(Answer) /\ Len(inbound') <= 1
    <3>1. CASE UNCHANGED server /\ PostEvent(t, "status")
      <4>1. grants' \in [Sessions -> Leases]
        BY <1>3, <3>1 DEF TypeOK, server
      <4>2. inbound' \in Seq(Answer) /\ Len(inbound') = Len(inbound) + 1
        BY <1>3, <2>1, <3>1, <4>1, Posted
      <4>3. QED
        BY <2>1, <4>2
    <3>2. CASE UNCHANGED inbound
      BY <1>3, <2>1, <3>2
    <3>3. QED
      BY <1>7, <3>1, <3>2 DEF StatusAnswers
  <2>3. TypeOK'
    BY <1>3, <1>7, <2>1, <2>2 DEF StatusAnswers, Moves, TypeOK, life, main, server
  <2>4. QED
    BY <1>2, <1>3, <1>7, <2>1, <2>2, <2>3 DEF StatusAnswers, WorkerInv, PCs
<1>8. CASE PopExtendFlag(t)
  <2>1. /\ Len(inbound) <= 1 /\ thread[t].sid \in Sessions /\ UNCHANGED inbound
        /\ Moves(t, "extend", thread[t].sid) \/ Moves(t, "idle", 0)
    BY <1>3, <1>8, MovesOf DEF PopExtendFlag, Cycle, At, PCs
  <2>2. TypeOK'
    BY <1>3, <1>8, <2>1 DEF PopExtendFlag, Moves, TypeOK, life, main, server
  <2>3. QED
    BY <1>2, <1>3, <1>8, <2>1, <2>2 DEF PopExtendFlag, WorkerInv, PCs
<1>9. CASE ExtendAnswers(t) \/ ExtendFails(t)
  <2>1. Moves(t, "idle", 0) /\ thread[t].sid \in Sessions /\ Len(inbound) <= 1
    BY <1>3, <1>9, MovesOf DEF ExtendAnswers, ExtendFails, Cycle, At
  <2>2. grants' \in [Sessions -> Leases] /\ refusals' \in [Sessions -> Nat]
    <3>1. CASE ExtendAnswers(t)
      <4> DEFINE s == thread[t].sid
      <4>1. s \in Sessions /\ grants \in [Sessions -> Leases] /\ refusals \in [Sessions -> Nat]
        BY <1>3, <2>1 DEF TypeOK
      <4>2. \/ grants[s] < MaxExtensions /\ grants' = [grants EXCEPT ![s] = @ + 1]
               /\ UNCHANGED refusals
            \/ refusals' = [refusals EXCEPT ![s] = @ + 1] /\ UNCHANGED grants
        BY <3>1 DEF ExtendAnswers
      <4>3. QED
        BY <4>1, <4>2 DEF Leases
    <3>2. CASE ExtendFails(t)
      BY <1>3, <3>2 DEF ExtendFails, server, TypeOK
    <3>3. QED
      BY <1>9, <3>1, <3>2
  <2>3. inbound' \in Seq(Answer) /\ Len(inbound') <= 2
    BY <1>3, <1>9, <2>1, <2>2, Posted DEF ExtendAnswers, ExtendFails
  <2>4. TypeOK'
    <3>1. errors' \in 0 .. MaxErrors
      BY <1>3, <1>9 DEF ExtendAnswers, ExtendFails, TypeOK
    <3>2. QED
      BY <1>3, <1>9, <2>1, <2>2, <2>3, <3>1
         DEF ExtendAnswers, ExtendFails, Moves, TypeOK, life, main, server
  <2>5. QED
    BY <1>2, <1>9, <2>1, <2>4 DEF ExtendAnswers, ExtendFails, WorkerInv, PCs
<1>10. QED
  BY <1>4, <1>5, <1>6, <1>7, <1>8, <1>9 DEF Worker

LEMMA WorkerStep == WorkerInv /\ [Next]_vars => WorkerInv'
<1> SUFFICES ASSUME WorkerInv, [Next]_vars PROVE WorkerInv'
  OBVIOUS
<1> USE ConstantsAreNat
<1>1. CASE Connect
  BY <1>1, JoinStep DEF Connect, WorkerInv, TypeOK
<1>2. CASE FailoverTick
  BY <1>2, JoinStep DEF FailoverTick, WorkerInv, TypeOK
<1>3. CASE Opened \/ Closed \/ BlipOver \/ Disconnect \/ SetMode
  <2>1. Flags'
    BY <1>3 DEF Opened, Closed, BlipOver, Disconnect, SetMode, Flags, WorkerInv, TypeOK, main, life
  <2>2. /\ sid' \in 0 .. MaxSessions /\ UNCHANGED <<made, inbound, cur>>
        /\ switches' \in 0 .. MaxSwitches
        /\ thread' \in [Threads -> ThreadState]
        /\ \A t \in Threads : thread'[t].pc = thread[t].pc /\ thread'[t].sid = thread[t].sid
    <3>1. sid' \in {sid, 0} /\ UNCHANGED <<made, inbound, cur>>
      <4>1. CASE Opened \/ BlipOver \/ SetMode
        BY <4>1 DEF Opened, BlipOver, SetMode, life
      <4>2. CASE Closed \/ Disconnect
        BY <4>2 DEF Closed, Disconnect
      <4>3. QED
        BY <1>3, <4>1, <4>2
    <3>2. /\ thread' \in [Threads -> ThreadState]
          /\ \A t \in Threads : thread'[t].pc = thread[t].pc /\ thread'[t].sid = thread[t].sid
      BY <1>3, ToldToStop DEF Opened, Closed, BlipOver, Disconnect, SetMode, WorkerInv
    <3>3. sid \in 0 .. MaxSessions /\ switches \in 0 .. MaxSwitches
      BY DEF WorkerInv, TypeOK
    <3>4. switches' = switches \/ (switches < MaxSwitches /\ switches' = switches + 1)
      BY <1>3 DEF Opened, Closed, BlipOver, Disconnect, SetMode, life
    <3>5. switches' \in 0 .. MaxSwitches
      BY <3>3, <3>4
    <3>6. QED
      BY <3>1, <3>2, <3>3, <3>5
  <2>3. TypeOK'
    BY <1>3, <2>1, <2>2 DEF Opened, Closed, BlipOver, Disconnect, SetMode, Flags, WorkerInv,
                            TypeOK, main, server
  <2>4. QED
    BY <2>2, <2>3 DEF WorkerInv, CurIsAlive, Alive, Cycles, Cycle, At
<1>5. CASE MaybeHeartbeatFromFrame
  <2>1. EnsureWorker /\ UNCHANGED inbound
    BY <1>5 DEF MaybeHeartbeatFromFrame
  <2>2. TypeOK'
    BY <1>5, <2>1, EnsureWorkerKeeps DEF MaybeHeartbeatFromFrame, WorkerInv, TypeOK, life, main, server
  <2>3. QED
    BY <2>1, <2>2, EnsureWorkerStep DEF WorkerInv
<1>6. CASE StillPlaying
  <2>1. /\ flag' \in BOOLEAN /\ ctx' \in Context
        /\ UNCHANGED <<thread, cur>> \/ EnsureWorker
    BY <1>6, RequestKeeps DEF StillPlaying, WorkerInv, TypeOK
  <2>2. UNCHANGED inbound
    BY <1>6 DEF StillPlaying
  <2>3. CASE UNCHANGED <<thread, cur>>
    BY <1>6, <2>1, <2>3 DEF StillPlaying, WorkerInv, TypeOK, CurIsAlive, Alive, Cycles, Cycle, At,
         life, server
  <2>4. CASE EnsureWorker
    <3>1. TypeOK'
      BY <1>6, <2>1, <2>4, EnsureWorkerKeeps DEF StillPlaying, WorkerInv, TypeOK, life, server
    <3>2. QED
      BY <2>2, <2>4, <3>1, EnsureWorkerStep DEF WorkerInv
  <2>5. QED
    BY <2>1, <2>3, <2>4
<1>7. CASE DrainInbound
  BY <1>7, DrainStep
<1>8. CASE \E t \in Threads : Worker(t)
  BY <1>8, CycleStep
<1>9. CASE \E s \in Sessions : LeaseRunsLow(s)
  BY <1>9 DEF LeaseRunsLow, WorkerInv, TypeOK, CurIsAlive, Alive, Cycles, Cycle, At, life, main,
              Leases
<1>10. CASE UNCHANGED vars
  BY <1>10 DEF vars, WorkerInv, TypeOK, CurIsAlive, Alive, Cycles, Cycle, At, life, main, server
<1>11. QED
  BY <1>1, <1>2, <1>3, <1>5, <1>6, <1>7, <1>8, <1>9, <1>10 DEF Next

LEMMA WorkerAlways == Spec => []WorkerInv
BY WorkerInit, WorkerStep, PTL DEF Spec

-----------------------------------------------------------------------------
\* Every variable keeps its type; of the answers of the worker, no more than two
\* ever wait to be drained.
THEOREM TypeCorrect == Spec => []TypeOK
<1>1. WorkerInv => TypeOK
  BY DEF WorkerInv
<1>2. QED
  BY <1>1, WorkerAlways, PTL

\* However stops, reconnects and the frame driver interleave with a thread stuck
\* in an HTTP call, no two workers run.
THEOREM OneWorkerAlways == Spec => []OneWorker
<1>1. WorkerInv => OneWorker
  BY DEF WorkerInv, CurIsAlive, OneWorker
<1>2. QED
  BY <1>1, WorkerAlways, PTL
-----------------------------------------------------------------------------
(* Why parking takes a refusal.  An answer that is granted is one above the   *)
(* count it was asked at, so as long as no answer about an earlier session    *)
(* came in, one that equals it was refused.                                   *)

Waiting == 1 .. Len(inbound)

\* No answer is about a session yet to come or ahead of the queue API, and an
\* answer to an extension, which ends a cycle, is the last one waiting.
Leased ==
  /\ sid <= made
  /\ \A t \in Threads : thread[t].sid <= made
  /\ \A i \in Waiting : /\ inbound[i].sid <= made
                        /\ inbound[i].used <= grants[inbound[i].sid]
                        /\ inbound[i].kind # "status" => i = Len(inbound)
  /\ \A t \in Threads : At(t, "pop") \/ At(t, "extend") =>
       \A i \in Waiting : inbound[i].kind = "status"

\* An extension of the current session is asked for and not yet answered.
Requested == flag \/ \E t \in Threads : At(t, "extend") /\ thread[t].sid = sid

\* An extended answer about the current session is above every count known.
Above(i) ==
  /\ used < inbound[i].used
  /\ ctx.auto => ctx.used < inbound[i].used
  /\ \A j \in Waiting : j < i /\ inbound[j].sid = sid => inbound[j].used < inbound[i].used

Counted ==
  sid # 0 /\ ~taint =>
    /\ used <= grants[sid]
    /\ refusals[sid] = 0 =>
         /\ ctx.auto /\ Requested => ctx.used <= grants[sid]
         /\ \A i \in Waiting :
              inbound[i].kind = "extended" /\ inbound[i].sid = sid => Above(i)

LeaseInv == WorkerInv /\ Leased /\ Counted

LEMMA AnswerTypes ==
  ASSUME TypeOK
  PROVE  /\ Len(inbound) \in Nat
         /\ \A i \in Waiting : /\ inbound[i] \in Answer
                               /\ inbound[i].sid \in Sessions /\ inbound[i].sid \in Nat
                               /\ inbound[i].used \in Leases /\ inbound[i].used \in Nat
<1>1. \A i \in Waiting : inbound[i] \in Answer
  BY DEF TypeOK, Waiting
<1>2. Len(inbound) \in Nat
  BY DEF TypeOK
<1>3. \A a \in Answer : a.sid \in Sessions /\ a.sid \in Nat /\ a.used \in Leases /\ a.used \in Nat
  BY ConstantsAreNat DEF Answer, Sessions, Leases
<1>4. QED
  BY <1>1, <1>2, <1>3

\* Before the first session nothing waits.
LEMMA LeaseInit == Init => LeaseInv
<1> SUFFICES ASSUME Init PROVE LeaseInv
  OBVIOUS
<1>1. Leased /\ Counted
  BY DEF Init, Leased, Counted, Waiting, At, Off
<1>2. QED
  BY <1>1, WorkerInit DEF LeaseInv

\* A step that leaves the queue and the counts alone, goes on with the session
\* or ends it, and asks for nothing but what the user asks for.
LEMMA QuietStep ==
  ASSUME LeaseInv,
         UNCHANGED <<inbound, grants, refusals, made, used>>,
         sid' \in {sid, 0}, taint => taint', taint' \in BOOLEAN,
         \/ ctx' = ctx /\ (Requested' => Requested \/ sid' = 0)
         \/ ~ctx'.auto,
         \A t \in Threads : thread'[t].sid <= made,
         \A t \in Threads : thread'[t].pc \in {"pop", "extend"} =>
           thread[t].pc \in {"pop", "extend"} \/ inbound = << >>
  PROVE  Leased' /\ Counted'
<1>0. /\ sid \in 0 .. MaxSessions /\ made \in 0 .. MaxSessions /\ inbound \in Seq(Answer)
      /\ taint \in BOOLEAN /\ ctx \in Context
  BY DEF LeaseInv, WorkerInv, TypeOK
<1>1. Leased'
  BY <1>0, ConstantsAreNat DEF LeaseInv, Leased, Waiting, At
<1>2. CASE sid' = sid /\ sid # 0 /\ ~taint'
  <2>1. Counted
    BY DEF LeaseInv
  <2>2. \A i \in Waiting : Above(i) => Above(i)'
    BY <1>2 DEF Above, Waiting
  <2>3. QED
    <3>1. used <= grants[sid] /\ UNCHANGED <<used, grants, refusals, inbound>>
      BY <1>2, <2>1 DEF Counted
    <3>2. ASSUME refusals[sid] = 0
          PROVE  /\ ctx'.auto /\ Requested' => ctx'.used <= grants[sid]
                 /\ \A i \in Waiting :
                      inbound[i].kind = "extended" /\ inbound[i].sid = sid => Above(i)'
      BY <1>2, <2>1, <2>2, <3>2 DEF Counted
    <3>3. QED
      BY <1>1, <1>2, <3>1, <3>2 DEF Counted, Waiting
<1>3. CASE sid' = 0 \/ taint'
  <2>1. ~(sid # 0 /\ ~taint)'
    BY <1>3
  <2>2. QED
    BY <1>1, <2>1 DEF Counted
<1>4. QED
  BY <1>1, <1>2, <1>3

LEMMA DrainedAt ==
  ASSUME TypeOK, inbound # << >>, inbound' = Tail(inbound)
  PROVE  /\ Len(inbound) \in Nat /\ Len(inbound) >= 1 /\ Len(inbound') = Len(inbound) - 1
         /\ \A i \in 1 .. Len(inbound') : inbound'[i] = inbound[i + 1]
         /\ Head(inbound) = inbound[1]
         /\ \A i \in 1 .. Len(inbound) : inbound[i] \in Answer
BY DEF TypeOK

LEMMA PostedAt ==
  ASSUME TypeOK, NEW t \in Threads, NEW kind, PostEvent(t, kind)
  PROVE  /\ Len(inbound) \in Nat /\ Len(inbound') = Len(inbound) + 1
         /\ \A i \in 1 .. Len(inbound) : inbound'[i] = inbound[i] /\ inbound[i] \in Answer
         /\ inbound'[Len(inbound')] =
              [kind |-> kind, sid |-> thread[t].sid, used |-> grants'[thread[t].sid]]
BY DEF TypeOK, PostEvent

\* A new session starts with nothing used, nothing asked for and no answer.
LEMMA JoinCounts ==
  ASSUME LeaseInv, Join
  PROVE  Leased' /\ Counted'
<1>0. /\ sid \in 0 .. MaxSessions /\ made \in Nat /\ made < MaxSessions
      /\ made + 1 \in Sessions /\ grants \in [Sessions -> Leases]
      /\ \A s \in Sessions : grants[s] \in Nat
  BY ConstantsAreNat DEF LeaseInv, WorkerInv, TypeOK, Join, Sessions, Leases
<1>1. \A t \in Threads : thread'[t] = thread[t] \/ thread'[t] = Fresh
  BY EnsureWorkerKeeps DEF Join, LeaseInv, WorkerInv
<1>2. /\ made' = made + 1 /\ sid' = made + 1 /\ used' = 0 /\ flag' = FALSE
      /\ UNCHANGED <<ctx, inbound, grants, refusals>>
  BY DEF Join, server
<1>3. /\ \A t \in Threads : thread[t].sid <= made /\ thread[t].sid \in Nat
      /\ \A i \in Waiting : inbound[i].sid <= made /\ inbound[i].sid \in Nat
  <2>1. \A t \in Threads : thread[t].sid \in Nat
    BY ConstantsAreNat DEF LeaseInv, WorkerInv, TypeOK, ThreadState
  <2>2. \A i \in Waiting : inbound[i].sid \in Nat
    BY AnswerTypes DEF LeaseInv, WorkerInv
  <2>3. QED
    BY <2>1, <2>2 DEF LeaseInv, Leased
<1>4. Leased'
  BY <1>0, <1>1, <1>2, <1>3, ConstantsAreNat DEF LeaseInv, Leased, Waiting, At, Fresh
<1>5. ~Requested'
  BY <1>0, <1>1, <1>2, <1>3 DEF Requested, At, Fresh
<1>6. \A i \in Waiting : inbound[i].sid # sid'
  BY <1>0, <1>2, <1>3
<1>7. used' <= grants'[sid']
  BY <1>0, <1>2
<1>8. QED
  BY <1>2, <1>4, <1>5, <1>6, <1>7 DEF Counted, Waiting

\* What an answer drained leaves behind.
LEMMA DrainCounts ==
  ASSUME LeaseInv, DrainInbound
  PROVE  Leased' /\ Counted'
<1> DEFINE e == Head(inbound)
<1>1. /\ Len(inbound) \in Nat /\ Len(inbound) >= 1 /\ Len(inbound') = Len(inbound) - 1
      /\ \A i \in 1 .. Len(inbound') : i + 1 \in Waiting /\ inbound'[i] = inbound[i + 1]
      /\ e = inbound[1] /\ 1 \in Waiting /\ \A i \in Waiting : inbound[i] \in Answer
  BY DrainedAt DEF DrainInbound, LeaseInv, WorkerInv, Waiting
<1>2. UNCHANGED <<sid, made, connected, grants, refusals>>
  BY DEF DrainInbound, life, server
<1>3. \A t \in Threads : thread'[t] = thread[t] \/ thread'[t] = Fresh
  <2>1. UNCHANGED <<thread, cur>> \/ EnsureWorker
    BY DEF DrainInbound, ApplyQueueStatus, DropQueueStatus, ApplyExtendFailure,
           ApplyExtendResult, RequestExtend
  <2>2. QED
    BY <2>1, EnsureWorkerKeeps DEF LeaseInv, WorkerInv
<1>4. /\ sid \in 0 .. MaxSessions /\ made \in Nat /\ used \in Nat /\ ctx \in Context
      /\ flag \in BOOLEAN /\ taint \in BOOLEAN
      /\ grants \in [Sessions -> Leases] /\ \A s \in Sessions : grants[s] \in Nat
      /\ e.used \in Nat
  <2>1. e.used \in Nat
    BY <1>1, AnswerTypes DEF LeaseInv, WorkerInv
  <2>2. QED
    BY <2>1, ConstantsAreNat DEF LeaseInv, WorkerInv, TypeOK, Leases
<1>5. Leased'
  <2>1. \A i \in 1 .. Len(inbound') :
          /\ inbound'[i].sid <= made
          /\ inbound'[i].used <= grants[inbound'[i].sid]
          /\ inbound'[i].kind # "status" => i = Len(inbound')
    <3>1. ASSUME NEW i \in 1 .. Len(inbound')
          PROVE  /\ inbound[i + 1].sid <= made
                 /\ inbound[i + 1].used <= grants[inbound[i + 1].sid]
                 /\ inbound[i + 1].kind # "status" => i + 1 = Len(inbound)
      BY <1>1 DEF LeaseInv, Leased
    <3>2. QED
      BY <1>1, <3>1
  <2>2. \A t \in Threads : thread'[t].sid <= made
    BY <1>3, <1>4 DEF LeaseInv, Leased, Fresh
  <2>3. ASSUME NEW t \in Threads, thread'[t].pc = "pop" \/ thread'[t].pc = "extend"
        PROVE  \A i \in 1 .. Len(inbound') : inbound'[i].kind = "status"
    BY <1>1, <1>3, <2>3 DEF LeaseInv, Leased, At, Fresh
  <2>4. QED
    BY <1>2, <2>1, <2>2, <2>3 DEF LeaseInv, Leased, Waiting, At
<1>6. SUFFICES ASSUME sid # 0, ~taint'
               PROVE  Counted'
  BY <1>2, <1>5 DEF Counted
<1>7. /\ e.sid = sid \/ used' = used
      /\ ~taint /\ used' \in {used, Count(e)} /\ (used' # used => e.sid = sid)
      /\ \/ ctx' = ctx /\ (Requested' => Requested)
         \/ e.kind = "status" /\ ctx'.used = used'
  <2>1. UNCHANGED <<ctx, flag>> => (Requested' => Requested)
    BY <1>2, <1>3 DEF Requested, At, Fresh
  <2>2. CASE ApplyQueueStatus(e)
    <3>1. /\ e.kind = "status" /\ used' = Count(e) /\ taint' = (taint \/ e.sid # sid)
          /\ UNCHANGED <<ctx, flag>> \/ RequestExtend(TRUE, Count(e))
      BY <2>2 DEF ApplyQueueStatus
    <3>2. ~taint /\ e.sid = sid
      BY <1>6, <3>1
    <3>3. RequestExtend(TRUE, Count(e)) => ctx'.used = Count(e)
      BY <1>6 DEF RequestExtend
    <3>4. QED
      BY <2>1, <3>1, <3>2, <3>3
  <2>3. CASE DropQueueStatus(e)
    BY <1>6, <2>1, <2>3 DEF DropQueueStatus, main
  <2>4. CASE ApplyExtendFailure(e)
    BY <1>6, <2>1, <2>4 DEF ApplyExtendFailure
  <2>5. CASE ApplyExtendResult(e)
    BY <1>6, <2>1, <2>5 DEF ApplyExtendResult
  <2>6. QED
    BY <2>2, <2>3, <2>4, <2>5 DEF DrainInbound
<1>8. used' \in {used, e.used} /\ (used' # used => e.sid = sid)
  BY <1>7 DEF Count
<1>9. used <= grants[sid] /\ used' <= grants[sid]
  BY <1>1, <1>6, <1>7, <1>8 DEF LeaseInv, Leased, Counted
<1>10. ASSUME refusals[sid] = 0
       PROVE  /\ ctx'.auto /\ Requested' => ctx'.used <= grants[sid]
              /\ \A i \in 1 .. Len(inbound') :
                   inbound'[i].kind = "extended" /\ inbound'[i].sid = sid => Above(i)'
  <2>1. ctx'.auto /\ Requested' => ctx'.used <= grants[sid]
    BY <1>6, <1>7, <1>9, <1>10 DEF LeaseInv, Counted
  <2>2. ASSUME NEW i \in 1 .. Len(inbound'),
               inbound'[i].kind = "extended", inbound'[i].sid = sid
        PROVE  Above(i)'
    <3>1. Above(i + 1) /\ i + 1 \in Waiting /\ inbound'[i] = inbound[i + 1] /\ 1 < i + 1
      BY <1>1, <1>6, <1>7, <1>10, <2>2 DEF LeaseInv, Counted
    <3>2. used' < inbound'[i].used
      BY <1>1, <1>8, <3>1 DEF Above
    <3>3. ctx'.auto => ctx'.used < inbound'[i].used
      BY <1>7, <3>1, <3>2 DEF Above
    <3>4. ASSUME NEW j \in 1 .. Len(inbound'), j < i, inbound'[j].sid = sid
          PROVE  inbound'[j].used < inbound'[i].used
      <4>1. j + 1 \in Waiting /\ j + 1 < i + 1 /\ inbound'[j] = inbound[j + 1]
        BY <1>1, <3>4
      <4>2. QED
        BY <3>1, <3>4, <4>1 DEF Above
    <3>5. QED
      BY <1>2, <3>2, <3>3, <3>4 DEF Above, Waiting
  <2>3. QED
    BY <2>1, <2>2
<1>11. QED
  BY <1>2, <1>9, <1>10 DEF Counted, Waiting

\* What the worker posts, an answer to a poll or to an extension.
LEMMA PostCounts ==
  ASSUME LeaseInv, NEW t \in Threads,
         StatusAnswers(t) \/ ExtendAnswers(t) \/ ExtendFails(t),
         NEW kind \in {"status", "extended", "failed"}, PostEvent(t, kind),
         kind = "status" => StatusAnswers(t) /\ UNCHANGED server,
         kind = "extended" => ExtendAnswers(t),
         kind = "failed" => ExtendFails(t)
  PROVE  Leased' /\ Counted'
<1> DEFINE s == thread[t].sid
           new == inbound'[Len(inbound')]
<1>1. /\ Len(inbound) \in Nat /\ Len(inbound') = Len(inbound) + 1
      /\ \A i \in Waiting : inbound'[i] = inbound[i]
      /\ new.kind = kind /\ new.sid = s /\ new.used = grants'[s]
  <2>1. new = [kind |-> kind, sid |-> s, used |-> grants'[s]]
    BY PostedAt DEF LeaseInv, WorkerInv
  <2>2. /\ Len(inbound) \in Nat /\ Len(inbound') = Len(inbound) + 1
        /\ \A i \in Waiting : inbound'[i] = inbound[i]
    BY PostedAt DEF LeaseInv, WorkerInv, Waiting
  <2>3. QED
    BY <2>1, <2>2
<1>2. UNCHANGED <<sid, made, used, ctx, flag, taint, cur>>
  BY DEF StatusAnswers, ExtendAnswers, ExtendFails, life, main
<1>3. /\ s \in Sessions /\ s <= made /\ grants \in [Sessions -> Leases]
      /\ refusals \in [Sessions -> Nat] /\ \A z \in Sessions : grants[z] \in Nat
      /\ sid # 0 => sid \in Sessions
      /\ made \in Nat /\ used \in Nat /\ ctx \in Context
      /\ \A c \in Context : c.used \in Nat
  <2>1. s \in Sessions /\ s <= made
    BY DEF StatusAnswers, ExtendAnswers, ExtendFails, LeaseInv, WorkerInv, Cycles, Cycle, At, Leased
  <2>2. /\ grants \in [Sessions -> Leases] /\ refusals \in [Sessions -> Nat]
        /\ sid \in 0 .. MaxSessions /\ made \in Nat /\ used \in Nat /\ ctx \in Context
    BY ConstantsAreNat DEF LeaseInv, WorkerInv, TypeOK, Leases
  <2>3. Leases \subseteq Nat /\ (sid # 0 => sid \in Sessions) /\ \A c \in Context : c.used \in Nat
    BY <2>2, ConstantsAreNat DEF Leases, Sessions, Context
  <2>4. QED
    BY <2>1, <2>2, <2>3
<1>4. /\ t = cur /\ \A u \in Threads : u # t => thread[u].pc = "off"
      /\ \A u \in Threads : u # t => thread'[u] = thread[u]
      /\ thread'[t].pc = (IF kind = "status" THEN "pop" ELSE "idle")
      /\ thread'[t].sid \in {s, 0}
  <2>1. t = cur /\ \A u \in Threads : u # t => thread[u].pc = "off"
    BY DEF StatusAnswers, ExtendAnswers, ExtendFails, LeaseInv, WorkerInv, CurIsAlive, Alive, At
  <2>2. \/ kind = "status" /\ Moves(t, "pop", s)
        \/ kind # "status" /\ Moves(t, "idle", 0)
    BY MovesOf DEF StatusAnswers, ExtendAnswers, ExtendFails, LeaseInv, WorkerInv, PCs
  <2>3. QED
    BY <2>1, <2>2 DEF Moves
\* Before it the queue held answers to polls only, none above what was granted.
<1>5. \A i \in Waiting : inbound[i].kind = "status" /\ inbound[i].sid \in Sessions /\ inbound[i].used \in Nat
  <2>1. CASE kind = "status"
    <3>1. inbound = << >>
      BY <2>1 DEF StatusAnswers, LeaseInv, WorkerInv, Cycles, Cycle
    <3>2. QED
      BY <3>1 DEF Waiting
  <2>2. CASE kind # "status"
    <3>1. At(t, "extend")
      BY <2>2 DEF ExtendAnswers, ExtendFails
    <3>2. QED
      BY <3>1, AnswerTypes DEF LeaseInv, Leased, WorkerInv
  <2>3. QED
    BY <2>1, <2>2
<1>6. \/ UNCHANGED <<grants, refusals>> /\ kind # "extended"
      \/ grants' = [grants EXCEPT ![s] = @ + 1] /\ UNCHANGED refusals /\ kind = "extended"
      \/ refusals' = [refusals EXCEPT ![s] = @ + 1] /\ UNCHANGED grants /\ kind = "extended"
  BY DEF ExtendAnswers, ExtendFails, server
<1>7. \A z \in Sessions : grants'[z] \in Nat /\ grants[z] <= grants'[z]
  BY <1>3, <1>6
<1>8. Leased'
  <2>1. ASSUME NEW i \in 1 .. Len(inbound')
        PROVE  /\ inbound'[i].sid <= made
               /\ inbound'[i].used <= grants'[inbound'[i].sid]
               /\ inbound'[i].kind # "status" => i = Len(inbound')
    <3>1. CASE i = Len(inbound')
      BY <1>1, <1>3, <1>7, <3>1
    <3>2. CASE i \in Waiting
      <4>1. inbound[i].sid <= made /\ inbound[i].used <= grants[inbound[i].sid]
        BY <3>2 DEF LeaseInv, Leased
      <4>2. QED
        BY <1>1, <1>3, <1>5, <1>7, <3>2, <4>1
    <3>3. QED
      BY <1>1, <3>1, <3>2 DEF Waiting
  <2>2. ASSUME NEW u \in Threads
        PROVE  /\ thread'[u].sid <= made
               /\ thread'[u].pc = "pop" \/ thread'[u].pc = "extend" =>
                    \A i \in 1 .. Len(inbound') : inbound'[i].kind = "status"
    <3>1. thread'[u].sid <= made
      BY <1>3, <1>4, ConstantsAreNat DEF LeaseInv, Leased
    <3>2. ASSUME thread'[u].pc = "pop" \/ thread'[u].pc = "extend", NEW i \in 1 .. Len(inbound')
          PROVE  inbound'[i].kind = "status"
      <4>1. kind = "status"
        BY <1>4, <3>2
      <4>2. QED
        BY <1>1, <1>5, <4>1 DEF Waiting
    <3>3. QED
      BY <3>1, <3>2
  <2>3. sid <= made
    BY DEF LeaseInv, Leased
  <2>4. QED
    BY <1>2, <2>1, <2>2, <2>3 DEF Leased, Waiting, At
<1>9. Requested' => Requested
  BY <1>2, <1>4 DEF Requested, At
<1>10. SUFFICES ASSUME sid # 0, ~taint
                PROVE  Counted'
  BY <1>2, <1>8 DEF Counted
<1>11. used <= grants[sid] /\ used <= grants'[sid]
  BY <1>3, <1>7, <1>10 DEF LeaseInv, Counted
<1>12. ASSUME refusals'[sid] = 0
       PROVE  /\ ctx.auto /\ Requested' => ctx.used <= grants'[sid]
              /\ \A i \in 1 .. Len(inbound') :
                   inbound'[i].kind = "extended" /\ inbound'[i].sid = sid => Above(i)'
  <2>1. refusals[sid] = 0 /\ (ctx.auto /\ Requested => ctx.used <= grants[sid])
    <3>1. refusals[sid] = 0
      BY <1>3, <1>6, <1>10, <1>12
    <3>2. QED
      BY <1>10, <3>1 DEF LeaseInv, Counted
  <2>2. ctx.auto /\ Requested' => ctx.used <= grants'[sid]
    BY <1>3, <1>7, <1>9, <1>10, <2>1
  <2>3. ASSUME NEW i \in 1 .. Len(inbound'),
               inbound'[i].kind = "extended", inbound'[i].sid = sid
        PROVE  Above(i)'
    <3>1. i = Len(inbound') /\ kind = "extended" /\ s = sid
      BY <1>1, <1>5, <2>3 DEF Waiting
    <3>2. grants'[s] = grants[s] + 1 /\ inbound'[i].used = grants[s] + 1
      BY <1>1, <1>3, <1>6, <1>12, <3>1
    <3>3. Requested
      BY <3>1 DEF ExtendAnswers, Requested
    <3>4. used < inbound'[i].used /\ (ctx.auto => ctx.used < inbound'[i].used)
      BY <1>3, <1>11, <2>1, <3>1, <3>2, <3>3
    <3>5. ASSUME NEW j \in 1 .. Len(inbound'), j < i, inbound'[j].sid = sid
          PROVE  inbound'[j].used < inbound'[i].used
      <4>1. j \in Waiting /\ inbound'[j] = inbound[j]
        BY <1>1, <3>1, <3>5 DEF Waiting
      <4>2. inbound[j].used <= grants[sid] /\ inbound[j].used \in Nat
        BY <1>5, <3>5, <4>1 DEF LeaseInv, Leased
      <4>3. QED
        BY <1>3, <3>1, <3>2, <4>1, <4>2
    <3>6. QED
      BY <1>2, <3>4, <3>5 DEF Above, Waiting
  <2>4. QED
    BY <2>2, <2>3
<1>13. QED
  BY <1>2, <1>11, <1>12 DEF Counted, Waiting

-----------------------------------------------------------------------------
\* Each step keeps the counts.
LEMMA LeaseStep == LeaseInv /\ [Next]_vars => LeaseInv'
<1> SUFFICES ASSUME LeaseInv, [Next]_vars PROVE Leased' /\ Counted'
  BY WorkerStep DEF LeaseInv
<1>0. /\ WorkerInv' /\ TypeOK /\ TypeOK' /\ taint \in BOOLEAN /\ taint' \in BOOLEAN
      /\ \A t \in Threads : thread[t].sid <= made
      /\ made \in Nat
  <2>1. WorkerInv' /\ TypeOK /\ TypeOK'
    BY WorkerStep DEF LeaseInv, WorkerInv
  <2>2. taint \in BOOLEAN /\ taint' \in BOOLEAN /\ made \in Nat
    BY <2>1, ConstantsAreNat DEF TypeOK
  <2>3. QED
    BY <2>1, <2>2 DEF LeaseInv, Leased
<1>1. CASE Connect \/ FailoverTick
  BY <1>1, JoinCounts DEF Connect, FailoverTick
<1>2. CASE Opened \/ Closed \/ BlipOver \/ Disconnect \/ SetMode
  <2>1. /\ UNCHANGED <<inbound, grants, refusals, made, used, taint, ctx, flag>>
        /\ sid' \in {sid, 0}
    BY <1>2 DEF Opened, Closed, BlipOver, Disconnect, SetMode, main, server, life
  <2>2. \A t \in Threads : thread'[t].pc = thread[t].pc /\ thread'[t].sid = thread[t].sid
    BY <1>0, <1>2, ToldToStop DEF Opened, Closed, BlipOver, Disconnect, SetMode
  <2>3. Requested' => Requested \/ sid' = 0
    BY <2>1, <2>2 DEF Requested, At
  <2>4. QED
    BY <1>0, <2>1, <2>2, <2>3, QuietStep
<1>3. CASE MaybeHeartbeatFromFrame
  <2>1. \A t \in Threads : thread'[t] = thread[t] \/ thread'[t] = Fresh
    BY <1>3, EnsureWorkerKeeps DEF MaybeHeartbeatFromFrame, LeaseInv, WorkerInv
  <2>2. UNCHANGED <<inbound, grants, refusals, made, used, taint, ctx, flag, sid>>
    BY <1>3 DEF MaybeHeartbeatFromFrame, life, main, server
  <2>3. Requested' => Requested
    BY <2>1, <2>2 DEF Requested, At, Fresh
  <2>4. QED
    BY <1>0, <2>1, <2>2, <2>3, QuietStep DEF Fresh
<1>4. CASE StillPlaying
  <2>1. \/ UNCHANGED <<ctx, flag, thread, cur>>
        \/ ~ctx'.auto /\ EnsureWorker
    BY <1>4 DEF StillPlaying, RequestExtend
  <2>2. \A t \in Threads : thread'[t] = thread[t] \/ thread'[t] = Fresh
    BY <2>1, EnsureWorkerKeeps DEF LeaseInv, WorkerInv
  <2>3. UNCHANGED <<inbound, grants, refusals, made, used, taint, sid>>
    BY <1>4 DEF StillPlaying, life, server
  <2>4. \/ ctx' = ctx /\ (Requested' => Requested)
        \/ ~ctx'.auto
    BY <2>1, <2>3 DEF Requested, At
  <2>5. QED
    BY <1>0, <2>2, <2>3, <2>4, QuietStep DEF Fresh
<1>5. CASE DrainInbound
  BY <1>5, DrainCounts
<1>6. ASSUME NEW t \in Threads, Worker(t) PROVE Leased' /\ Counted'
  <2>1. CASE \/ Stops(t) \/ PollOnce(t) \/ StatusFails(t) \/ PopExtendFlag(t)
             \/ StatusAnswers(t) /\ UNCHANGED <<inbound, server>>
    <3>1. /\ UNCHANGED <<inbound, grants, refusals, made, used, taint, ctx, sid>>
          /\ sid <= made /\ sid \in Nat
      BY <2>1, ConstantsAreNat
         DEF Stops, PollOnce, StatusFails, PopExtendFlag, StatusAnswers, life, main, server,
             LeaseInv, WorkerInv, Leased, TypeOK
    <3>2. PICK p \in PCs, z \in {0, sid, thread[t].sid} :
            /\ Moves(t, p, z)
            /\ p = "pop" => inbound = << >>
            /\ p = "extend" => At(t, "pop") /\ flag
            /\ flag' => flag
      <4>1. CASE Stops(t)
        BY <1>0, <1>6, <4>1, MovesOf DEF Stops, PCs, main
      <4>2. CASE PollOnce(t)
        BY <1>0, <1>6, <4>2, MovesOf DEF PollOnce, PCs, main
      <4>3. CASE StatusFails(t)
        BY <1>0, <1>6, <4>3, MovesOf DEF StatusFails, PCs, main
      <4>4. CASE PopExtendFlag(t)
        BY <1>0, <1>6, <4>4, MovesOf DEF PopExtendFlag, PCs
      <4>5. CASE StatusAnswers(t)
        BY <1>0, <1>6, <4>5, MovesOf
           DEF StatusAnswers, PCs, main, LeaseInv, WorkerInv, Cycles, Cycle
      <4>6. QED
        BY <2>1, <4>1, <4>2, <4>3, <4>4, <4>5
    <3>3. Requested' => Requested
      BY <3>1, <3>2 DEF Moves, Requested, At
    <3>4. \A u \in Threads : thread'[u].sid <= made
      BY <1>0, <3>1, <3>2 DEF Moves
    <3>5. \A u \in Threads : thread'[u].pc \in {"pop", "extend"} =>
            thread[u].pc \in {"pop", "extend"} \/ inbound = << >>
      BY <3>2 DEF Moves, At
    <3>6. QED
      BY <1>0, <3>1, <3>3, <3>4, <3>5, QuietStep
  <2>2. CASE StatusAnswers(t) /\ UNCHANGED server /\ PostEvent(t, "status")
    BY <1>6, <2>2, PostCounts
  <2>3. CASE ExtendAnswers(t)
    BY <1>6, <2>3, PostCounts DEF ExtendAnswers
  <2>4. CASE ExtendFails(t)
    BY <1>6, <2>4, PostCounts DEF ExtendFails
  <2>5. QED
    BY <1>6, <2>1, <2>2, <2>3, <2>4 DEF Worker, StatusAnswers
<1>7. ASSUME (\E s \in Sessions : LeaseRunsLow(s)) \/ UNCHANGED vars PROVE Leased' /\ Counted'
  <2>1. UNCHANGED <<inbound, grants, refusals, made, used, taint, ctx, flag, sid, thread>>
    BY <1>7 DEF LeaseRunsLow, vars, life, main, server
  <2>2. Requested' => Requested
    BY <2>1 DEF Requested, At
  <2>3. QED
    BY <1>0, <2>1, <2>2, QuietStep
<1>8. QED
  BY <1>1, <1>2, <1>3, <1>4, <1>5, <1>6, <1>7 DEF Next

\* Only an extended answer parks, and only one that brings no new count.
LEMMA ParkingStep ==
  LeaseInv /\ [Next]_vars =>
    (backoff # "parked" /\ backoff' = "parked" => Refused \/ taint')
<1> SUFFICES ASSUME LeaseInv, [Next]_vars, backoff # "parked", backoff' = "parked",
                    ~Refused, ~taint'
             PROVE  FALSE
  OBVIOUS
<1> DEFINE e == Head(inbound)
<1>1. DrainInbound /\ ApplyExtendResult(e) /\ ctx.auto /\ Count(e) = ctx.used
  <2>1. DrainInbound
    BY DEF Next, vars, Connect, FailoverTick, Opened, Closed, Disconnect, SetMode,
           MaybeHeartbeatFromFrame, StillPlaying, BlipOver, Worker, Stops, PollOnce, StatusFails, StatusAnswers,
           PopExtendFlag, ExtendAnswers, ExtendFails, LeaseRunsLow, main
  <2>2. ~ApplyQueueStatus(e) /\ ~DropQueueStatus(e) /\ ~ApplyExtendFailure(e)
    BY DEF ApplyQueueStatus, DropQueueStatus, ApplyExtendFailure, main
  <2>3. ApplyExtendResult(e)
    BY <2>1, <2>2 DEF DrainInbound
  <2>4. QED
    BY <2>1, <2>3 DEF ApplyExtendResult
<1>2. e.kind = "extended" /\ e.sid = sid /\ ~taint
  BY <1>1 DEF ApplyExtendResult
<1>3. 1 \in Waiting /\ e = inbound[1] /\ e.used \in Nat /\ used \in Nat
  <2>1. Len(inbound) >= 1 /\ Len(inbound) \in Nat /\ e = inbound[1]
    BY <1>1, DrainedAt DEF DrainInbound, LeaseInv, WorkerInv
  <2>2. QED
    BY <2>1, AnswerTypes, ConstantsAreNat DEF Waiting, LeaseInv, WorkerInv, TypeOK, Leases
<1>4. sid # 0 /\ refusals[sid] = 0
  BY ConstantsAreNat DEF Refused, LeaseInv, WorkerInv, TypeOK, Sessions
<1>5. Above(1)
  BY <1>2, <1>3, <1>4 DEF LeaseInv, Counted
<1>6. used < e.used /\ ctx.used < e.used
  BY <1>1, <1>3, <1>5 DEF Above
<1>7. Count(e) = e.used
  BY <1>3, <1>6 DEF Count
<1>8. ctx.used \in Nat
  BY ConstantsAreNat DEF LeaseInv, WorkerInv, TypeOK, Context, Leases
<1>9. QED
  BY <1>1, <1>3, <1>6, <1>7, <1>8

\* For any number of sessions and of extensions: a session is parked for a day
\* only after the queue API refused it one, unless an answer about an earlier
\* session was applied to it.
THEOREM ParkedIfRefusedAlways == Spec => ParkedIfRefused
BY LeaseInit, LeaseStep, ParkingStep, PTL DEF Spec, ParkedIfRefused
-----------------------------------------------------------------------------
(* How many refusals a session can still come to.                            *)

\* An extension of the current session is on its way to the queue API.
Asked == \E t \in Threads : At(t, "extend") /\ thread[t].sid = sid

\* What waits about the current session: an answer of this kind, a poll that
\* was answered before the last extension was granted.
Answered(kind) == \E i \in Waiting : inbound[i].kind = kind /\ inbound[i].sid = sid
Outdated == \E i \in Waiting : /\ inbound[i].kind = "status" /\ inbound[i].sid = sid
                               /\ inbound[i].used < MaxExtensions

\* The latest request was automatic and made at the last count there is, so
\* that a refusal parks.
Final == ctx.auto /\ ctx.used = MaxExtensions

One(b) == IF b THEN 1 ELSE 0

ToCome ==
  IF grants[sid] < MaxExtensions THEN 3
  ELSE IF backoff = "parked" THEN One(flag) + One(Asked) + 2 * One(Answered("failed"))
  ELSE IF Final THEN 2 - One(Answered("extended"))
  ELSE 2 + One(Asked) + One(flag \/ Outdated)

\* An answer to a poll is the first one waiting; until the flag is popped it,
\* and an answer to an extension at all times, has the count of the queue API.
UpToDate ==
  /\ \A i \in Waiting : inbound[i].kind = "status" => i = 1
  /\ \A i \in Waiting :
       inbound[i].kind = "extended" \/ (\E t \in Threads : At(t, "pop")) =>
         inbound[i].used = grants[inbound[i].sid]

\* Only a session there has been is refused, when it has had all extensions.
RefusedLast == \A s \in Sessions : refusals[s] > 0 => s <= made /\ grants[s] = MaxExtensions

Budget ==
  sid # 0 /\ ~taint =>
    /\ grants[sid] = MaxExtensions /\ Outdated => ~Final
    /\ refusals[sid] + ToCome <= 3 + 2 * presses + errors

RefusalInv == LeaseInv /\ UpToDate /\ RefusedLast /\ Budget

\* The values the budget is made of.
LEMMA RefusalTypes ==
  ASSUME WorkerInv
  PROVE  /\ sid \in Nat /\ made \in Nat /\ (sid # 0 => sid \in Sessions)
         /\ grants \in [Sessions -> Leases] /\ refusals \in [Sessions -> Nat]
         /\ \A s \in Sessions : grants[s] \in Nat /\ grants[s] <= MaxExtensions /\ s \in Nat
         /\ MaxExtensions \in Nat /\ presses \in Nat /\ errors \in Nat /\ used \in Nat
         /\ ctx \in Context /\ ctx.auto \in BOOLEAN /\ ctx.used \in Nat
         /\ flag \in BOOLEAN /\ taint \in BOOLEAN
<1>1. /\ sid \in 0 .. MaxSessions /\ made \in 0 .. MaxSessions
      /\ grants \in [Sessions -> Leases] /\ refusals \in [Sessions -> Nat]
      /\ presses \in 0 .. MaxPresses /\ errors \in 0 .. MaxErrors /\ used \in Leases
      /\ ctx \in Context /\ flag \in BOOLEAN /\ taint \in BOOLEAN
  BY DEF WorkerInv, TypeOK
<1>2. QED
  BY <1>1, ConstantsAreNat DEF Sessions, Leases, Context

\* Before the first session there is no budget to keep.
LEMMA RefusalInit == Init => RefusalInv
<1> SUFFICES ASSUME Init PROVE RefusalInv
  OBVIOUS
<1>1. UpToDate /\ RefusedLast /\ Budget
  BY DEF Init, UpToDate, RefusedLast, Budget, Waiting
<1>2. QED
  BY <1>1, LeaseInit DEF RefusalInv

\* No extension is answered twice: a thread that asks is alone, and while an
\* answer to an extension waits there is none.
LEMMA AskedAlone ==
  ASSUME LeaseInv
  PROVE  /\ \A t, u \in Threads : At(t, "pop") \/ At(t, "extend") =>
              u = t \/ ~(At(u, "pop") \/ At(u, "extend"))
         /\ \A i \in Waiting : inbound[i].kind # "status" => i = Len(inbound) /\ ~Asked
<1>1. \A t, u \in Threads : At(t, "pop") \/ At(t, "extend") =>
        u = t \/ ~(At(u, "pop") \/ At(u, "extend"))
  BY DEF LeaseInv, WorkerInv, CurIsAlive, Alive, At
<1>2. \A i \in Waiting : inbound[i].kind # "status" => i = Len(inbound) /\ ~Asked
  BY DEF LeaseInv, Leased, Asked
<1>3. QED
  BY <1>1, <1>2

\* Extensions are granted up to the limit, and refused there and then only to a
\* session there has been.
LEMMA RefusedLastStep == LeaseInv /\ RefusedLast /\ [Next]_vars => RefusedLast'
<1> SUFFICES ASSUME LeaseInv, RefusedLast, [Next]_vars, NEW s \in Sessions, refusals'[s] > 0
             PROVE  s <= made' /\ grants'[s] = MaxExtensions
  BY DEF RefusedLast
<1>0. /\ s \in Nat /\ made \in Nat /\ MaxExtensions \in Nat
      /\ grants \in [Sessions -> Leases] /\ refusals \in [Sessions -> Nat]
      /\ grants[s] \in Nat /\ grants[s] <= MaxExtensions
  BY RefusalTypes DEF LeaseInv
<1>1. made' \in Nat /\ made <= made'
  <2>1. made' = made \/ made' = made + 1
    BY DEF Next, vars, life, Connect, FailoverTick, Join, Opened, Closed, Disconnect, SetMode,
       MaybeHeartbeatFromFrame, StillPlaying, DrainInbound, BlipOver, Worker, Stops, PollOnce,
       StatusFails, StatusAnswers, PopExtendFlag, ExtendAnswers, ExtendFails, LeaseRunsLow
  <2>2. QED
    BY <1>0, <2>1
<1>2. \/ UNCHANGED <<grants, refusals>>
      \/ \E t \in Threads : ExtendAnswers(t)
  BY DEF Next, vars, server, Connect, FailoverTick, Join, Opened, Closed, Disconnect, SetMode,
     MaybeHeartbeatFromFrame, StillPlaying, DrainInbound, BlipOver, Worker, Stops, PollOnce,
     StatusFails, StatusAnswers, PopExtendFlag, ExtendFails, LeaseRunsLow
<1>3. CASE UNCHANGED <<grants, refusals>>
  BY <1>0, <1>1, <1>3 DEF RefusedLast
<1>4. ASSUME NEW t \in Threads, ExtendAnswers(t)
      PROVE  s <= made' /\ grants'[s] = MaxExtensions
  <2> DEFINE z == thread[t].sid
  <2>1. z \in Sessions /\ z <= made /\ grants[z] \in Nat /\ grants[z] <= MaxExtensions
    BY <1>4, RefusalTypes DEF ExtendAnswers, LeaseInv, Leased, WorkerInv, Cycles, Cycle, At
  <2>2. \/ /\ grants[z] < MaxExtensions /\ grants' = [grants EXCEPT ![z] = @ + 1]
           /\ refusals' = refusals
        \/ /\ ~(grants[z] < MaxExtensions) /\ grants' = grants
           /\ refusals' = [refusals EXCEPT ![z] = @ + 1]
    BY <1>4 DEF ExtendAnswers
  <2> HIDE DEF z
  <2>3. CASE grants[z] < MaxExtensions /\ grants' = [grants EXCEPT ![z] = @ + 1] /\ refusals' = refusals
    <3>1. s <= made /\ grants[s] = MaxExtensions
      BY <2>3 DEF RefusedLast
    <3>2. s # z
      BY <1>0, <2>1, <2>3, <3>1
    <3>3. QED
      BY <1>0, <1>1, <2>3, <3>1, <3>2
  <2>4. CASE ~(grants[z] < MaxExtensions) /\ grants' = grants /\ refusals' = [refusals EXCEPT ![z] = @ + 1]
    <3>1. CASE s = z
      BY <1>0, <1>1, <2>1, <2>4, <3>1
    <3>2. CASE s # z
      BY <1>0, <1>1, <2>4, <3>2 DEF RefusedLast
    <3>3. QED
      BY <3>1, <3>2
  <2>5. QED
    BY <2>2, <2>3, <2>4
<1>5. QED
  BY <1>2, <1>3, <1>4

\* A step that leaves the queue and what is granted alone.
LEMMA UpToDateQuiet ==
  ASSUME UpToDate, UNCHANGED <<inbound, grants>>,
         \A t \in Threads : thread'[t].pc = "pop" => thread[t].pc = "pop" \/ inbound = << >>
  PROVE  UpToDate'
BY DEF UpToDate, Waiting, At

\* What is behind the head of the queue stays as it is.
LEMMA UpToDateDrain ==
  ASSUME LeaseInv, UpToDate, DrainInbound
  PROVE  UpToDate'
<1>1. /\ Len(inbound) \in Nat /\ Len(inbound') = Len(inbound) - 1
      /\ \A i \in 1 .. Len(inbound') : i + 1 \in Waiting /\ inbound'[i] = inbound[i + 1]
  BY DrainedAt DEF DrainInbound, LeaseInv, WorkerInv, Waiting
<1>2. UNCHANGED grants
  BY DEF DrainInbound, server
<1>3. \A t \in Threads : thread'[t] = thread[t] \/ thread'[t] = Fresh
  <2>1. UNCHANGED <<thread, cur>> \/ EnsureWorker
    BY DEF DrainInbound, ApplyQueueStatus, DropQueueStatus, ApplyExtendFailure,
           ApplyExtendResult, RequestExtend
  <2>2. QED
    BY <2>1, EnsureWorkerKeeps DEF LeaseInv, WorkerInv
<1>4. \A t \in Threads : At(t, "pop")' => At(t, "pop")
  BY <1>3 DEF At, Fresh
<1>5. ASSUME NEW i \in 1 .. Len(inbound')
      PROVE  /\ inbound'[i].kind # "status"
             /\ inbound'[i].kind = "extended" \/ (\E t \in Threads : At(t, "pop")') =>
                  inbound'[i].used = grants'[inbound'[i].sid]
  <2>1. i + 1 \in Waiting /\ inbound'[i] = inbound[i + 1] /\ i + 1 # 1
    BY <1>1
  <2>2. QED
    BY <1>2, <1>4, <2>1 DEF UpToDate
<1>6. QED
  BY <1>5 DEF UpToDate, Waiting

\* What a worker posts has the count of the queue API at that moment.
LEMMA UpToDatePost ==
  ASSUME LeaseInv, UpToDate, NEW t \in Threads, Worker(t),
         NEW kind \in {"status", "extended", "failed"}, PostEvent(t, kind),
         kind = "status" => At(t, "status") /\ UNCHANGED server,
         kind # "status" => At(t, "extend") /\ CycleEnds(t)
  PROVE  UpToDate'
<1> DEFINE new == inbound'[Len(inbound')]
<1>1. /\ Len(inbound) \in Nat /\ Len(inbound') = Len(inbound) + 1
      /\ \A i \in Waiting : inbound'[i] = inbound[i]
      /\ new.kind = kind /\ new.used = grants'[new.sid]
  <2>1. new = [kind |-> kind, sid |-> thread[t].sid, used |-> grants'[thread[t].sid]]
    BY PostedAt DEF LeaseInv, WorkerInv
  <2>2. /\ Len(inbound) \in Nat /\ Len(inbound') = Len(inbound) + 1
        /\ \A i \in Waiting : inbound'[i] = inbound[i]
    BY PostedAt DEF LeaseInv, WorkerInv, Waiting
  <2>3. QED
    BY <2>1, <2>2
<1> HIDE DEF new
<1>2. CASE kind = "status"
  <2>1. inbound = << >>
    BY <1>2 DEF LeaseInv, WorkerInv, Cycles, Cycle
  <2>2. Len(inbound') = 1 /\ new = inbound'[1]
    BY <1>1, <2>1 DEF new
  <2>3. \A i \in 1 .. Len(inbound') : i = 1 /\ inbound'[i] = new
    BY <2>2
  <2>4. \A i \in Waiting' : i = 1 /\ inbound'[i].used = grants'[inbound'[i].sid]
    BY <1>1, <2>3 DEF Waiting
  <2>5. QED
    BY <2>4 DEF UpToDate
<1>3. CASE kind # "status"
  <2>1. \A i \in Waiting : inbound[i].kind = "status" /\ i = 1
    BY <1>3 DEF LeaseInv, Leased, UpToDate
  <2>2. \A u \in Threads : ~At(u, "pop")'
    <3>1. Moves(t, "idle", 0)
      BY <1>3, MovesOf DEF LeaseInv, WorkerInv
    <3>2. \A u \in Threads : At(u, "pop") => u = t
      BY <1>3, AskedAlone
    <3>3. QED
      BY <3>1, <3>2 DEF Moves, At
  <2>3. \A i \in 1 .. Len(inbound') : i \in Waiting \/ inbound'[i] = new
    BY <1>1 DEF Waiting, new
  <2>4. QED
    BY <1>1, <1>3, <2>1, <2>2, <2>3 DEF UpToDate, Waiting
<1>4. QED
  BY <1>2, <1>3

\* The answers waiting stay up to date.
LEMMA UpToDateStep == LeaseInv /\ UpToDate /\ [Next]_vars => UpToDate'
<1> SUFFICES ASSUME LeaseInv, UpToDate, [Next]_vars PROVE UpToDate'
  OBVIOUS
<1>0. TypeOK /\ WorkerInv
  BY DEF LeaseInv, WorkerInv
<1>1. CASE Connect \/ FailoverTick \/ MaybeHeartbeatFromFrame \/ StillPlaying
  <2>1. UNCHANGED <<inbound, grants>> /\ (EnsureWorker \/ UNCHANGED thread)
    BY <1>1 DEF Connect, FailoverTick, Join, MaybeHeartbeatFromFrame, StillPlaying, RequestExtend, server
  <2>2. \A t \in Threads : thread'[t] = thread[t] \/ thread'[t] = Fresh
    BY <1>0, <2>1, EnsureWorkerKeeps DEF WorkerInv
  <2>3. QED
    BY <2>1, <2>2, UpToDateQuiet DEF Fresh
<1>2. CASE Opened \/ Closed \/ Disconnect \/ BlipOver \/ SetMode
  <2>1. UNCHANGED <<inbound, grants>>
    BY <1>2 DEF Opened, Closed, Disconnect, BlipOver, SetMode, server
  <2>2. \A t \in Threads : thread'[t].pc = thread[t].pc
    BY <1>0, <1>2, ToldToStop DEF Opened, Closed, BlipOver, Disconnect, SetMode
  <2>3. QED
    BY <2>1, <2>2, UpToDateQuiet
<1>3. CASE DrainInbound
  BY <1>3, UpToDateDrain
<1>4. ASSUME NEW t \in Threads, Worker(t) PROVE UpToDate'
  <2>1. CASE \/ Stops(t) \/ PollOnce(t) \/ StatusFails(t) \/ PopExtendFlag(t)
             \/ StatusAnswers(t) /\ UNCHANGED <<inbound, server>>
    <3>1. UNCHANGED <<inbound, grants>>
      BY <2>1 DEF Stops, PollOnce, StatusFails, PopExtendFlag, server
    <3>2. PICK p \in PCs, z \in {0, sid, thread[t].sid} : Moves(t, p, z) /\ (p = "pop" => inbound = << >>)
      <4>1. CASE Stops(t)
        BY <1>0, <4>1, MovesOf DEF Stops, PCs
      <4>2. CASE PollOnce(t)
        BY <1>0, <4>2, MovesOf DEF PollOnce, PCs
      <4>3. CASE StatusFails(t)
        BY <1>0, <4>3, MovesOf DEF StatusFails, PCs
      <4>4. CASE PopExtendFlag(t)
        BY <1>0, <4>4, MovesOf DEF PopExtendFlag, PCs
      <4>5. CASE StatusAnswers(t)
        BY <1>0, <4>5, MovesOf DEF StatusAnswers, PCs, WorkerInv, Cycles, Cycle
      <4>6. QED
        BY <2>1, <4>1, <4>2, <4>3, <4>4, <4>5
    <3>3. \A u \in Threads : thread'[u].pc = "pop" => thread[u].pc = "pop" \/ inbound = << >>
      BY <3>2 DEF Moves
    <3>4. QED
      BY <3>1, <3>3, UpToDateQuiet
  <2>2. CASE StatusAnswers(t) /\ UNCHANGED server /\ PostEvent(t, "status")
    BY <1>4, <2>2, UpToDatePost DEF StatusAnswers
  <2>3. CASE ExtendAnswers(t)
    BY <1>4, <2>3, UpToDatePost DEF ExtendAnswers
  <2>4. CASE ExtendFails(t)
    BY <1>4, <2>4, UpToDatePost DEF ExtendFails
  <2>5. QED
    BY <1>4, <2>1, <2>2, <2>3, <2>4 DEF Worker, StatusAnswers
<1>5. ASSUME (\E s \in Sessions : LeaseRunsLow(s)) \/ UNCHANGED vars PROVE UpToDate'
  <2>1. UNCHANGED <<inbound, grants, thread>>
    BY <1>5 DEF LeaseRunsLow, vars, server
  <2>2. QED
    BY <2>1, UpToDateQuiet
<1>6. QED
  BY <1>1, <1>2, <1>3, <1>4, <1>5 DEF Next

\* A step that asks for nothing, with the answers and the grants as they were.
LEMMA BudgetQuiet ==
  ASSUME RefusalInv, UNCHANGED <<grants, refusals, inbound, ctx>>,
         sid' \in {sid, 0}, taint => taint', taint' \in BOOLEAN,
         backoff' = "parked" <=> backoff = "parked",
         flag' => flag, sid' = sid => (Asked' => Asked),
         presses' \in Nat, presses <= presses', errors' \in Nat, errors <= errors'
  PROVE  Budget'
<1> SUFFICES ASSUME sid' # 0, ~taint'
             PROVE  /\ grants'[sid'] = MaxExtensions /\ Outdated' => ~Final'
                    /\ refusals'[sid'] + ToCome' <= 3 + 2 * presses' + errors'
  BY DEF Budget
<1>1. sid' = sid /\ sid # 0 /\ ~taint
  BY RefusalTypes DEF RefusalInv, LeaseInv
<1>2. /\ grants[sid] = MaxExtensions /\ Outdated => ~Final
      /\ refusals[sid] + ToCome <= 3 + 2 * presses + errors
      /\ grants[sid] \in Nat /\ refusals[sid] \in Nat /\ MaxExtensions \in Nat
      /\ presses \in Nat /\ errors \in Nat
  BY <1>1, RefusalTypes DEF RefusalInv, LeaseInv, Budget
<1>3. /\ Outdated' <=> Outdated
      /\ Final' <=> Final
      /\ \A k \in {"failed", "extended"} : Answered(k)' <=> Answered(k)
  BY <1>1 DEF Outdated, Final, Answered, Waiting
<1>4. ToCome \in Nat /\ ToCome' \in Nat /\ ToCome' <= ToCome
  <2>1. grants'[sid'] = grants[sid]
    BY <1>1
  <2>2. CASE grants[sid] < MaxExtensions
    BY <2>1, <2>2 DEF ToCome
  <2>3. CASE ~(grants[sid] < MaxExtensions)
    BY <1>1, <1>3, <2>1, <2>3 DEF ToCome, One
  <2>4. QED
    BY <2>2, <2>3
<1>5. QED
  BY <1>1, <1>2, <1>3, <1>4

\* What the budget says of a session no earlier one has touched.
LEMMA BudgetNow ==
  ASSUME RefusalInv, sid # 0, ~taint
  PROVE  /\ grants[sid] = MaxExtensions /\ Outdated => ~Final
         /\ refusals[sid] + ToCome <= 3 + 2 * presses + errors
         /\ grants[sid] \in Nat /\ grants[sid] <= MaxExtensions /\ refusals[sid] \in Nat
         /\ MaxExtensions \in Nat /\ presses \in Nat /\ errors \in Nat /\ ToCome \in Nat
         /\ \A i \in Waiting : inbound[i].kind # "status" => i = Len(inbound) /\ ~Asked
<1>1. /\ grants[sid] = MaxExtensions /\ Outdated => ~Final
      /\ refusals[sid] + ToCome <= 3 + 2 * presses + errors
  BY DEF RefusalInv, Budget
<1>2. /\ grants[sid] \in Nat /\ grants[sid] <= MaxExtensions /\ refusals[sid] \in Nat
      /\ MaxExtensions \in Nat /\ presses \in Nat /\ errors \in Nat
  BY RefusalTypes DEF RefusalInv, LeaseInv
<1>3. ToCome \in Nat
  BY DEF ToCome, One
<1>4. \A i \in Waiting : inbound[i].kind # "status" => i = Len(inbound) /\ ~Asked
  BY AskedAlone DEF RefusalInv
<1>5. QED
  BY <1>1, <1>2, <1>3, <1>4

\* A press buys its own refusal and that of the automatic request it disarms.
LEMMA BudgetPress == RefusalInv /\ StillPlaying => Budget'
<1> SUFFICES ASSUME RefusalInv, StillPlaying, sid' # 0, ~taint'
             PROVE  /\ grants'[sid'] = MaxExtensions /\ Outdated' => ~Final'
                    /\ refusals'[sid'] + ToCome' <= 3 + 2 * presses' + errors'
  BY DEF Budget
<1>1. /\ sid' = sid /\ sid # 0 /\ ~taint /\ presses' = presses + 1 /\ flag' = TRUE
      /\ UNCHANGED <<grants, refusals, inbound, errors, backoff>>
      /\ ctx'.auto = FALSE /\ EnsureWorker
  BY DEF StillPlaying, RequestExtend, life, server
<1>2. \A t \in Threads : thread'[t] = thread[t] \/ thread'[t] = Fresh
  BY <1>1, EnsureWorkerKeeps DEF RefusalInv, LeaseInv, WorkerInv
<1>3. Asked' => Asked
  BY <1>1, <1>2 DEF Asked, At, Fresh
<1>4. ~Final' /\ \A k \in {"failed", "extended"} : Answered(k)' <=> Answered(k)
  BY <1>1 DEF Final, Answered, Waiting
<1>5. Answered("extended") => ~Asked
  BY <1>1, BudgetNow DEF Answered
<1>6. ToCome' \in Nat /\ ToCome' <= ToCome + 2
  <2>1. grants'[sid'] = grants[sid]
    BY <1>1
  <2>2. CASE grants[sid] < MaxExtensions
    BY <2>1, <2>2 DEF ToCome
  <2>3. CASE ~(grants[sid] < MaxExtensions)
    BY <1>1, <1>3, <1>4, <1>5, <2>1, <2>3 DEF ToCome, One
  <2>4. QED
    BY <2>2, <2>3
<1>7. refusals'[sid'] = refusals[sid] /\ presses' = presses + 1 /\ errors' = errors
  BY <1>1
<1>8. refusals'[sid'] + ToCome' <= 3 + 2 * presses' + errors'
  <2>1. /\ refusals[sid] + ToCome <= 3 + 2 * presses + errors
        /\ refusals[sid] \in Nat /\ presses \in Nat /\ errors \in Nat /\ ToCome \in Nat
    BY <1>1, BudgetNow
  <2>2. 2 * (presses + 1) = 2 * presses + 2
    BY <2>1
  <2>3. QED
    BY <1>6, <1>7, <2>1, <2>2
<1>9. QED
  BY <1>4, <1>8

\* The allowance is at least three.
LEMMA Allowance ==
  ASSUME NEW p \in Nat, NEW n \in Nat
  PROVE  3 + 2 * p + n \in Nat /\ 3 <= 3 + 2 * p + n
OBVIOUS

\* A new session has been refused nothing, and starts with the backoff off
\* unless that makes it tainted.
LEMMA BudgetJoin ==
  RefusalInv /\ (Connect \/ FailoverTick) => Budget'
<1> SUFFICES ASSUME RefusalInv, Connect \/ FailoverTick, sid' # 0, ~taint'
             PROVE  /\ grants'[sid'] = MaxExtensions /\ Outdated' => ~Final'
                    /\ refusals'[sid'] + ToCome' <= 3 + 2 * presses' + errors'
  BY DEF Budget
<1>1. /\ sid' = made + 1 /\ made < MaxSessions /\ flag' = FALSE /\ backoff' = "none"
      /\ UNCHANGED <<grants, refusals, inbound, presses, errors, ctx>> /\ EnsureWorker
  BY DEF Connect, FailoverTick, Join, server
<1>2. /\ made \in Nat /\ sid' \in Sessions /\ grants[sid'] \in Nat /\ refusals[sid'] \in Nat
      /\ MaxExtensions \in Nat /\ presses \in Nat /\ errors \in Nat
  <2>1. made \in Nat /\ presses \in Nat /\ errors \in Nat /\ MaxExtensions \in Nat
    BY RefusalTypes DEF RefusalInv, LeaseInv
  <2>2. sid' \in Sessions
    BY <1>1, <2>1, ConstantsAreNat DEF Sessions
  <2>3. grants[sid'] \in Nat /\ refusals[sid'] \in Nat
    BY <2>2, RefusalTypes DEF RefusalInv, LeaseInv
  <2>4. QED
    BY <2>1, <2>2, <2>3
<1>3. refusals[sid'] = 0
  BY <1>1, <1>2 DEF RefusalInv, RefusedLast
<1>4. \A i \in Waiting : inbound[i].sid # sid'
  <2>1. \A i \in Waiting : inbound[i].sid <= made /\ inbound[i].sid \in Nat
    BY AnswerTypes DEF RefusalInv, LeaseInv, WorkerInv, Leased
  <2>2. QED
    BY <1>1, <1>2, <2>1
<1>5. ~Outdated' /\ ~Answered("extended")'
  BY <1>1, <1>4 DEF Outdated, Answered, Waiting
<1>6. ~Asked'
  <2>1. \A t \in Threads : thread'[t] = thread[t] \/ thread'[t] = Fresh
    BY <1>1, EnsureWorkerKeeps DEF RefusalInv, LeaseInv, WorkerInv
  <2>2. \A t \in Threads : thread[t].sid <= made /\ thread[t].sid \in Nat
    BY ConstantsAreNat DEF RefusalInv, LeaseInv, WorkerInv, TypeOK, ThreadState, Leased
  <2>3. QED
    BY <1>1, <1>2, <2>1, <2>2 DEF Asked, At, Fresh
<1>7. ToCome' \in Nat /\ ToCome' <= 3
  BY <1>1, <1>5, <1>6 DEF ToCome, One
<1>8. refusals'[sid'] = refusals[sid'] /\ presses' = presses /\ errors' = errors
  BY <1>1
<1>9. refusals'[sid'] + ToCome' <= 3 + 2 * presses' + errors'
  <2>1. presses' \in Nat /\ errors' \in Nat
    BY <1>2, <1>8
  <2>2. /\ 3 + 2 * presses' + errors' \in Nat
        /\ 3 <= 3 + 2 * presses' + errors'
    BY <2>1, Allowance
  <2>3. refusals'[sid'] = 0
    BY <1>3, <1>8
  <2>4. QED
    BY <1>7, <2>2, <2>3
<1>10. QED
  BY <1>5, <1>9

\* What adds to the budget adds at least as much to the allowance.
LEMMA Balance ==
  ASSUME NEW r \in Nat, NEW c \in Nat, NEW p \in Nat, NEW n \in Nat, r + c <= 3 + 2 * p + n,
         NEW r1 \in Nat, NEW c1 \in Nat, NEW n1 \in Nat, r1 + c1 + n <= r + c + n1
  PROVE  r1 + c1 <= 3 + 2 * p + n1
OBVIOUS

\* A refusal that was to come.
LEMMA Spend ==
  ASSUME NEW r \in Nat, NEW c \in Nat, NEW c1 \in Nat, NEW n \in Nat, c1 + 1 <= c
  PROVE  (r + 1) + c1 + n <= r + c + n
OBVIOUS

\* The flag popped becomes the extension on its way.
LEMMA BudgetPop ==
  ASSUME RefusalInv, NEW t \in Threads, PopExtendFlag(t)
  PROVE  Budget'
<1>1. /\ UNCHANGED <<grants, refusals, inbound, ctx, sid, taint, backoff, presses, errors>>
      /\ flag' = FALSE /\ At(t, "pop")
      /\ IF flag THEN Moves(t, "extend", thread[t].sid) ELSE Moves(t, "idle", 0)
      /\ taint' \in BOOLEAN /\ sid' \in {sid, 0} /\ presses' \in Nat /\ errors' \in Nat
      /\ presses <= presses' /\ errors <= errors'
  <2>1. /\ UNCHANGED <<grants, refusals, inbound, ctx, sid, taint, backoff, presses, errors>>
        /\ flag' = FALSE /\ At(t, "pop")
        /\ IF flag THEN Goes(t, "extend") ELSE CycleEnds(t)
    BY DEF PopExtendFlag, life, server
  <2>2. IF flag THEN Moves(t, "extend", thread[t].sid) ELSE Moves(t, "idle", 0)
    BY <2>1, MovesOf DEF PCs, RefusalInv, LeaseInv, WorkerInv
  <2>3. taint \in BOOLEAN /\ presses \in Nat /\ errors \in Nat
    BY RefusalTypes DEF RefusalInv, LeaseInv
  <2>4. QED
    BY <2>1, <2>2, <2>3
<1>2. CASE ~flag \/ thread[t].sid # sid
  <2>1. Asked' => Asked
    BY <1>1, <1>2 DEF Asked, Moves, At
  <2>2. QED
    BY <1>1, <2>1, BudgetQuiet
<1>3. CASE flag /\ thread[t].sid = sid
  <2> SUFFICES ASSUME sid # 0, ~taint
               PROVE  /\ grants[sid] = MaxExtensions /\ Outdated' => ~Final'
                      /\ refusals[sid] + ToCome' <= 3 + 2 * presses + errors
    BY <1>1 DEF Budget
  <2>1. ~Asked
    <3>1. \A u \in Threads : At(u, "extend") => u = t
      BY <1>1, AskedAlone DEF RefusalInv
    <3>2. QED
      BY <1>1, <3>1 DEF Asked, At
  <2>2. /\ Outdated' <=> Outdated
        /\ Final' <=> Final
        /\ \A k \in {"failed", "extended"} : Answered(k)' <=> Answered(k)
    BY <1>1 DEF Outdated, Final, Answered, Waiting
  <2>3. grants[sid] = MaxExtensions => ~Outdated
    <3>1. \A i \in Waiting : inbound[i].used = grants[inbound[i].sid]
      BY <1>1 DEF RefusalInv, UpToDate
    <3>2. QED
      BY <3>1, BudgetNow DEF Outdated
  <2>4. ToCome' \in Nat /\ ToCome' <= ToCome
    <3>1. grants'[sid'] = grants[sid]
      BY <1>1
    <3>2. CASE grants[sid] < MaxExtensions
      BY <3>1, <3>2 DEF ToCome
    <3>3. CASE grants[sid] = MaxExtensions
      BY <1>1, <1>3, <2>1, <2>2, <2>3, <3>1, <3>3 DEF ToCome, One
    <3>4. QED
      BY <3>2, <3>3, BudgetNow
  <2>5. QED
    BY <2>2, <2>4, BudgetNow
<1>4. QED
  BY <1>2, <1>3

\* An answer to a poll asks for nothing yet, and is not outdated.
LEMMA BudgetStatus ==
  ASSUME RefusalInv, NEW t \in Threads, StatusAnswers(t), UNCHANGED server,
         PostEvent(t, "status"), UNCHANGED errors
  PROVE  Budget'
<1> SUFFICES ASSUME sid # 0, ~taint
             PROVE  /\ grants[sid] = MaxExtensions /\ Outdated' => ~Final'
                    /\ refusals[sid] + ToCome' <= 3 + 2 * presses + errors
  BY DEF Budget, StatusAnswers, life, main, server
<1>1. /\ UNCHANGED <<grants, refusals, ctx, flag, sid, taint, backoff, presses, errors>>
      /\ inbound = << >> /\ Moves(t, "pop", thread[t].sid)
  BY MovesOf DEF StatusAnswers, life, main, server, PCs, RefusalInv, LeaseInv, WorkerInv,
                 Cycles, Cycle
<1>2. /\ Len(inbound') = 1 /\ inbound'[1].kind = "status"
      /\ inbound'[1].used = grants[inbound'[1].sid]
  <2>1. Len(inbound') = 1 /\ inbound'[Len(inbound')] =
          [kind |-> "status", sid |-> thread[t].sid, used |-> grants[thread[t].sid]]
    BY <1>1, PostedAt DEF RefusalInv, LeaseInv, WorkerInv
  <2>2. QED
    BY <2>1
<1>3. Asked' => Asked
  BY <1>1 DEF Asked, Moves, At
<1>4. \A k \in {"failed", "extended"} : ~Answered(k) /\ ~Answered(k)'
  <2>1. \A i \in Waiting' : i = 1
    BY <1>2 DEF Waiting
  <2>2. QED
    BY <1>1, <1>2, <2>1 DEF Answered, Waiting
<1>5. grants[sid] = MaxExtensions => ~Outdated'
  <2>1. \A i \in Waiting' : i = 1
    BY <1>2 DEF Waiting
  <2>2. ASSUME grants[sid] = MaxExtensions, Outdated' PROVE FALSE
    <3>1. inbound'[1].sid = sid /\ inbound'[1].used < MaxExtensions
      BY <1>1, <2>1, <2>2 DEF Outdated
    <3>2. QED
      BY <1>2, <2>2, <3>1, BudgetNow
  <2>3. QED
    BY <2>2
<1>6. ToCome' \in Nat /\ ToCome' <= ToCome
  <2>1. grants'[sid'] = grants[sid]
    BY <1>1
  <2>2. CASE grants[sid] < MaxExtensions
    BY <2>1, <2>2 DEF ToCome
  <2>3. CASE grants[sid] = MaxExtensions
    <3>1. Final' <=> Final
      BY <1>1 DEF Final
    <3>2. QED
      BY <1>1, <1>3, <1>4, <1>5, <2>1, <2>3, <3>1 DEF ToCome, One
  <2>4. QED
    BY <2>2, <2>3, BudgetNow
<1>7. QED
  BY <1>5, <1>6, BudgetNow

\* The end of an extension: what is true whatever the answer is.
LEMMA Extension ==
  ASSUME RefusalInv, NEW t \in Threads, ExtendAnswers(t) \/ ExtendFails(t),
         NEW kind \in {"extended", "failed"}, PostEvent(t, kind)
  PROVE  /\ UNCHANGED <<ctx, flag, sid, taint, backoff, presses>>
         /\ thread[t].sid \in Sessions /\ ~Asked'
         /\ thread[t].sid = sid => Asked /\ Requested
         /\ Outdated' <=> Outdated
         /\ Final' <=> Final
         /\ \A k \in {"extended", "failed"} :
              /\ ~Answered(k)
              /\ Answered(k)' <=> k = kind /\ thread[t].sid = sid
<1>1. /\ UNCHANGED <<ctx, flag, sid, taint, backoff, presses>>
      /\ At(t, "extend") /\ CycleEnds(t)
  BY DEF ExtendAnswers, ExtendFails, life, main
<1>2. thread[t].sid \in Sessions
  BY <1>1 DEF RefusalInv, LeaseInv, WorkerInv, Cycles, Cycle
<1>3. ~Asked'
  <2>1. Moves(t, "idle", 0)
    BY <1>1, MovesOf DEF RefusalInv, LeaseInv, WorkerInv
  <2>2. \A u \in Threads : At(u, "extend") => u = t
    BY <1>1, AskedAlone DEF RefusalInv
  <2>3. QED
    BY <2>1, <2>2 DEF Asked, Moves, At
<1>4. thread[t].sid = sid => Asked /\ Requested
  BY <1>1 DEF Asked, Requested
<1>5. Final' <=> Final
  BY <1>1 DEF Final
<1>6. /\ Len(inbound) \in Nat /\ Len(inbound') = Len(inbound) + 1
      /\ \A i \in Waiting : inbound'[i] = inbound[i] /\ inbound[i].kind = "status"
      /\ inbound'[Len(inbound')].kind = kind /\ inbound'[Len(inbound')].sid = thread[t].sid
  <2>1. inbound'[Len(inbound')] =
          [kind |-> kind, sid |-> thread[t].sid, used |-> grants'[thread[t].sid]]
    BY PostedAt DEF RefusalInv, LeaseInv, WorkerInv
  <2>2. /\ Len(inbound) \in Nat /\ Len(inbound') = Len(inbound) + 1
        /\ \A i \in Waiting : inbound'[i] = inbound[i]
    BY PostedAt DEF RefusalInv, LeaseInv, WorkerInv, Waiting
  <2>3. \A i \in Waiting : inbound[i].kind = "status"
    BY <1>1 DEF RefusalInv, LeaseInv, Leased
  <2>4. QED
    BY <2>1, <2>2, <2>3
<1>7. /\ \A i \in Waiting' : i \in Waiting \/ i = Len(inbound')
      /\ \A i \in Waiting : i \in Waiting'
      /\ Len(inbound') \in Waiting'
  BY <1>6 DEF Waiting
<1>8. Outdated' <=> Outdated
  BY <1>1, <1>6, <1>7 DEF Outdated
<1>9. ASSUME NEW k \in {"extended", "failed"}
      PROVE  ~Answered(k) /\ (Answered(k)' <=> k = kind /\ thread[t].sid = sid)
  BY <1>1, <1>6, <1>7 DEF Answered
<1>10. QED
  BY <1>1, <1>2, <1>3, <1>4, <1>5, <1>8, <1>9

\* A refusal uses up the extension that was on its way, a grant may be the last
\* one, and a failure, which may take the backoff off again, is an error.
LEMMA BudgetExtension ==
  ASSUME RefusalInv, NEW t \in Threads, ExtendAnswers(t) \/ ExtendFails(t),
         NEW kind \in {"extended", "failed"}, PostEvent(t, kind),
         kind = "extended" => ExtendAnswers(t), kind = "failed" => ExtendFails(t)
  PROVE  Budget'
<1> DEFINE s == thread[t].sid
<1>1. /\ UNCHANGED <<ctx, flag, sid, taint, backoff, presses>>
      /\ s \in Sessions /\ ~Asked'
      /\ s = sid => Asked /\ Requested
      /\ Outdated' <=> Outdated
      /\ Final' <=> Final
      /\ \A k \in {"extended", "failed"} :
           ~Answered(k) /\ (Answered(k)' <=> k = kind /\ s = sid)
  BY Extension
<1> SUFFICES ASSUME sid # 0, ~taint
             PROVE  /\ grants'[sid] = MaxExtensions /\ Outdated => ~Final
                    /\ refusals'[sid] + ToCome' <= 3 + 2 * presses + errors'
  BY <1>1 DEF Budget
<1>2. /\ sid \in Sessions
      /\ grants \in [Sessions -> Leases] /\ refusals \in [Sessions -> Nat]
      /\ grants[sid] \in Nat /\ grants[sid] <= MaxExtensions /\ MaxExtensions \in Nat
      /\ refusals[sid] \in Nat /\ presses \in Nat /\ errors \in Nat /\ ToCome \in Nat
      /\ refusals[sid] + ToCome <= 3 + 2 * presses + errors
      /\ grants[sid] = MaxExtensions /\ Outdated => ~Final
  BY BudgetNow, RefusalTypes DEF RefusalInv, LeaseInv
<1>3. \/ kind = "extended" /\ grants[s] < MaxExtensions /\ UNCHANGED <<refusals, errors>>
         /\ grants' = [grants EXCEPT ![s] = @ + 1]
      \/ kind = "extended" /\ ~(grants[s] < MaxExtensions) /\ UNCHANGED <<grants, errors>>
         /\ refusals' = [refusals EXCEPT ![s] = @ + 1]
      \/ kind = "failed" /\ errors' = errors + 1 /\ UNCHANGED <<grants, refusals>>
  BY DEF ExtendAnswers, ExtendFails, server
<1> HIDE DEF s
<1>4. ToCome' \in Nat
  BY DEF ToCome, One
<1>5. CASE s # sid
  <2>1. grants'[sid] = grants[sid] /\ refusals'[sid] = refusals[sid]
    BY <1>1, <1>2, <1>3, <1>5
  <2>2. errors' \in Nat /\ errors <= errors'
    BY <1>2, <1>3
  <2>3. ToCome' <= ToCome
    <3>1. CASE grants[sid] < MaxExtensions
      BY <1>1, <2>1, <3>1 DEF ToCome
    <3>2. CASE grants[sid] = MaxExtensions
      BY <1>1, <1>2, <1>5, <2>1, <3>2 DEF ToCome, One
    <3>3. QED
      BY <1>2, <3>1, <3>2
  <2>4. refusals'[sid] + ToCome' <= 3 + 2 * presses + errors'
    BY <1>2, <1>4, <2>1, <2>2, <2>3, Balance
  <2>5. QED
    BY <1>2, <2>1, <2>4
<1>6. CASE s = sid /\ kind = "extended" /\ grants[s] < MaxExtensions
  <2>1. /\ grants'[sid] = grants[sid] + 1 /\ refusals'[sid] = refusals[sid] /\ errors' = errors
    BY <1>2, <1>3, <1>6
  <2>2. ToCome = 3
    BY <1>6 DEF ToCome
  <2>3. ToCome' <= 3
    <3>1. CASE grants'[sid] < MaxExtensions
      BY <1>1, <3>1 DEF ToCome
    <3>2. CASE ~(grants'[sid] < MaxExtensions)
      BY <1>1, <1>6, <3>2 DEF ToCome, One
    <3>3. QED
      BY <3>1, <3>2
  <2>4. refusals'[sid] + ToCome' <= 3 + 2 * presses + errors'
    BY <1>2, <1>4, <2>1, <2>2, <2>3, Balance
  <2>5. ~Final
    <3>1. refusals[sid] = 0
      BY <1>2, <1>6 DEF RefusalInv, RefusedLast
    <3>2. ctx.auto => ctx.used <= grants[sid]
      BY <1>1, <1>6, <3>1 DEF RefusalInv, LeaseInv, Counted
    <3>3. QED
      BY <1>2, <1>6, <3>2 DEF Final
  <2>6. QED
    BY <2>4, <2>5
<1>7. CASE s = sid /\ kind = "extended" /\ ~(grants[s] < MaxExtensions)
  <2>1. /\ grants'[sid] = grants[sid] /\ refusals'[sid] = refusals[sid] + 1 /\ errors' = errors
    BY <1>2, <1>3, <1>7
  <2>2. ToCome' + 1 <= ToCome
    BY <1>1, <1>7, <2>1 DEF ToCome, One
  <2>3. refusals'[sid] + ToCome' <= 3 + 2 * presses + errors'
    <3>1. refusals[sid] \in Nat /\ ToCome \in Nat /\ ToCome' \in Nat /\ errors \in Nat
      BY <1>2, <1>4
    <3>2. refusals'[sid] \in Nat /\ errors' \in Nat
      BY <2>1, <3>1
    <3>3. (refusals[sid] + 1) + ToCome' + errors <= refusals[sid] + ToCome + errors
      BY <2>2, <3>1, Spend
    <3>4. QED
      BY <1>2, <2>1, <3>1, <3>2, <3>3, Balance
  <2>4. QED
    BY <1>2, <2>1, <2>3
<1>8. CASE s = sid /\ kind = "failed"
  <2>1. grants'[sid] = grants[sid] /\ refusals'[sid] = refusals[sid] /\ errors' = errors + 1
    BY <1>3, <1>8
  <2>2. ToCome' <= ToCome + 1
    <3>1. CASE grants[sid] < MaxExtensions
      BY <1>1, <2>1, <3>1 DEF ToCome
    <3>2. CASE ~(grants[sid] < MaxExtensions)
      BY <1>1, <1>8, <2>1, <3>2 DEF ToCome, One
    <3>3. QED
      BY <3>1, <3>2
  <2>3. refusals'[sid] + ToCome' <= 3 + 2 * presses + errors'
    <3>1. /\ refusals'[sid] \in Nat /\ errors' \in Nat
          /\ refusals'[sid] + ToCome' + errors <= refusals[sid] + ToCome + errors'
      BY <1>2, <1>4, <2>1, <2>2
    <3>2. QED
      BY <1>2, <1>4, <3>1, Balance
  <2>4. QED
    BY <1>2, <2>1, <2>3
<1>9. QED
  BY <1>3, <1>5, <1>6, <1>7, <1>8

\* What is true of every answer drained: it was at the head, and behind the
\* answer to an extension there is nothing.
LEMMA Head1 ==
  ASSUME RefusalInv, DrainInbound, sid # 0, ~taint'
  PROVE  /\ UNCHANGED <<sid, grants, refusals, presses, errors>>
         /\ 1 \in Waiting /\ Head(inbound) = inbound[1] /\ Head(inbound).used \in Nat
         /\ Head(inbound).used <= grants[Head(inbound).sid]
         /\ ~taint /\ ~Outdated' /\ (Asked' => Asked)
         /\ Head(inbound).kind = "status" =>
              \A k \in {"failed", "extended"} : Answered(k)' <=> Answered(k)
         /\ Head(inbound).kind # "status" =>
              /\ ~Asked
              /\ \A k \in {"failed", "extended"} :
                   /\ ~Answered(k)'
                   /\ Answered(k) <=> k = Head(inbound).kind /\ Head(inbound).sid = sid
<1> DEFINE e == Head(inbound)
<1>1. /\ Len(inbound) \in Nat /\ Len(inbound) >= 1 /\ Len(inbound') = Len(inbound) - 1
      /\ \A i \in 1 .. Len(inbound') : i + 1 \in Waiting /\ i + 1 # 1 /\ inbound'[i] = inbound[i + 1]
      /\ e = inbound[1] /\ 1 \in Waiting
  BY DrainedAt DEF DrainInbound, RefusalInv, LeaseInv, WorkerInv, Waiting
<1>2. UNCHANGED <<sid, grants, refusals, presses, errors>>
  BY DEF DrainInbound, life, server
<1>3. e.used \in Nat /\ e.used <= grants[e.sid]
  <2>1. \A i \in Waiting : inbound[i].used \in Nat /\ inbound[i].used <= grants[inbound[i].sid]
    BY AnswerTypes DEF RefusalInv, LeaseInv, WorkerInv, Leased
  <2>2. QED
    BY <1>1, <2>1
<1>4. ~taint
  BY DEF DrainInbound, ApplyQueueStatus, DropQueueStatus, ApplyExtendFailure, ApplyExtendResult, main
<1>5. Asked' => Asked
  <2>1. UNCHANGED <<thread, cur>> \/ EnsureWorker
    BY DEF DrainInbound, ApplyQueueStatus, DropQueueStatus, ApplyExtendFailure,
           ApplyExtendResult, RequestExtend
  <2>2. \A t \in Threads : thread'[t] = thread[t] \/ thread'[t] = Fresh
    BY <2>1, EnsureWorkerKeeps DEF RefusalInv, LeaseInv, WorkerInv
  <2>3. QED
    BY <1>2, <2>2 DEF Asked, At, Fresh
<1>6. \A i \in Waiting' : inbound'[i].kind # "status"
  BY <1>1 DEF RefusalInv, UpToDate, Waiting
<1>7. ~Outdated'
  BY <1>6 DEF Outdated
<1>8. ASSUME e.kind = "status", NEW k \in {"failed", "extended"}
      PROVE  Answered(k)' <=> Answered(k)
  <2>1. Answered(k)' => Answered(k)
    BY <1>1, <1>2 DEF Answered, Waiting
  <2>2. ASSUME NEW i \in Waiting, inbound[i].kind = k, inbound[i].sid = sid
        PROVE  Answered(k)'
    <3>1. i # 1
      BY <1>1, <1>8, <2>2
    <3>2. i - 1 \in Waiting' /\ inbound'[i - 1] = inbound[i]
      BY <1>1, <3>1 DEF Waiting
    <3>3. QED
      BY <1>2, <2>2, <3>2 DEF Answered
  <2>3. QED
    BY <2>1, <2>2 DEF Answered
<1>9. ASSUME e.kind # "status"
      PROVE  /\ ~Asked
             /\ \A k \in {"failed", "extended"} :
                  /\ ~Answered(k)'
                  /\ Answered(k) <=> k = e.kind /\ e.sid = sid
  <2>1. 1 = Len(inbound) /\ ~Asked
    BY <1>1, <1>9, AskedAlone DEF RefusalInv
  <2>2. Waiting' = {} /\ Waiting = {1}
    <3>1. Len(inbound') = 1 - 1
      BY <1>1, <2>1
    <3>2. 1 .. (1 - 1) = {} /\ 1 .. 1 = {1}
      OBVIOUS
    <3>3. QED
      BY <2>1, <3>1, <3>2 DEF Waiting
  <2>3. QED
    BY <1>1, <2>1, <2>2 DEF Answered
<1>10. QED
  BY <1>1, <1>2, <1>3, <1>4, <1>5, <1>7, <1>8, <1>9

\* The count an up-to-date answer leaves is the last one there is.
LEMMA LastCount ==
  ASSUME RefusalInv, sid # 0, ~taint, grants[sid] = MaxExtensions,
         NEW e, e.used = MaxExtensions
  PROVE  Count(e) = MaxExtensions
<1>1. used <= grants[sid] /\ used \in Nat /\ MaxExtensions \in Nat
  BY RefusalTypes DEF RefusalInv, LeaseInv, Counted
<1>2. QED
  BY <1>1 DEF Count

\* An automatic request is made at the last count, or an outdated answer is
\* used up by it; a refusal of it parks.
LEMMA BudgetDrain == RefusalInv /\ DrainInbound => Budget'
<1> SUFFICES ASSUME RefusalInv, DrainInbound, sid' # 0, ~taint'
             PROVE  /\ grants'[sid'] = MaxExtensions /\ Outdated' => ~Final'
                    /\ refusals'[sid'] + ToCome' <= 3 + 2 * presses' + errors'
  BY DEF Budget
<1> DEFINE e == Head(inbound)
<1>0. sid # 0
  BY DEF DrainInbound, life
<1>1. /\ UNCHANGED <<sid, grants, refusals, presses, errors>>
      /\ 1 \in Waiting /\ e = inbound[1] /\ e.used \in Nat /\ e.used <= grants[e.sid]
      /\ ~taint /\ ~Outdated' /\ (Asked' => Asked)
      /\ e.kind = "status" =>
           \A k \in {"failed", "extended"} : Answered(k)' <=> Answered(k)
      /\ e.kind # "status" =>
           /\ ~Asked
           /\ \A k \in {"failed", "extended"} :
                /\ ~Answered(k)'
                /\ Answered(k) <=> k = e.kind /\ e.sid = sid
  BY <1>0, Head1
<1>2. /\ grants[sid] = MaxExtensions /\ Outdated => ~Final
      /\ refusals[sid] + ToCome <= 3 + 2 * presses + errors
      /\ grants[sid] \in Nat /\ grants[sid] <= MaxExtensions /\ refusals[sid] \in Nat
      /\ MaxExtensions \in Nat /\ presses \in Nat /\ errors \in Nat /\ ToCome \in Nat
  BY <1>0, <1>1, BudgetNow
<1>3. grants'[sid'] = grants[sid] /\ ToCome' \in Nat
  BY <1>1 DEF ToCome, One
<1>4. CASE grants[sid] < MaxExtensions
  BY <1>1, <1>2, <1>3, <1>4 DEF ToCome
<1>5. CASE grants[sid] = MaxExtensions
  <2> HIDE DEF e
  <2>1. CASE ApplyQueueStatus(e) /\ flag' # flag
    <3>1. /\ e.kind = "status" /\ e.sid = sid /\ ~flag /\ backoff = "none" /\ backoff' = "none"
          /\ flag' = TRUE /\ ctx' = [auto |-> TRUE, used |-> Count(e)]
      BY <1>1, <2>1 DEF ApplyQueueStatus, RequestExtend
    <3>2. CASE e.used < MaxExtensions
      <4>1. Outdated /\ ~Final
        BY <1>1, <1>2, <1>5, <3>1, <3>2 DEF Outdated
      <4>2. ToCome' <= ToCome
        BY <1>1, <1>3, <1>5, <3>1, <4>1 DEF ToCome, One
      <4>3. QED
        BY <1>1, <1>2, <1>3, <4>2
    <3>3. CASE e.used = MaxExtensions
      <4>1. Count(e) = MaxExtensions
        BY <1>0, <1>1, <1>5, <3>3, LastCount
      <4>2. Final'
        BY <3>1, <4>1 DEF Final
      <4>3. ToCome' <= ToCome
        BY <1>1, <1>3, <1>5, <3>1, <4>2 DEF ToCome, One
      <4>4. QED
        BY <1>1, <1>2, <1>3, <4>3
    <3>4. QED
      BY <1>1, <1>2, <1>5, <3>1, <3>2, <3>3
  <2>2. CASE (ApplyQueueStatus(e) /\ flag' = flag) \/ DropQueueStatus(e)
    <3>1. e.kind = "status" /\ UNCHANGED <<flag, ctx, backoff>>
      BY <2>2 DEF ApplyQueueStatus, DropQueueStatus, RequestExtend, main
    <3>2. Final' <=> Final
      BY <3>1 DEF Final
    <3>3. ToCome' <= ToCome
      BY <1>1, <1>3, <1>5, <3>1, <3>2 DEF ToCome, One
    <3>4. QED
      BY <1>1, <1>2, <1>3, <3>3
  <2>3. CASE ApplyExtendFailure(e)
    <3>1. /\ e.kind = "failed" /\ e.sid = sid /\ UNCHANGED <<flag, ctx>>
          /\ backoff' = "parked" => backoff = "parked"
      BY <1>1, <2>3 DEF ApplyExtendFailure
    <3>2. Final' <=> Final
      BY <3>1 DEF Final
    <3>3. ToCome' <= ToCome
      BY <1>1, <1>3, <1>5, <3>1, <3>2 DEF ToCome, One
    <3>4. QED
      BY <1>1, <1>2, <1>3, <3>3
  <2>4. CASE ApplyExtendResult(e)
    <3>1. /\ e.kind = "extended" /\ e.sid = sid /\ UNCHANGED <<flag, ctx>>
          /\ backoff' = IF ctx.auto /\ Count(e) = ctx.used THEN "parked" ELSE backoff
      BY <1>1, <2>4 DEF ApplyExtendResult
    <3>2. e.used = MaxExtensions
      BY <1>1, <1>5, <3>1 DEF RefusalInv, UpToDate
    <3>3. Count(e) = MaxExtensions
      BY <1>0, <1>1, <1>5, <3>2, LastCount
    <3>4. /\ Final' <=> Final
          /\ backoff' = IF Final THEN "parked" ELSE backoff
      BY <3>1, <3>3 DEF Final
    <3>5. ToCome' <= ToCome
      BY <1>1, <1>3, <1>5, <3>1, <3>4 DEF ToCome, One
    <3>6. QED
      BY <1>1, <1>2, <1>3, <3>5
  <2>5. QED
    BY <2>1, <2>2, <2>3, <2>4 DEF DrainInbound, e
<1>6. QED
  BY <1>2, <1>4, <1>5

\* The budget is kept by every step.
LEMMA BudgetStep == RefusalInv /\ [Next]_vars => Budget'
<1> SUFFICES ASSUME RefusalInv, [Next]_vars PROVE Budget'
  OBVIOUS
<1>0. /\ TypeOK /\ WorkerInv /\ sid \in Nat /\ taint \in BOOLEAN
      /\ presses \in Nat /\ errors \in Nat
  BY RefusalTypes DEF RefusalInv, LeaseInv, WorkerInv
<1>1. CASE Connect \/ FailoverTick
  BY <1>1, BudgetJoin
<1>2. CASE Opened \/ Closed \/ Disconnect \/ BlipOver \/ SetMode
  <2>1. /\ UNCHANGED <<inbound, grants, refusals, taint, ctx, flag, presses, errors>>
        /\ sid' \in {sid, 0} /\ (backoff' = "parked" <=> backoff = "parked")
    BY <1>2 DEF Opened, Closed, BlipOver, Disconnect, SetMode, main, server, life
  <2>2. \A t \in Threads : thread'[t].pc = thread[t].pc /\ thread'[t].sid = thread[t].sid
    BY <1>0, <1>2, ToldToStop DEF Opened, Closed, BlipOver, Disconnect, SetMode
  <2>3. sid' = sid => (Asked' => Asked)
    BY <2>2 DEF Asked, At
  <2>4. QED
    BY <1>0, <2>1, <2>3, BudgetQuiet
<1>3. CASE MaybeHeartbeatFromFrame
  <2>1. \A t \in Threads : thread'[t] = thread[t] \/ thread'[t] = Fresh
    BY <1>0, <1>3, EnsureWorkerKeeps DEF MaybeHeartbeatFromFrame, WorkerInv
  <2>2. /\ UNCHANGED <<inbound, grants, refusals, taint, ctx, flag, sid, backoff, presses, errors>>
    BY <1>3 DEF MaybeHeartbeatFromFrame, life, main, server
  <2>3. Asked' => Asked
    BY <2>1, <2>2 DEF Asked, At, Fresh
  <2>4. QED
    BY <1>0, <2>2, <2>3, BudgetQuiet
<1>4. CASE StillPlaying
  BY <1>4, BudgetPress
<1>5. CASE DrainInbound
  BY <1>5, BudgetDrain
<1>6. ASSUME NEW t \in Threads, Worker(t) PROVE Budget'
  <2>1. CASE \/ Stops(t) \/ PollOnce(t) \/ StatusFails(t)
             \/ StatusAnswers(t) /\ UNCHANGED <<inbound, server>>
    <3>1. /\ UNCHANGED <<inbound, grants, refusals, taint, ctx, flag, sid, backoff, presses>>
          /\ errors' \in Nat /\ errors <= errors'
      BY <1>0, <2>1 DEF Stops, PollOnce, StatusFails, StatusAnswers, life, main, server
    <3>2. PICK p \in PCs, z \in {0, sid, thread[t].sid} : Moves(t, p, z) /\ p # "extend"
      <4>1. CASE Stops(t)
        BY <1>0, <4>1, MovesOf DEF Stops, PCs
      <4>2. CASE PollOnce(t)
        BY <1>0, <4>2, MovesOf DEF PollOnce, PCs
      <4>3. CASE StatusFails(t)
        BY <1>0, <4>3, MovesOf DEF StatusFails, PCs
      <4>4. CASE StatusAnswers(t)
        BY <1>0, <4>4, MovesOf DEF StatusAnswers, PCs
      <4>5. QED
        BY <2>1, <4>1, <4>2, <4>3, <4>4
    <3>3. Asked' => Asked
      BY <3>1, <3>2 DEF Asked, Moves, At
    <3>4. presses' \in Nat /\ presses <= presses'
      BY <1>0, <3>1
    <3>5. QED
      BY <1>0, <3>1, <3>3, <3>4, BudgetQuiet
  <2>2. CASE PopExtendFlag(t)
    BY <2>2, BudgetPop
  <2>3. CASE StatusAnswers(t) /\ UNCHANGED <<server, errors>> /\ PostEvent(t, "status")
    BY <2>3, BudgetStatus
  <2>4. CASE ExtendAnswers(t)
    BY <2>4, BudgetExtension DEF ExtendAnswers
  <2>5. CASE ExtendFails(t)
    BY <2>5, BudgetExtension DEF ExtendFails
  <2>6. QED
    BY <1>6, <2>1, <2>2, <2>3, <2>4, <2>5 DEF Worker, StatusAnswers
<1>7. ASSUME (\E s \in Sessions : LeaseRunsLow(s)) \/ UNCHANGED vars PROVE Budget'
  <2>1. UNCHANGED <<inbound, grants, refusals, taint, ctx, flag, sid, backoff, presses, errors, thread>>
    BY <1>7 DEF LeaseRunsLow, vars, life, main, server
  <2>2. Asked' <=> Asked
    BY <2>1 DEF Asked, At
  <2>3. QED
    BY <1>0, <2>1, <2>2, BudgetQuiet
<1>8. QED
  BY <1>1, <1>2, <1>3, <1>4, <1>5, <1>6, <1>7 DEF Next

\* A session no earlier one has touched is refused at most three extensions, and
\* two more for each press of Still Playing and one for each failed call.
THEOREM RefusalsBoundedAlways == Spec => []RefusalsBounded
<1>1. RefusalInv /\ [Next]_vars => RefusalInv'
  BY LeaseStep, UpToDateStep, RefusedLastStep, BudgetStep DEF RefusalInv
<1>2. RefusalInv => RefusalsBounded
  <2> SUFFICES ASSUME RefusalInv, sid # 0, ~taint
               PROVE  refusals[sid] <= 3 + 2 * presses + errors
    BY DEF RefusalsBounded
  <2>1. /\ refusals[sid] \in Nat /\ ToCome \in Nat /\ presses \in Nat /\ errors \in Nat
        /\ refusals[sid] + ToCome <= 3 + 2 * presses + errors
    BY BudgetNow
  <2>2. QED
    BY <2>1
<1>3. QED
  BY <1>1, <1>2, RefusalInit, PTL DEF Spec
=============================================================================
