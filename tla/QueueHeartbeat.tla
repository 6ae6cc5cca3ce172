--------------------------- MODULE QueueHeartbeat ---------------------------
(***************************************************************************)
(* The queue heartbeat of a hosted session: QueueHeartbeatWorker           *)
(* (queue_worker.py), which polls the queue API on a thread of its own, and *)
(* the main-thread code of DemonExt that starts and stops it, applies its   *)
(* answers, and asks it to extend the lease.                                *)
(*                                                                         *)
(* A session is the number of the join that made it.  A lease is the number *)
(* of extensions granted before it; lease g of session s has less than 60 s *)
(* to go iff g < lowered[s], which stands for the clock.  Of the 5 s between *)
(* two polls the module keeps what matters: the main thread, which drains   *)
(* every frame, has drained the answers of one cycle before the next begins. *)
(*                                                                         *)
(* A connection in direct mode has no session and is left out: what it would *)
(* change here, the next join sets anew.  The throttle that has the frame    *)
(* driver look for the worker once a second is a delay, which only fairness  *)
(* speaks of.                                                                *)
(***************************************************************************)
EXTENDS Integers, Sequences, FiniteSets

CONSTANTS
  MaxSessions,    \* bound: joins, by the user or by a failover
  MaxExtensions,  \* the extensions the queue API grants to a session
  MaxErrors,      \* bound: HTTP calls that fail, and odd status answers
  MaxPresses,     \* bound: pulses of Still Playing
  MaxSwitches     \* bound: changes of the Mode parameter

ASSUME ConstantsAreNat ==
  /\ MaxSessions \in Nat /\ MaxExtensions \in Nat /\ MaxErrors \in Nat
  /\ MaxPresses \in Nat /\ MaxSwitches \in Nat

Sessions == 1 .. MaxSessions
Threads  == {1, 2}                \* two, so that a second live one would show
Leases   == 0 .. MaxExtensions

VARIABLES
  sid,         \* _session_id: 0 is None
  made,        \* joins so far
  opening,     \* the newest client's open event may still come
  connected,   \* _connected
  retry,       \* a failover tick is under way
  used,        \* _extensions_used
  flag,        \* _hb_extend_requested
  ctx,         \* _hb_extend_ctx: automatic or not, _extensions_used at the request
  backoff,     \* _auto_extend_backoff_until: "none" | "blip" (5 s) | "parked" (24 h)
  inbound,     \* the worker's part of _inbound
  thread,      \* the worker threads: pc, the session read, _stop_evt
  cur,         \* the thread of self._hb_worker, 0 when there is none
  grants,      \* queue API: extensions granted
  lowered,     \* queue API and clock: leases that have come under 60 s
  refusals,    \* queue API: extensions refused
  errors, presses,
  switches,    \* changes of the Mode parameter, which is hosted at first
  taint        \* an answer about an earlier session reached this one

main   == <<used, flag, ctx, backoff, taint>>
server == <<grants, lowered, refusals>>
life   == <<sid, made, opening, connected, retry, switches>>
vars   == <<life, main, inbound, thread, cur, server, errors, presses>>

\* The Mode parameter, which the code reads live.
Hosted == switches % 2 = 0

Off    == [pc |-> "off", sid |-> 0, stop |-> FALSE]
Fresh  == [pc |-> "idle", sid |-> 0, stop |-> FALSE]
ThreadState == [pc : {"off", "idle", "status", "pop", "extend"},
                sid : 0 .. MaxSessions, stop : BOOLEAN]
Context == [auto : BOOLEAN, used : Leases]
Answer == [kind : {"status", "extended", "failed"},
           sid : Sessions, used : Leases]

TypeOK ==
  /\ sid \in 0 .. MaxSessions /\ made \in 0 .. MaxSessions
  /\ opening \in BOOLEAN /\ connected \in BOOLEAN /\ retry \in BOOLEAN
  /\ switches \in 0 .. MaxSwitches
  /\ used \in Leases /\ flag \in BOOLEAN
  /\ ctx \in Context
  /\ backoff \in {"none", "blip", "parked"}
  /\ inbound \in Seq(Answer) /\ Len(inbound) <= 2
  /\ thread \in [Threads -> ThreadState]
  /\ cur \in {0} \union Threads
  /\ grants \in [Sessions -> Leases] /\ lowered \in [Sessions -> 0 .. MaxExtensions + 1]
  /\ refusals \in [Sessions -> Nat]
  /\ errors \in 0 .. MaxErrors /\ presses \in 0 .. MaxPresses
  /\ taint \in BOOLEAN

Init ==
  /\ sid = 0 /\ made = 0 /\ opening = FALSE /\ connected = FALSE /\ retry = FALSE
  /\ switches = 0
  /\ used = 0 /\ flag = FALSE /\ ctx = [auto |-> FALSE, used |-> 0]
  /\ backoff = "none" /\ taint = FALSE
  /\ inbound = << >> /\ thread = [t \in Threads |-> Off] /\ cur = 0
  /\ grants = [s \in Sessions |-> 0] /\ lowered = [s \in Sessions |-> 0]
  /\ refusals = [s \in Sessions |-> 0]
  /\ errors = 0 /\ presses = 0

Alive(t) == thread[t].pc # "off"
Low(s, g) == g < lowered[s]

\* The number a new thread gets: which makes no difference, so it is the first.
Free(t) == ~Alive(t) /\ \A u \in Threads : ~Alive(u) => t <= u

EnsureWorker_Anew ==        \* mutant: a new worker whenever the old one was told to stop
  IF cur # 0 /\ Alive(cur) /\ ~thread[cur].stop
  THEN UNCHANGED <<thread, cur>>
  ELSE \E t \in Threads : /\ Free(t) /\ cur' = t
                          /\ thread' = [thread EXCEPT ![t] = Fresh]

\* A worker is made and started only when there is none whose thread runs.
EnsureWorker ==
  IF cur # 0 /\ Alive(cur)
  THEN UNCHANGED <<thread, cur>>
  ELSE \E t \in Threads : /\ Free(t) /\ cur' = t
                          /\ thread' = [thread EXCEPT ![t] = Fresh]

-----------------------------------------------------------------------------
(* Main thread: sessions come and go.                                      *)

\* What a join that ends active does, whoever asked for it.
Join ==
  /\ made < MaxSessions
  /\ made' = made + 1 /\ sid' = made + 1 /\ opening' = TRUE
  /\ used' = 0 /\ flag' = FALSE
  /\ EnsureWorker
  /\ UNCHANGED <<ctx, inbound, server, errors, presses>>

Connect ==
  /\ ~connected /\ Hosted /\ Join
  /\ backoff' = "none" /\ taint' = FALSE
  /\ UNCHANGED <<connected, retry, switches>>

\* The failover tick joins again, in whatever mode, and keeps the backoff.
FailoverTick ==
  /\ retry /\ retry' = FALSE /\ Join
  /\ taint' = (backoff # "none")
  /\ UNCHANGED <<connected, backoff, switches>>

\* The open event is drained.
Opened ==
  /\ opening /\ opening' = FALSE /\ connected' = TRUE
  /\ UNCHANGED <<sid, made, retry, switches, main, inbound, thread, cur, server, errors, presses>>

\* The close event is drained; before ready it starts a failover.  With the mode
\* switched to direct it does neither that nor give the session up.
Closed ==
  /\ opening \/ connected
  /\ opening' = FALSE /\ connected' = FALSE
  /\ IF Hosted THEN sid' = 0 /\ retry' \in {retry, TRUE} ELSE UNCHANGED <<sid, retry>>
  /\ UNCHANGED <<made, switches, main, inbound, thread, cur, server, errors, presses>>

\* stop() sets the event and joins for two seconds at most: a thread that is
\* in an HTTP call lives on.
Disconnect ==
  /\ sid # 0 /\ sid' = 0 /\ opening' = FALSE /\ connected' = FALSE
  /\ thread' = IF cur = 0 THEN thread ELSE [thread EXCEPT ![cur].stop = TRUE]
  /\ UNCHANGED <<made, retry, switches, main, inbound, cur, server, errors, presses>>

\* The Mode menu is not reverted while a session is up.
SetMode ==
  /\ switches < MaxSwitches /\ switches' = switches + 1
  /\ UNCHANGED <<sid, made, opening, connected, retry, main, inbound, thread, cur, server,
                 errors, presses>>

MaybeHeartbeatFromFrame_Trusts ==      \* mutant: a worker object is taken for a live one
  /\ connected /\ sid # 0 /\ Hosted /\ cur = 0 /\ EnsureWorker
  /\ UNCHANGED <<life, main, inbound, server, errors, presses>>

\* The frame driver keeps the worker alive while a hosted session is up.
MaybeHeartbeatFromFrame ==
  /\ connected /\ sid # 0 /\ Hosted /\ EnsureWorker
  /\ UNCHANGED <<life, main, inbound, server, errors, presses>>

-----------------------------------------------------------------------------
(* Main thread: extensions.  used is the value of _extensions_used by then. *)

RequestExtend(auto, u) ==
  IF sid = 0
  THEN UNCHANGED <<ctx, flag, thread, cur>>
  ELSE /\ ctx' = [auto |-> auto, used |-> IF auto THEN u ELSE 0]
       /\ flag' = TRUE /\ EnsureWorker

StillPlaying ==
  /\ presses < MaxPresses /\ presses' = presses + 1
  /\ RequestExtend(FALSE, used)
  /\ UNCHANGED <<life, used, backoff, taint, inbound, server, errors>>

\* `extensions_used or old`: an answer of 0 leaves the old count.
Count(e) == IF e.used # 0 THEN e.used ELSE used

ApplyQueueStatus(e) ==
  /\ e.kind = "status" /\ connected
  /\ used' = Count(e)
  /\ taint' = (taint \/ e.sid # sid)
  /\ IF Low(e.sid, e.used) /\ ~flag /\ backoff = "none"
     THEN RequestExtend(TRUE, Count(e))
     ELSE UNCHANGED <<ctx, flag, thread, cur>>
  /\ UNCHANGED backoff

DropQueueStatus(e) ==
  /\ e.kind = "status" /\ ~connected
  /\ UNCHANGED <<main, thread, cur>>

ApplyExtendFailure_Parks(e) ==         \* mutant: a network blip counts as a refusal
  /\ e.kind = "failed"
  /\ backoff' = IF ctx.auto THEN "parked" ELSE backoff
  /\ taint' = (taint \/ e.sid # sid)
  /\ UNCHANGED <<used, flag, ctx, thread, cur>>

ApplyExtendFailure(e) ==
  /\ e.kind = "failed"
  /\ backoff' = IF ctx.auto THEN "blip" ELSE backoff
  /\ taint' = (taint \/ e.sid # sid)
  /\ UNCHANGED <<used, flag, ctx, thread, cur>>

ApplyExtendResult_Stale(e) ==      \* mutant: compared before the count is taken over
  /\ e.kind = "extended"
  /\ used' = Count(e)
  /\ backoff' = IF ctx.auto /\ used = ctx.used THEN "parked" ELSE backoff
  /\ taint' = (taint \/ e.sid # sid)
  /\ UNCHANGED <<flag, ctx, thread, cur>>

ApplyExtendResult_NoBackoff(e) ==  \* mutant: a refusal is taken for a grant
  /\ e.kind = "extended"
  /\ used' = Count(e)
  /\ taint' = (taint \/ e.sid # sid)
  /\ UNCHANGED <<flag, ctx, backoff, thread, cur>>

ApplyExtendResult(e) ==
  /\ e.kind = "extended"
  /\ used' = Count(e)
  /\ backoff' = IF ctx.auto /\ Count(e) = ctx.used THEN "parked" ELSE backoff
  /\ taint' = (taint \/ e.sid # sid)
  /\ UNCHANGED <<flag, ctx, thread, cur>>

DrainInbound ==
  /\ inbound # << >> /\ inbound' = Tail(inbound)
  /\ LET e == Head(inbound) IN
       \/ ApplyQueueStatus(e) \/ DropQueueStatus(e)
       \/ ApplyExtendFailure(e) \/ ApplyExtendResult(e)
  /\ UNCHANGED <<life, server, errors, presses>>

\* Five seconds pass.
BlipOver ==
  /\ backoff = "blip" /\ backoff' = "none"
  /\ UNCHANGED <<life, used, flag, ctx, taint, inbound, thread, cur, server, errors, presses>>

-----------------------------------------------------------------------------
(* The worker thread t.                                                    *)

At(t, pc) == thread[t].pc = pc
Goes(t, pc) == thread' = [thread EXCEPT ![t].pc = pc]
CycleEnds(t) ==
  thread' = [thread EXCEPT ![t] = [pc |-> "idle", sid |-> 0, stop |-> @.stop]]
PostEvent_Twice(t, kind) ==            \* mutant: posted by the poll and by the loop
  LET e == [kind |-> kind, sid |-> thread[t].sid, used |-> grants'[thread[t].sid]] IN
    inbound' = inbound \o <<e, e>>

PostEvent(t, kind) ==
  LET s == thread[t].sid IN
    inbound' = Append(inbound, [kind |-> kind, sid |-> s, used |-> grants'[s]])

Stops(t) ==
  /\ At(t, "idle") /\ thread[t].stop
  /\ thread' = [thread EXCEPT ![t] = Off]
  /\ UNCHANGED <<life, main, inbound, cur, server, errors, presses>>

\* get_state, then GET /api/queue/status goes out.
PollOnce(t) ==
  /\ At(t, "idle") /\ ~thread[t].stop /\ connected /\ sid # 0
  /\ inbound = << >>
  /\ thread' = [thread EXCEPT ![t] = [pc |-> "status", sid |-> sid, stop |-> @.stop]]
  /\ UNCHANGED <<life, main, inbound, cur, server, errors, presses>>

\* hb-error is only logged, so it is not queued; nothing is popped.
StatusFails(t) ==
  /\ At(t, "status") /\ errors < MaxErrors /\ errors' = errors + 1
  /\ CycleEnds(t)
  /\ UNCHANGED <<life, main, inbound, cur, server, presses>>

\* An answer other than active is shown and changes nothing: not queued either.
StatusAnswers(t) ==
  /\ At(t, "status") /\ Goes(t, "pop")
  /\ \/ UNCHANGED server /\ PostEvent(t, "status") /\ UNCHANGED errors
     \/ errors < MaxErrors /\ errors' = errors + 1 /\ UNCHANGED <<inbound, server>>
  /\ UNCHANGED <<life, main, cur, presses>>

\* pop_extend_flag tests and clears in two steps; what the main thread can do
\* between them, setting the flag again, is what it can do just before.
PopExtendFlag(t) ==
  /\ At(t, "pop") /\ flag' = FALSE
  /\ IF flag THEN Goes(t, "extend") ELSE CycleEnds(t)
  /\ UNCHANGED <<life, used, ctx, backoff, taint, inbound, cur, server, errors, presses>>

\* POST /api/queue/extend for the session read at the start of the cycle.
ExtendAnswers(t) ==
  /\ At(t, "extend") /\ CycleEnds(t)
  /\ LET s == thread[t].sid IN
       IF grants[s] < MaxExtensions
       THEN grants' = [grants EXCEPT ![s] = @ + 1] /\ UNCHANGED refusals
       ELSE refusals' = [refusals EXCEPT ![s] = @ + 1] /\ UNCHANGED grants
  /\ PostEvent(t, "extended")
  /\ UNCHANGED <<life, main, cur, lowered, errors, presses>>

ExtendFails(t) ==
  /\ At(t, "extend") /\ errors < MaxErrors /\ errors' = errors + 1
  /\ CycleEnds(t) /\ UNCHANGED server /\ PostEvent(t, "failed")
  /\ UNCHANGED <<life, main, cur, presses>>

Worker(t) ==
  \/ Stops(t) \/ PollOnce(t) \/ StatusFails(t) \/ StatusAnswers(t)
  \/ PopExtendFlag(t) \/ ExtendAnswers(t) \/ ExtendFails(t)

\* The lease of session s comes under a minute.
LeaseRunsLow(s) ==
  /\ s <= made /\ lowered[s] = grants[s] /\ lowered' = [lowered EXCEPT ![s] = @ + 1]
  /\ UNCHANGED <<life, main, inbound, thread, cur, grants, refusals, errors, presses>>

-----------------------------------------------------------------------------
Next ==
  \/ Connect \/ FailoverTick \/ Opened \/ Closed \/ Disconnect \/ SetMode
  \/ MaybeHeartbeatFromFrame \/ StillPlaying \/ DrainInbound \/ BlipOver
  \/ \E t \in Threads : Worker(t)
  \/ \E s \in Sessions : LeaseRunsLow(s)

\* The frame driver runs every frame, the worker's thread is scheduled, its
\* HTTP calls end (10 s timeout), and five seconds pass.
Fairness ==
  /\ WF_vars(DrainInbound) /\ WF_vars(MaybeHeartbeatFromFrame) /\ WF_vars(BlipOver)
  /\ \A t \in Threads : WF_vars(Worker(t))

Spec == Init /\ [][Next]_vars /\ Fairness

-----------------------------------------------------------------------------
\* However Disconnect and Connect cut into an HTTP call, no two worker threads
\* run: two would poll twice and race for the extend flag.
\* (_ensure_hb_worker, QueueHeartbeatWorker.start and stop)
OneWorker == \A t, u \in Threads : Alive(t) /\ Alive(u) => t = u

Refused == sid = 0 \/ refusals[sid] > 0

\* Automatic extension is put off for a day only after the queue API refused
\* one to this very session, as long as no answer about an earlier session
\* was applied to it; without that exemption it fails, as an answer names no
\* session.  (_apply_extend_result, _request_extend)
ParkedIfRefused ==
  [][backoff # "parked" /\ backoff' = "parked" => Refused \/ taint']_vars

\* A session that has used up its extensions is not asked for more over and
\* over.  (the backoff of _apply_extend_result)
RefusalsBounded == sid # 0 /\ ~taint => refusals[sid] <= 3 + 2 * presses + errors

\* A session that is up gets polled, even if the worker that Connect found was
\* on its way out, as long as the mode stays hosted.  (MaybeHeartbeatFromFrame)
PollsResume ==
  connected /\ sid # 0 /\ Hosted
    ~> ~connected \/ ~Hosted \/ \E t \in Threads : At(t, "status") /\ thread[t].sid = sid

\* A lease that runs low is extended while the queue API grants extensions,
\* through failed calls, odd answers and the user's own requests.
LeaseExtended ==
  connected /\ sid # 0 /\ Hosted /\ grants[sid] < MaxExtensions /\ Low(sid, grants[sid])
    ~> ~connected \/ ~Hosted \/ taint \/ ~Low(sid, grants[sid])
=============================================================================
