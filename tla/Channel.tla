------------------------------- MODULE Channel -------------------------------
(***************************************************************************)
(* What WSClient promises the rest of the program about outbound traffic:  *)
(* one ordered stream of discrete messages and one slot of parameters.     *)
(* Discrete messages reach the socket in the order they were accepted and  *)
(* at most once; when the stream is full one waiting message may give way  *)
(* to a new one.  Of the parameters only the newest unsent value counts.   *)
(***************************************************************************)
EXTENDS Naturals, Sequences, SequencesExt

CONSTANTS Messages, Params, NoParams

VARIABLES
  stream,     \* accepted discrete messages not yet on the wire, oldest first
  slot,       \* the newest parameters not yet on the wire, or NoParams
  delivered   \* everything written to the socket, in order

vars == <<stream, slot, delivered>>

Init == stream = <<>> /\ slot = NoParams /\ delivered = <<>>

Accept(m) == stream' = Append(stream, m) /\ UNCHANGED <<slot, delivered>>

Displace(m) ==
  /\ \E i \in DOMAIN stream : stream' = Append(RemoveAt(stream, i), m)
  /\ UNCHANGED <<slot, delivered>>

Deliver ==
  /\ stream # <<>>
  /\ delivered' = Append(delivered, Head(stream))
  /\ stream' = Tail(stream)
  /\ UNCHANGED slot

Publish(p) == slot' = p /\ UNCHANGED <<stream, delivered>>

DeliverParams ==
  /\ slot # NoParams
  /\ delivered' = Append(delivered, slot)
  /\ slot' = NoParams
  /\ UNCHANGED stream

\* The connection ends, or starts afresh: what was unsent is forgotten.
Forget ==
  /\ \E n \in 0..Len(stream) : stream' = SubSeq(stream, n + 1, Len(stream))
  /\ slot' \in {slot, NoParams}
  /\ UNCHANGED delivered

Next ==
  \/ \E m \in Messages : Accept(m) \/ Displace(m)
  \/ \E p \in Params : Publish(p)
  \/ Deliver \/ DeliverParams \/ Forget

Spec == Init /\ [][Next]_vars
=============================================================================
