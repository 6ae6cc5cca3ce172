----------------------------- MODULE LoopBuffer -----------------------------
(***************************************************************************)
(* The loop of audio every track plays from.  The recv thread initialises  *)
(* and patches it, the main thread clears it, the audio thread reads it    *)
(* and owns the playhead.  Each operation holds the lock, except           *)
(* mark_patched, which comes after the patch it reports.                   *)
(*                                                                         *)
(* A sample is abstracted to the frame it is stored at; what is heard is   *)
(* the frame read, or the blend of a frame at the tail of the loop with    *)
(* one at its head.                                                        *)
(***************************************************************************)
EXTENDS Integers, Sequences

CONSTANTS
  Sizes,        \* loop lengths in frames that a pod may send; under four frames a
                \* loop has no seam, which is not modelled
  SeamFrames,   \* _seam_frames, 2400 in the code
  ChunkFrames,  \* _coverage_chunk_frames, 48000 in the code
  MaxBlock,     \* longest block a callback asks for or a slice carries
  Slices        \* frames a slice may carry

ASSUME LoopAssumption ==
  /\ Sizes \subseteq Nat \ 0..3
  /\ SeamFrames \in Nat \ {0} /\ ChunkFrames \in Nat \ {0} /\ MaxBlock \in Nat \ {0}
  /\ Slices \subseteq 1..MaxBlock

VARIABLES
  frames,     \* _frames; 0 when there is no loop
  position,   \* _position
  patched,    \* chunks set in _patched_chunks
  unmarked,   \* the slice patched but not yet marked, <<>> when there is none
  written     \* history: chunks a slice has landed in since init

vars == <<frames, position, patched, unmarked, written>>

Lesser(a, b) == IF a < b THEN a ELSE b

Seam   == Lesser(SeamFrames, frames \div 4)
Chunks == 0..((frames + ChunkFrames - 1) \div ChunkFrames - 1)

TypeOK ==
  /\ frames \in {0} \cup Sizes
  /\ position \in 0..frames
  /\ patched \subseteq Chunks
  /\ unmarked \in {<<>>} \cup (Nat \X (1..MaxBlock))
  /\ written \subseteq Chunks

-----------------------------------------------------------------------------
(* Reading *)

\* What one output sample is made of: a frame of the loop and, inside the
\* seam, the frame of the head folded over it.  Its place in the head is also the
\* index of the crossfade weight.
Raw(p)       == [at |-> p, fold |-> -1]
Folded(p, h) == [at |-> p, fold |-> h]

\* The offset of position p into the seam.  The mutated form is off by one.
SeamOffset_OffByOne(p) == Seam - (frames - p) + 1
SeamOffset(p) == Seam - (frames - p)

\* Where the playhead goes when it reaches the end of the loop: past the head,
\* which was folded in already.  The mutated form starts over.
Wrapped_Zero(p) == IF p >= frames THEN 0 ELSE p
Wrapped(p) == IF p >= frames THEN Seam ELSE p

\* read_into: `need` samples from position p, and the position afterwards.
\* A run is copied up to the seam, or blended up to the end of the loop.
ReadInto(p, need) ==
  LET read[n \in 0..need] == [q \in 0..(frames - 1) |->
        IF n = 0 THEN [out |-> <<>>, position |-> q]
        ELSE IF q < frames - Seam
        THEN LET take == Lesser(frames - Seam - q, n)
                 rest == read[n - take][q + take]
             IN [rest EXCEPT !.out = [i \in 1..take |-> Raw(q + i - 1)] \o @]
        ELSE LET take == Lesser(frames - q, n)
                 off  == SeamOffset(q)
                 rest == read[n - take][Wrapped(q + take)]
             IN [rest EXCEPT !.out =
                  [i \in 1..take |-> Folded(q + i - 1, off + i - 1)] \o @]]
  IN read[need][p]

\* The same, one sample at a time.
Sample(p)   == IF p < frames - Seam THEN Raw(p) ELSE Folded(p, p - (frames - Seam))
Advance(p)  == IF p + 1 = frames THEN Seam ELSE p + 1
Stepwise(p, need) ==
  LET at[k \in 0..need] == IF k = 0 THEN p ELSE Advance(at[k - 1])
  IN [out |-> [k \in 1..need |-> Sample(at[k - 1])], position |-> at[need]]

-----------------------------------------------------------------------------
(* Writing *)

\* _write: the frames a slice of n samples at `start` lands on, and the sample
\* each of them takes.  The wrap is a second copy from the head of the loop.
\* The mutated form copies the wrapped part one frame late.
Write_ShiftedWrap(start, n) ==
  LET s == start % frames IN
  IF s + n <= frames THEN [f \in s..(s + n - 1) |-> f - s]
  ELSE [f \in (s..(frames - 1)) \cup (1..(s + n - frames)) |->
          IF f >= s THEN f - s ELSE frames - s + f - 1]

Write(start, n) ==
  LET s     == start % frames
      first == frames - s
      rem   == n - first
  IN IF rem <= 0 THEN [f \in s..(s + n - 1) |-> f - s]
     ELSE IF rem >= frames THEN [f \in 0..(frames - 1) |-> first + f]
     ELSE [f \in (s..(frames - 1)) \cup (0..(rem - 1)) |->
             IF f < rem THEN first + f ELSE f - s]

\* mark_patched: the chunks that slice covers, clipped to the bitmap as a
\* numpy slice is.  The mutated form forgets the wrapped part.
Marks_NoWrap(start, n) ==
  LET s == start % frames
  IN (s \div ChunkFrames)..(Lesser(s + n - 1, frames - 1) \div ChunkFrames)

Marks(start, n) ==
  LET s   == start % frames
      end == s + n
  IN Chunks \cap
       IF end <= frames THEN (s \div ChunkFrames)..((end - 1) \div ChunkFrames)
       ELSE (s \div ChunkFrames)..((frames - 1) \div ChunkFrames)
              \cup 0..((end - frames - 1) \div ChunkFrames)

-----------------------------------------------------------------------------
Init == frames = 0 /\ position = 0 /\ patched = {} /\ unmarked = <<>> /\ written = {}

\* init(), by the recv thread, between two slices.  Playback starts past the
\* head, whatever swap()'s comment says.
InitLoop(n) ==
  /\ unmarked = <<>>
  /\ frames' = n
  /\ position' = Lesser(SeamFrames, n \div 4)
  /\ patched' = {} /\ written' = {}
  /\ UNCHANGED unmarked

\* clear(), by the main thread on Disconnect or the recv thread on a swap.
\* The mutated form forgets the bitmap.
Clear_KeepBitmap ==
  /\ frames' = 0 /\ position' = 0 /\ written' = {}
  /\ UNCHANGED <<patched, unmarked>>

Clear ==
  /\ frames' = 0 /\ position' = 0 /\ patched' = {} /\ written' = {}
  /\ UNCHANGED unmarked

\* patch() or add_delta(): nothing without a loop.
Patch(start, n) ==
  /\ unmarked = <<>>
  /\ unmarked' = <<start, n>>
  /\ written' = IF frames = 0 THEN {} ELSE written \cup {f \div ChunkFrames : f \in DOMAIN Write(start, n)}
  /\ UNCHANGED <<frames, position, patched>>

\* mark_patched(), without the lock; the loop may be gone by now.
MarkPatched ==
  /\ unmarked # <<>>
  /\ unmarked' = <<>>
  /\ patched' = IF frames = 0 THEN patched
                ELSE patched \cup Marks(unmarked[1], unmarked[2])
  /\ UNCHANGED <<frames, position, written>>

\* The audio thread's read_into; silence without a loop.
Read(n) ==
  /\ frames # 0
  /\ position' = ReadInto(position, n).position
  /\ UNCHANGED <<frames, patched, unmarked, written>>

Next ==
  \/ \E n \in Sizes : InitLoop(n)
  \/ \E start \in 0..frames, n \in Slices : Patch(start, n)
  \/ \E n \in 1..MaxBlock : Read(n)
  \/ Clear \/ MarkPatched

Spec == Init /\ [][Next]_vars

-----------------------------------------------------------------------------
(* Properties *)

\* Copying in runs is the same as playing sample by sample, however long the
\* block: the seam is a matter of position, not of calls.
ReadIsStepwise ==
  frames # 0 =>
    \A n \in 1..MaxBlock : ReadInto(position, n) = Stepwise(position, n)

\* One lap plays every frame once: the body raw, the tail with the head.
LapPlaysEachFrameOnce ==
  frames # 0 =>
    LET lap  == ReadInto(position, frames - Seam)
        raw  == {lap.out[i].at : i \in DOMAIN lap.out}
        fold == {lap.out[i].fold : i \in DOMAIN lap.out} \ {-1}
    IN lap.position = position /\ raw = Seam..(frames - 1) /\ fold = 0..(Seam - 1)

\* A slice no longer than the loop lands frame by frame, round the end.
WriteIsPointwise ==
  frames # 0 =>
    \A start \in 0..(2 * frames), n \in 1..Lesser(MaxBlock, frames) :
      LET w == Write(start, n) IN
      /\ DOMAIN w = {(start + k) % frames : k \in 0..(n - 1)}
      /\ \A k \in 0..(n - 1) : w[(start + k) % frames] = k

\* The coverage bitmap tells the truth: between slices, a chunk is marked
\* exactly if a slice has landed in it since this loop was initialised.
CoverageExact ==
  unmarked = <<>> => patched = written
=============================================================================
