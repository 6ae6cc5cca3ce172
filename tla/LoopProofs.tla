----------------------------- MODULE LoopProofs -----------------------------
(***************************************************************************)
(* Proofs about LoopBuffer, for loops, seams, blocks and chunks of any size.*)
(*                                                                         *)
(* The reader: Path(g, p) is the way of a playhead that starts at p, one   *)
(* sample at a time.  Stepwise reads along it; one turn of read_into reads *)
(* a run of it; so does read_into as a whole, by induction on what is left *)
(* to read.  Along a lap the path meets each place after the seam once.    *)
(*                                                                         *)
(* The writer: where a write of n frames from start leaves frame f follows *)
(* from quotient and remainder of start and f, and so does the set of      *)
(* chunks that mark_patched marks.                                         *)
(*                                                                         *)
(* What a recursive function computes is proved by exhibiting the function *)
(* that satisfies its equation (PathExists), and then by induction over a  *)
(* set of naturals (Induct), which needs no predicate as a parameter.      *)
(***************************************************************************)
EXTENDS LoopBuffer, SequenceTheorems, WellFoundedInduction, TLAPS

-----------------------------------------------------------------------------
(* Induction over the naturals, for sets: the theorems of the library take a  *)
(* predicate, which the provers at hand cannot instantiate.                  *)

Below == {p \in Nat \X Nat : p[1] < p[2]}

\* < on the naturals has no endless descent.
LEMMA BelowWellFounded == IsWellFoundedOn(Below, Nat)
BY NatLessThanWellFounded DEF OpToRel, Below

\* A set of naturals that has a member has a least one.
LEMMA Least ==
  ASSUME NEW T, T \subseteq Nat, T # {}
  PROVE  \E x \in T : \A y \in T : x <= y
<1>1. PICK x \in T : \A y \in T : ~ (<<y, x>> \in Below)
  BY BelowWellFounded, WFMin
<1>2. ASSUME NEW y \in T PROVE x <= y
  <2>1. ~ (y < x)
    BY <1>1 DEF Below
  <2>2. QED
    BY <2>1
<1>3. QED
  BY <1>2

\* A set that holds 0 and, with each number, the next one holds all of them.
LEMMA Induct ==
  ASSUME NEW T, 0 \in T, \A n \in Nat : n \in T => n + 1 \in T
  PROVE  \A n \in Nat : n \in T
<1> SUFFICES ASSUME NEW n \in Nat, n \notin T PROVE FALSE
  OBVIOUS
<1> DEFINE Out == {m \in Nat : m \notin T}
<1>1. PICK x \in Out : \A y \in Out : x <= y
  <2>1. Out \subseteq Nat /\ Out # {}
    OBVIOUS
  <2> HIDE DEF Out
  <2>2. QED
    BY <2>1, Least
<1>2. x \in Nat /\ x # 0 /\ x - 1 \in Nat /\ x - 1 \notin Out
  BY <1>1
<1>3. QED
  BY <1>1, <1>2

-----------------------------------------------------------------------------
(* Division by a length that is not a literal.                               *)

\* The solver gives quotient and remainder of any divisor.
LEMMA DivMod ==
  ASSUME NEW a \in Nat, NEW b \in Nat \ {0}
  PROVE  /\ a \div b \in Nat /\ a % b \in 0..(b - 1)
         /\ a = b * (a \div b) + (a % b)
OBVIOUS

\* Multiples of b are at least b apart.
LEMMA Mul == 
  ASSUME NEW b \in Nat \ {0}, NEW c \in Int, NEW d \in Int, c < d
  PROVE b * c + b <= b * d
<1>1. b * (d - c) >= b
  OBVIOUS
<1>2. b * (d - c) = b * d - b * c
  OBVIOUS
<1>3. b * c \in Int /\ b * d \in Int
  OBVIOUS
<1>4. QED BY <1>1, <1>2, <1>3

\* Quotient and remainder are the only numbers that do what they do.
LEMMA DivModUnique ==
  ASSUME NEW x \in Nat, NEW b \in Nat \ {0}, NEW q \in Nat, NEW r \in 0..(b - 1), x = b * q + r
  PROVE  x \div b = q /\ x % b = r
<1> DEFINE d == x \div b
           m == x % b
<1>1. d \in Nat /\ m \in 0..(b-1) /\ x = b * d + m
  BY DivMod
<1> HIDE DEF d, m
<1>2. b * q \in Int /\ b * d \in Int
  BY <1>1
<1>3. ~ (q < d) 
  <2>1. SUFFICES ASSUME q < d PROVE FALSE 
    OBVIOUS
  <2>2. b * q + b <= b * d
    BY <1>1, <2>1, Mul
  <2>3. QED BY <1>1, <1>2, <2>2
<1>4. ~ (d < q)
  <2>1. SUFFICES ASSUME d < q PROVE FALSE 
    OBVIOUS
  <2>2. b * d + b <= b * q
    BY <1>1, <2>1, Mul
  <2>3. QED BY <1>1, <1>2, <2>2
<1>5. d = q
  BY <1>1, <1>3, <1>4
<1>6. m = r
  BY <1>1, <1>2, <1>5
<1>7. QED BY <1>5, <1>6 DEF d, m

\* Counting modulo b: one more, or back to 0.
LEMMA ModStep ==
  ASSUME NEW x \in Nat, NEW b \in Nat \ {0}
  PROVE  /\ x % b \in 0..(b - 1)
         /\ (x + 1) % b = IF (x % b) + 1 = b THEN 0 ELSE (x % b) + 1
<1> DEFINE d == x \div b
           m == x % b
<1>1. d \in Nat /\ m \in 0..(b-1) /\ x = b * d + m
  BY DivMod
<1> HIDE DEF d, m
<1>2. CASE m + 1 = b
  <2>1. x + 1 = b * (d + 1) + 0
    BY <1>1, <1>2
  <2>2. d + 1 \in Nat /\ 0 \in 0..(b-1) /\ x + 1 \in Nat
    BY <1>1
  <2>3. (x + 1) % b = 0
    BY <2>1, <2>2, DivModUnique
  <2>4. QED BY <1>1, <1>2, <2>3 DEF m
<1>3. CASE m + 1 # b
  <2>1. x + 1 = b * d + (m + 1)
    <3>1. b * d \in Int BY <1>1
    <3>2. QED BY <1>1, <3>1
  <2>2. m + 1 \in 0..(b-1) /\ x + 1 \in Nat
    BY <1>1, <1>3
  <2>3. (x + 1) % b = m + 1
    BY <1>1, <2>1, <2>2, DivModUnique
  <2>4. QED BY <1>1, <1>3, <2>3 DEF m
<1>4. QED BY <1>2, <1>3

-----------------------------------------------------------------------------
(* The playhead, one sample at a time.                                       *)

Playing == frames \in Nat /\ frames >= 4

Places == 0..(frames - 1)

\* The seam takes at least one frame and at most a quarter of the loop.
LEMMA SeamBounds ==
  ASSUME Playing
  PROVE  Seam \in Nat /\ 1 <= Seam /\ 4 * Seam <= frames
BY LoopAssumption DEF Playing, Seam, Lesser

\* g is where the playhead goes from p.
Path(g, p) ==
  /\ g \in [Nat -> Places] /\ g[0] = p
  /\ \A k \in Nat : g[k + 1] = Advance(g[k])

\* A path of any length leads on from every place in the loop.
LEMMA PathExists ==
  ASSUME Playing, NEW p \in Places
  PROVE  \E g : Path(g, p)
<1> DEFINE lap == frames - Seam
           g == [k \in Nat |-> IF p + k < frames THEN p + k ELSE Seam + ((p + k - frames) % lap)]
<1>0. lap \in Nat \ {0} /\ Seam \in Nat /\ frames \in Nat /\ p \in Nat /\ p < frames /\ Seam < frames
  BY SeamBounds DEF Playing, Places
<1>1. ASSUME NEW k \in Nat PROVE g[k] \in Places /\ g[k + 1] = Advance(g[k])
  <2>1. CASE p + k + 1 < frames
    BY <1>0, <2>1 DEF Places, Advance
  <2>2. CASE p + k + 1 = frames
    <3>1. 0 % lap = 0
      BY <1>0, DivModUnique
    <3>2. p + (k + 1) - frames = 0
      BY <1>0, <2>2
    <3>3. g[k] = p + k /\ g[k + 1] = Seam
      BY <1>0, <2>2, <3>1, <3>2
    <3>4. QED
      BY <1>0, <2>2, <3>3 DEF Places, Advance
  <2>3. CASE p + k >= frames
    <3> DEFINE x == p + k - frames
    <3>1. x \in Nat /\ p + (k + 1) - frames = x + 1
      BY <1>0, <2>3
    <3>2. g[k] = Seam + (x % lap) /\ g[k + 1] = Seam + ((x + 1) % lap)
      BY <1>0, <2>3, <3>1
    <3> HIDE DEF x, g
    <3>3. x % lap \in 0..(lap - 1) /\ (x + 1) % lap = IF (x % lap) + 1 = lap THEN 0 ELSE (x % lap) + 1
      BY <1>0, <3>1, ModStep
    <3>4. QED
      BY <1>0, <3>2, <3>3 DEF Places, Advance
  <2>4. QED
    BY <1>0, <2>1, <2>2, <2>3
<1>2. g[0] = p /\ g = [k \in Nat |-> g[k]]
  BY <1>0
<1> HIDE DEF g
<1>3. QED
  BY <1>1, <1>2 DEF Path

\* A path without its first steps is a path.
LEMMA PathTail ==
  ASSUME Playing, NEW g, NEW p \in Places, Path(g, p), NEW j \in Nat
  PROVE  Path([k \in Nat |-> g[k + j]], g[j]) /\ g[j] \in Places
<1> DEFINE h == [k \in Nat |-> g[k + j]]
<1>1. h \in [Nat -> Places] /\ h[0] = g[j] /\ g[j] \in Places
  BY DEF Path
<1>2. ASSUME NEW k \in Nat PROVE h[k + 1] = Advance(h[k])
  <2>1. h[k + 1] = g[(k + j) + 1] /\ h[k] = g[k + j] /\ k + j \in Nat
    OBVIOUS
  <2>2. QED
    BY <2>1 DEF Path
<1> HIDE DEF h
<1>3. QED
  BY <1>1, <1>2 DEF Path

\* Stepwise reads along the path.
LEMMA StepwiseIs ==
  ASSUME Playing, NEW p \in Places, NEW n \in Nat, NEW g, Path(g, p)
  PROVE  Stepwise(p, n) = [out |-> [k \in 1..n |-> Sample(g[k - 1])], position |-> g[n]]
<1> DEFINE at[k \in 0..n] == IF k = 0 THEN p ELSE Advance(at[k - 1])
<1>1. Stepwise(p, n) = [out |-> [k \in 1..n |-> Sample(at[k - 1])], position |-> at[n]]
  BY DEF Stepwise
<1>2. at = [k \in 0..n |-> IF k = 0 THEN p ELSE Advance(at[k - 1])]
  <2> DEFINE h == [k \in 0..n |-> g[k]]
  <2>1. ASSUME NEW k \in 0..n PROVE h[k] = IF k = 0 THEN p ELSE Advance(h[k - 1])
    <3>1. CASE k = 0
      BY <3>1 DEF Path
    <3>2. CASE k # 0
      <4>1. k - 1 \in Nat /\ k - 1 \in 0..n /\ (k - 1) + 1 = k
        BY <3>2
      <4>2. g[k] = Advance(g[k - 1])
        BY <4>1 DEF Path
      <4>3. QED
        BY <3>2, <4>1, <4>2
    <3>3. QED
      BY <3>1, <3>2
  <2>2. h = [k \in 0..n |-> IF k = 0 THEN p ELSE Advance(h[k - 1])]
    <3>1. h = [k \in 0..n |-> h[k]]
      OBVIOUS
    <3> HIDE DEF h
    <3>2. QED
      BY <2>1, <3>1
  <2> HIDE DEF h
  <2>3. QED
    BY <2>2
<1> HIDE DEF at
<1>3. ASSUME NEW k \in 0..n PROVE at[k] = IF k = 0 THEN p ELSE Advance(at[k - 1])
  BY <1>2
<1>4. \A k \in 0..n : at[k] = g[k]
  <2> DEFINE T == {k \in Nat : k <= n => at[k] = g[k]}
  <2>1. 0 \in T
    BY <1>3 DEF Path
  <2>2. ASSUME NEW k \in Nat, k \in T PROVE k + 1 \in T
    <3> SUFFICES ASSUME k + 1 <= n PROVE at[k + 1] = g[k + 1]
      OBVIOUS
    <3>1. k + 1 \in 0..n /\ k + 1 # 0 /\ (k + 1) - 1 = k /\ at[k] = g[k]
      BY <2>2
    <3>2. QED
      BY <1>3, <3>1 DEF Path
  <2> HIDE DEF T
  <2>3. \A k \in Nat : k \in T
    BY <2>1, <2>2, Induct
  <2>4. QED
    BY <2>3 DEF T
<1>5. \A k \in 1..n : k - 1 \in 0..n
  OBVIOUS
<1>6. QED
  BY <1>1, <1>4, <1>5

\* Up to the end of the loop the playhead goes one frame at a time.
LEMMA PathRun ==
  ASSUME Playing, NEW q \in Places, NEW g, Path(g, q),
         NEW take \in Nat \ {0}, q + take <= frames
  PROVE  /\ \A k \in 0..(take - 1) : g[k] = q + k
         /\ g[take] = Wrapped(q + take) /\ Wrapped(q + take) \in Places
<1> DEFINE T == {k \in Nat : k < take => g[k] = q + k}
<1>0. frames \in Nat /\ q \in Nat /\ q < frames
  BY DEF Playing, Places
<1>1. 0 \in T
  BY <1>0 DEF Path
<1>2. ASSUME NEW k \in Nat, k \in T PROVE k + 1 \in T
  <2> SUFFICES ASSUME k + 1 < take PROVE g[k + 1] = q + k + 1
    BY <1>0
  <2>1. g[k] = q + k /\ q + k + 1 # frames
    BY <1>0, <1>2
  <2>2. g[k + 1] = Advance(g[k])
    BY DEF Path
  <2>3. QED
    BY <1>0, <2>1, <2>2 DEF Advance
<1> HIDE DEF T
<1>3. \A k \in Nat : k \in T
  BY <1>1, <1>2, Induct
<1>4. \A k \in 0..(take - 1) : g[k] = q + k
  BY <1>3 DEF T
<1>5. g[take] = Advance(q + (take - 1))
  <2>1. take - 1 \in Nat /\ (take - 1) + 1 = take /\ take - 1 \in 0..(take - 1)
    OBVIOUS
  <2>2. g[(take - 1) + 1] = Advance(g[take - 1])
    BY <2>1 DEF Path
  <2>3. QED
    BY <1>4, <2>1, <2>2
<1>6. QED
  BY <1>0, <1>4, <1>5, SeamBounds DEF Advance, Wrapped, Places

Cells == [at : Int, fold : Int]

\* A sample names the frame it reads and the one folded into it.
LEMMA SampleIsCell ==
  ASSUME Playing, NEW q \in Places
  PROVE  Sample(q) \in Cells
BY SeamBounds DEF Playing, Places, Sample, Raw, Folded, Cells

\* Reading sample by sample returns as many samples as asked for, and a place.
LEMMA StepwiseTypes ==
  ASSUME Playing, NEW p \in Places, NEW n \in Nat
  PROVE  /\ Stepwise(p, n) = [out |-> Stepwise(p, n).out, position |-> Stepwise(p, n).position]
         /\ Stepwise(p, n).position \in Places
         /\ Stepwise(p, n).out \in Seq(Cells) /\ Len(Stepwise(p, n).out) = n
         /\ Stepwise(p, n).out \in [1..n -> Cells]
<1>1. PICK g : Path(g, p)
  BY PathExists
<1>2. \A k \in 1..n : k - 1 \in Nat /\ g[k - 1] \in Places /\ Sample(g[k - 1]) \in Cells
  BY <1>1, SampleIsCell DEF Path
<1>3. g[n] \in Places
  BY <1>1 DEF Path
<1> DEFINE o == [k \in 1..n |-> Sample(g[k - 1])]
<1>4. o \in Seq(Cells) /\ Len(o) = n /\ o \in [1..n -> Cells]
  BY <1>2
<1> HIDE DEF o
<1>5. Stepwise(p, n) = [out |-> o, position |-> g[n]]
  BY <1>1, StepwiseIs DEF o
<1>6. QED
  BY <1>3, <1>4, <1>5

\* A run of `take` samples, and the rest from where it ends.
LEMMA StepwiseSplit ==
  ASSUME Playing, NEW q \in Places, NEW n \in Nat, NEW take \in 1..n, q + take <= frames
  PROVE  LET rest == Stepwise(Wrapped(q + take), n - take)
         IN  /\ Wrapped(q + take) \in Places
             /\ Stepwise(q, n) = [out |-> [i \in 1..take |-> Sample(q + i - 1)] \o rest.out,
                                  position |-> rest.position]
<1>1. PICK g : Path(g, q)
  BY PathExists
<1> DEFINE r == Wrapped(q + take)
           h == [k \in Nat |-> g[k + take]]
           run == [i \in 1..take |-> Sample(q + i - 1)]
           tail == [k \in 1..(n - take) |-> Sample(h[k - 1])]
           all == [k \in 1..n |-> Sample(g[k - 1])]
<1>2. /\ \A k \in 0..(take - 1) : g[k] = q + k
      /\ g[take] = r /\ r \in Places
  BY <1>1, PathRun
<1>3. Path(h, r)
  BY <1>1, <1>2, PathTail
<1>4. n - take \in Nat /\ q \in Nat /\ frames \in Nat
  BY DEF Playing, Places
<1>5. Stepwise(r, n - take) = [out |-> tail, position |-> h[n - take]]
  <2> HIDE DEF h, r
  <2>1. QED
    BY <1>2, <1>3, <1>4, StepwiseIs
<1>6. Stepwise(q, n) = [out |-> all, position |-> g[n]]
  BY <1>1, StepwiseIs
<1>7. h[n - take] = g[n]
  BY <1>4
<1>8. run \in Seq(Cells) /\ Len(run) = take /\ tail \in Seq(Cells) /\ Len(tail) = n - take
  <2>1. \A i \in 1..take : Sample(q + i - 1) \in Cells
    BY <1>4, SampleIsCell DEF Places
  <2>2. run \in Seq(Cells) /\ Len(run) = take
    BY <2>1
  <2> HIDE DEF h
  <2>3. \A k \in 1..(n - take) : Sample(h[k - 1]) \in Cells
    <3>1. ASSUME NEW k \in 1..(n - take) PROVE h[k - 1] \in Places
      BY <1>3, <1>4 DEF Path
    <3>2. QED
      BY <3>1, SampleIsCell
  <2>4. tail \in Seq(Cells) /\ Len(tail) = n - take
    BY <1>4, <2>3
  <2>5. QED
    BY <2>2, <2>4
<1>9. all \in Seq(Cells) /\ Len(all) = n
  <2>1. \A k \in 1..n : k - 1 \in Nat /\ Sample(g[k - 1]) \in Cells
    BY <1>1, SampleIsCell DEF Path
  <2>2. QED
    BY <2>1
<1>10. ASSUME NEW k \in 1..n PROVE all[k] = IF k <= take THEN run[k] ELSE tail[k - take]
  <2>1. CASE k <= take
    BY <1>2, <1>4, <2>1
  <2>2. CASE k > take
    <3>1. k - take \in 1..(n - take) /\ (k - take) - 1 \in Nat /\ ((k - take) - 1) + take = k - 1
      BY <2>2
    <3>2. QED
      BY <2>2, <3>1
  <2>3. QED
    BY <2>1, <2>2
<1> HIDE DEF run, tail, all, h, r
<1>11. all = run \o tail
  <2>1. /\ run \o tail \in Seq(Cells) /\ Len(run \o tail) = n
        /\ \A k \in 1..n : (run \o tail)[k] = IF k <= take THEN run[k] ELSE tail[k - take]
    <3>1. /\ run \o tail \in Seq(Cells) /\ Len(run \o tail) = Len(run) + Len(tail)
          /\ \A k \in 1..(Len(run) + Len(tail)) :
               (run \o tail)[k] = IF k <= Len(run) THEN run[k] ELSE tail[k - Len(run)]
      BY <1>8, ConcatProperties
    <3>2. Len(run) + Len(tail) = n
      BY <1>8
    <3>3. QED
      BY <1>8, <3>1, <3>2
  <2>2. QED
    BY <1>9, <1>10, <2>1, SeqEqual
<1>12. Stepwise(q, n) = [out |-> run \o Stepwise(r, n - take).out,
                         position |-> Stepwise(r, n - take).position]
  <2>1. Stepwise(r, n - take).out = tail /\ Stepwise(r, n - take).position = g[n]
    BY <1>5, <1>7
  <2>2. QED
    BY <1>6, <1>11, <2>1, Zenon
<1>13. QED
  BY <1>2, <1>12 DEF run, r

-----------------------------------------------------------------------------
(* read_into: one turn of its loop, and what it comes to.                    *)

\* What ReadInto's recursion does with n samples to go at position q, if f
\* does the rest.
Turn(f, q, n) ==
  IF n = 0 THEN [out |-> <<>>, position |-> q]
  ELSE IF q < frames - Seam
  THEN LET take == Lesser(frames - Seam - q, n)
           rest == f[n - take][q + take]
       IN [rest EXCEPT !.out = [i \in 1..take |-> Raw(q + i - 1)] \o @]
  ELSE LET take == Lesser(frames - q, n)
           off  == SeamOffset(q)
           rest == f[n - take][Wrapped(q + take)]
       IN [rest EXCEPT !.out =
            [i \in 1..take |-> Folded(q + i - 1, off + i - 1)] \o @]

\* If f reads like Stepwise where less is to be read, the turn does too.
LEMMA TurnIsStepwise ==
  ASSUME Playing, NEW n \in Nat, NEW q \in Places, NEW f,
         \A m \in 0..(n - 1) : \A r \in Places : f[m][r] = Stepwise(r, m)
  PROVE  Turn(f, q, n) = Stepwise(q, n)
<1>0. /\ frames \in Nat /\ q \in Nat /\ q < frames
      /\ Seam \in Nat /\ 1 <= Seam /\ 4 * Seam <= frames
  BY SeamBounds DEF Playing, Places
<1>1. CASE n = 0
  <2>1. PICK g : Path(g, q)
    BY PathExists
  <2>2. Stepwise(q, 0) = [out |-> [k \in 1..0 |-> Sample(g[k - 1])], position |-> g[0]]
    BY <2>1, StepwiseIs
  <2>3. [k \in 1..0 |-> Sample(g[k - 1])] = << >>
    OBVIOUS
  <2>4. QED
    BY <1>1, <2>1, <2>2, <2>3 DEF Turn, Path
<1>2. CASE n # 0 /\ q < frames - Seam
  <2> DEFINE take == Lesser(frames - Seam - q, n)
             rest == Stepwise(q + take, n - take)
             run  == [i \in 1..take |-> Raw(q + i - 1)]
  <2>1. take \in 1..n /\ q + take <= frames - Seam /\ q + take \in Places /\ n - take \in 0..(n - 1)
    BY <1>0, <1>2 DEF Lesser, Places
  <2> HIDE DEF take
  <2>2. f[n - take][q + take] = rest
    BY <2>1
  <2>3. Wrapped(q + take) = q + take
    BY <1>0, <2>1 DEF Wrapped
  <2>4. run = [i \in 1..take |-> Sample(q + i - 1)]
    <3>1. \A i \in 1..take : Raw(q + i - 1) = Sample(q + i - 1)
      BY <1>0, <2>1 DEF Sample
    <3>2. QED
      BY <3>1
  <2>5. Stepwise(q, n) = [out |-> run \o rest.out, position |-> rest.position]
    <3>1. q + take <= frames
      BY <1>0, <2>1
    <3>2. Stepwise(q, n) = [out |-> [i \in 1..take |-> Sample(q + i - 1)]
                                        \o Stepwise(Wrapped(q + take), n - take).out,
                            position |-> Stepwise(Wrapped(q + take), n - take).position]
      BY <2>1, <3>1, StepwiseSplit
    <3>3. QED
      BY <2>3, <2>4, <3>2, Zenon
  <2>6. rest = [out |-> rest.out, position |-> rest.position]
    BY <2>1, StepwiseTypes
  <2> HIDE DEF rest, run
  <2>7. [rest EXCEPT !.out = run \o @] = [out |-> run \o rest.out, position |-> rest.position]
    <3>1. \A y : [rest EXCEPT !.out = y] = [out |-> y, position |-> rest.position]
      BY <2>6
    <3>2. QED
      BY <3>1, Zenon
  <2>8. Turn(f, q, n) = [rest EXCEPT !.out = run \o @]
    BY <1>2, <2>2 DEF Turn, take, run
  <2>9. QED
    BY <2>5, <2>7, <2>8
<1>3. CASE n # 0 /\ q >= frames - Seam
  <2> DEFINE take == Lesser(frames - q, n)
             off  == SeamOffset(q)
             rest == Stepwise(Wrapped(q + take), n - take)
             run  == [i \in 1..take |-> Folded(q + i - 1, off + i - 1)]
  <2>1. take \in 1..n /\ q + take <= frames /\ n - take \in 0..(n - 1)
    BY <1>0, <1>3 DEF Lesser
  <2> HIDE DEF take
  <2>2. Wrapped(q + take) \in Places
    BY <1>0, <2>1, StepwiseSplit
  <2>3. f[n - take][Wrapped(q + take)] = rest
    BY <2>1, <2>2
  <2>4. run = [i \in 1..take |-> Sample(q + i - 1)]
    <3>1. \A i \in 1..take : Folded(q + i - 1, off + i - 1) = Sample(q + i - 1)
      BY <1>0, <1>3, <2>1 DEF Sample, SeamOffset, Folded
    <3>2. QED
      BY <3>1
  <2>5. Stepwise(q, n) = [out |-> run \o rest.out, position |-> rest.position]
    <3>1. Stepwise(q, n) = [out |-> [i \in 1..take |-> Sample(q + i - 1)]
                                        \o Stepwise(Wrapped(q + take), n - take).out,
                            position |-> Stepwise(Wrapped(q + take), n - take).position]
      BY <1>0, <2>1, StepwiseSplit
    <3>2. QED
      BY <2>4, <3>1, Zenon
  <2>6. rest = [out |-> rest.out, position |-> rest.position]
    BY <2>1, <2>2, StepwiseTypes
  <2> HIDE DEF rest, run
  <2>7. [rest EXCEPT !.out = run \o @] = [out |-> run \o rest.out, position |-> rest.position]
    <3>1. \A y : [rest EXCEPT !.out = y] = [out |-> y, position |-> rest.position]
      BY <2>6
    <3>2. QED
      BY <3>1, Zenon
  <2>8. Turn(f, q, n) = [rest EXCEPT !.out = run \o @]
    BY <1>0, <1>3, <2>3 DEF Turn, take, run
  <2>9. QED
    BY <2>5, <2>7, <2>8
<1>4. QED
  BY <1>0, <1>1, <1>2, <1>3

\* Reading in runs is reading sample by sample: the recursion has a solution,
\* which is Stepwise, and it has no other.
LEMMA ReadIntoIsStepwise ==
  ASSUME Playing, NEW p \in Places, NEW need \in Nat
  PROVE  ReadInto(p, need) = Stepwise(p, need)
<1> DEFINE read[n \in 0..need] == [q \in Places |-> Turn(read, q, n)]
<1>1. ReadInto(p, need) = read[need][p]
  BY DEF ReadInto, Turn, Places
<1>2. read = [n \in 0..need |-> [q \in Places |-> Turn(read, q, n)]]
  <2> DEFINE f == [n \in 0..need |-> [q \in Places |-> Stepwise(q, n)]]
  <2>1. ASSUME NEW n \in 0..need, NEW q \in Places PROVE Stepwise(q, n) = Turn(f, q, n)
    <3>1. \A m \in 0..(n - 1) : \A r \in Places : f[m][r] = Stepwise(r, m)
      OBVIOUS
    <3> HIDE DEF f
    <3>2. QED
      BY <3>1, TurnIsStepwise
  <2>2. f = [n \in 0..need |-> [q \in Places |-> Turn(f, q, n)]]
    <3> DEFINE h == [n \in 0..need |-> [q \in Places |-> Turn(f, q, n)]]
    <3>1. f = h
      <4>1. \A n \in 0..need : \A q \in Places : Stepwise(q, n) = Turn(f, q, n)
        BY <2>1
      <4>2. h = [n \in 0..need |-> [q \in Places |-> Turn(f, q, n)]]
        OBVIOUS
      <4>3. \A n \in 0..need : [q \in Places |-> Stepwise(q, n)] = [q \in Places |-> Turn(f, q, n)]
        BY <4>1
      <4>4. QED
        BY <4>3
    <3>2. QED
      BY <3>1
  <2> HIDE DEF f
  <2>3. QED
    BY <2>2
<1> HIDE DEF read
<1>3. ASSUME NEW n \in 0..need, NEW q \in Places PROVE read[n][q] = Turn(read, q, n)
  <2> DEFINE h == [m \in 0..need |-> [r \in Places |-> Turn(read, r, m)]]
  <2>1. h[n][q] = Turn(read, q, n)
    OBVIOUS
  <2>2. read = h
    BY <1>2, Zenon
  <2>3. QED
    BY <2>1, <2>2, Zenon
<1>4. \A n \in 0..need : \A q \in Places : read[n][q] = Stepwise(q, n)
  <2> DEFINE T == {n \in Nat : \A m \in 0..n : m <= need => \A q \in Places : read[m][q] = Stepwise(q, m)}
  <2>1. ASSUME NEW n \in Nat, n <= need, \A m \in 0..(n - 1) : \A q \in Places : read[m][q] = Stepwise(q, m)
        PROVE  \A q \in Places : read[n][q] = Stepwise(q, n)
    <3>1. n \in 0..need
      BY <2>1
    <3>2. QED
      BY <1>3, <2>1, <3>1, TurnIsStepwise
  <2>2. 0 \in T
    BY <2>1
  <2>3. ASSUME NEW n \in Nat, n \in T PROVE n + 1 \in T
    <3> SUFFICES ASSUME NEW m \in 0..(n + 1), m <= need, NEW q \in Places
                 PROVE  read[m][q] = Stepwise(q, m)
      OBVIOUS
    <3>1. \A j \in 0..(m - 1) : j \in 0..n /\ j <= need
      OBVIOUS
    <3>2. \A j \in 0..(m - 1) : \A r \in Places : read[j][r] = Stepwise(r, j)
      BY <2>3, <3>1
    <3>3. QED
      BY <2>1, <3>2
  <2> HIDE DEF T
  <2>4. \A n \in Nat : n \in T
    BY <2>2, <2>3, Induct
  <2>5. ASSUME NEW n \in 0..need PROVE \A q \in Places : read[n][q] = Stepwise(q, n)
    <3>1. n \in T /\ n \in 0..n /\ n <= need
      BY <2>4
    <3>2. QED
      BY <3>1 DEF T
  <2>6. QED
    BY <2>5
<1>5. need \in 0..need
  OBVIOUS
<1>6. QED
  BY <1>1, <1>4, <1>5

\* Reading on where a first block stopped is reading one longer block.
LEMMA StepwiseAppend ==
  ASSUME Playing, NEW p \in Places, NEW m \in Nat, NEW n \in Nat
  PROVE  LET first == Stepwise(p, m)
             rest  == Stepwise(first.position, n)
         IN  Stepwise(p, m + n) = [out |-> first.out \o rest.out, position |-> rest.position]
<1>1. PICK g : Path(g, p)
  BY PathExists
<1> DEFINE h == [k \in Nat |-> g[k + m]]
           one == [k \in 1..m |-> Sample(g[k - 1])]
           two == [k \in 1..n |-> Sample(h[k - 1])]
           all == [k \in 1..(m + n) |-> Sample(g[k - 1])]
<1>2. Path(h, g[m]) /\ g[m] \in Places
  BY <1>1, PathTail
<1>3. Stepwise(p, m) = [out |-> one, position |-> g[m]]
  BY <1>1, StepwiseIs
<1>4. Stepwise(g[m], n) = [out |-> two, position |-> h[n]]
  <2> HIDE DEF h
  <2>1. QED
    BY <1>2, StepwiseIs
<1>5. Stepwise(p, m + n) = [out |-> all, position |-> g[m + n]]
  BY <1>1, StepwiseIs
<1>6. all = one \o two
  <2>1. \A k \in 1..(m + n) : k - 1 \in Nat /\ g[k - 1] \in Places /\ Sample(g[k - 1]) \in Cells
    BY <1>1, SampleIsCell DEF Path
  <2>2. one \in Seq(Cells) /\ Len(one) = m
    BY <2>1
  <2>3. \A k \in 1..n : h[k - 1] = g[(k + m) - 1]
    <3>1. ASSUME NEW k \in 1..n PROVE k - 1 \in Nat /\ (k - 1) + m = (k + m) - 1
      OBVIOUS
    <3>2. QED
      BY <3>1
  <2>4. two = [k \in 1..n |-> Sample(g[(k + m) - 1])]
    BY <2>3
  <2> HIDE DEF two, h
  <2>5. two \in Seq(Cells) /\ Len(two) = n
    <3>1. ASSUME NEW k \in 1..n PROVE Sample(g[(k + m) - 1]) \in Cells
      <4>1. k + m \in 1..(m + n)
        OBVIOUS
      <4>2. QED
        BY <2>1, <4>1
    <3>2. QED
      BY <2>4, <3>1
  <2>6. all \in Seq(Cells) /\ Len(all) = m + n
    BY <2>1
  <2>7. ASSUME NEW k \in 1..(m + n) PROVE all[k] = IF k <= m THEN one[k] ELSE two[k - m]
    <3>1. CASE k <= m
      BY <3>1
    <3>2. CASE k > m
      <4>1. k - m \in 1..n /\ (k - m) + m = k
        BY <3>2
      <4>2. QED
        BY <2>4, <3>2, <4>1
    <3>3. QED
      BY <3>1, <3>2
  <2> HIDE DEF one, all
  <2>8. /\ one \o two \in Seq(Cells) /\ Len(one \o two) = Len(one) + Len(two)
        /\ \A k \in 1..(Len(one) + Len(two)) :
             (one \o two)[k] = IF k <= Len(one) THEN one[k] ELSE two[k - Len(one)]
    BY <2>2, <2>5, ConcatProperties
  <2>9. Len(one \o two) = m + n /\ \A k \in 1..(m + n) : (one \o two)[k] = all[k]
    BY <2>2, <2>5, <2>7, <2>8
  <2>10. QED
    BY <2>6, <2>8, <2>9, SeqEqual
<1>7. h[n] = g[m + n]
  <2>1. n + m = m + n
    OBVIOUS
  <2>2. QED
    BY <2>1
<1> HIDE DEF h, one, two, all
<1>8. /\ Stepwise(p, m).out = one /\ Stepwise(p, m).position = g[m]
      /\ Stepwise(g[m], n).out = two /\ Stepwise(g[m], n).position = h[n]
  BY <1>3, <1>4
<1>9. QED
  BY <1>5, <1>6, <1>7, <1>8, Zenon

-----------------------------------------------------------------------------
(* One lap                                                                   *)

Lap == Seam..(frames - 1)

\* The playhead never comes back to the head of the loop.
LEMMA PathStays ==
  ASSUME Playing, NEW p \in Lap, NEW g, Path(g, p)
  PROVE  \A k \in Nat : g[k] \in Lap
<1> DEFINE T == {k \in Nat : g[k] \in Lap}
<1>1. 0 \in T
  BY DEF Path
<1>2. ASSUME NEW k \in Nat, k \in T PROVE k + 1 \in T
  <2>1. g[k] \in Lap /\ g[k + 1] = Advance(g[k])
    BY <1>2 DEF Path
  <2>2. QED
    BY <2>1, SeamBounds DEF Playing, Lap, Advance
<1> HIDE DEF T
<1>3. \A k \in Nat : k \in T
  BY <1>1, <1>2, Induct
<1>4. QED
  BY <1>3 DEF T

\* A lap goes over places of the loop, from the end of the seam.
LEMMA LapIsPlaces ==
  ASSUME Playing
  PROVE  Lap \subseteq Places /\ Seam \in Lap /\ Seam \in Places
BY SeamBounds DEF Playing, Lap, Places

\* In one lap: to the end of the loop, and from the seam's length back to p.
LEMMA PathLap ==
  ASSUME Playing, NEW p \in Lap, NEW g, Path(g, p)
  PROVE  /\ \A k \in 0..(frames - p - 1) : g[k] = p + k
         /\ \A k \in (frames - p)..(frames - Seam - 1) : g[k] = Seam + (k - (frames - p))
         /\ g[frames - Seam] = p
<1> DEFINE first == frames - p
           h == [k \in Nat |-> g[k + first]]
<1>0. /\ frames \in Nat /\ Seam \in Nat /\ p \in Nat /\ p < frames /\ Seam <= p /\ p \in Places
      /\ 4 * Seam <= frames /\ 1 <= Seam
  BY SeamBounds DEF Playing, Lap, Places
<1>1. first \in Nat \ {0} /\ p + first = frames
  BY <1>0
<1>2. (\A k \in 0..(first - 1) : g[k] = p + k) /\ g[first] = Seam /\ Seam \in Places
  <2>1. Wrapped(frames) = Seam
    BY <1>0 DEF Wrapped
  <2>2. /\ \A k \in 0..(first - 1) : g[k] = p + k
        /\ g[first] = Wrapped(p + first) /\ Wrapped(p + first) \in Places
    BY <1>0, <1>1, PathRun
  <2>3. QED
    BY <1>1, <2>1, <2>2
<1>3. Path(h, Seam)
  BY <1>0, <1>1, <1>2, PathTail
<1>4. CASE p = Seam
  BY <1>0, <1>2, <1>4
<1>5. CASE p # Seam
  <2> DEFINE take == p - Seam
  <2>1. take \in Nat \ {0} /\ Seam + take = p /\ Seam + take <= frames
    BY <1>0, <1>5
  <2> HIDE DEF h, take, first
  <2>2. (\A k \in 0..(take - 1) : h[k] = Seam + k) /\ h[take] = Wrapped(p)
    <3>1. /\ \A k \in 0..(take - 1) : h[k] = Seam + k
          /\ h[take] = Wrapped(Seam + take)
      BY <1>2, <1>3, <2>1, PathRun
    <3>2. QED
      BY <2>1, <3>1
  <2>3. Wrapped(p) = p
    BY <1>0 DEF Wrapped
  <2>4. ASSUME NEW k \in first..(frames - Seam - 1) PROVE g[k] = Seam + (k - first)
    <3>1. k - first \in 0..(take - 1) /\ k - first \in Nat /\ (k - first) + first = k
      BY <1>0, <1>1 DEF first, take
    <3>2. h[k - first] = g[k]
      BY <3>1 DEF h
    <3>3. QED
      BY <2>2, <3>1, <3>2
  <2>5. g[frames - Seam] = p
    <3>1. take \in Nat /\ take + first = frames - Seam
      BY <1>0 DEF take, first
    <3>2. h[take] = g[frames - Seam]
      BY <3>1 DEF h
    <3>3. QED
      BY <2>2, <2>3, <3>2
  <2>6. QED
    BY <1>2, <2>4, <2>5 DEF first
<1>6. QED
  BY <1>4, <1>5

\* So every frame of the lap is read once, in some order, and the playhead is
\* back where it was.
LEMMA LapReads ==
  ASSUME Playing, NEW p \in Lap
  PROVE  LET lap == ReadInto(p, frames - Seam)
         IN  /\ lap.position = p /\ DOMAIN lap.out = 1..(frames - Seam)
             /\ {lap.out[i] : i \in DOMAIN lap.out} = {Sample(x) : x \in Lap}
<1> DEFINE n == frames - Seam
<1>0. /\ frames \in Nat /\ Seam \in Nat /\ p \in Nat /\ p < frames /\ Seam <= p /\ p \in Places
      /\ n \in Nat /\ 4 * Seam <= frames /\ 1 <= Seam
  BY SeamBounds DEF Playing, Lap, Places
<1>1. PICK g : Path(g, p)
  BY <1>0, PathExists
<1> DEFINE out == [k \in 1..n |-> Sample(g[k - 1])]
<1>2. ReadInto(p, n) = [out |-> out, position |-> g[n]]
  <2> HIDE DEF n
  <2>1. QED
    BY <1>0, <1>1, ReadIntoIsStepwise, StepwiseIs
<1>3. /\ \A k \in 0..(frames - p - 1) : g[k] = p + k
      /\ \A k \in (frames - p)..(n - 1) : g[k] = Seam + (k - (frames - p))
      /\ g[n] = p
  BY <1>1, PathLap
<1>4. {out[i] : i \in 1..n} = {Sample(x) : x \in Lap}
  <2>1. ASSUME NEW i \in 1..n PROVE out[i] \in {Sample(x) : x \in Lap}
    <3>1. g[i - 1] \in Lap
      <4>1. i - 1 \in Nat
        OBVIOUS
      <4>2. QED
        BY <1>1, <4>1, PathStays
    <3>2. QED
      BY <3>1
  <2>2. ASSUME NEW x \in Lap PROVE \E i \in 1..n : out[i] = Sample(x)
    <3>0. x \in Nat /\ Seam <= x /\ x < frames
      BY <1>0 DEF Lap
    <3>1. CASE x >= p
      <4>1. x - p \in 0..(frames - p - 1) /\ (x - p) + 1 \in 1..n /\ ((x - p) + 1) - 1 = x - p
        BY <1>0, <3>0, <3>1
      <4>2. g[x - p] = x
        BY <1>0, <1>3, <3>0, <4>1
      <4>3. out[(x - p) + 1] = Sample(x)
        BY <4>1, <4>2
      <4>4. QED
        BY <4>1, <4>3
    <3>2. CASE x < p
      <4> DEFINE k == (x - Seam) + (frames - p)
      <4>1. k \in (frames - p)..(n - 1) /\ k + 1 \in 1..n /\ (k + 1) - 1 = k
        BY <1>0, <3>0, <3>2
      <4>2. Seam + (k - (frames - p)) = x
        BY <1>0, <3>0
      <4> HIDE DEF k
      <4>3. g[k] = x
        BY <1>3, <4>1, <4>2
      <4>4. out[k + 1] = Sample(x)
        BY <4>1, <4>3
      <4>5. QED
        BY <4>1, <4>4
    <3>3. QED
      BY <1>0, <3>0, <3>1, <3>2
  <2> HIDE DEF out
  <2>3. QED
    BY <2>1, <2>2
<1>5. DOMAIN out = 1..n
  OBVIOUS
<1> HIDE DEF out, n
<1>6. ReadInto(p, n).position = p /\ ReadInto(p, n).out = out
  BY <1>2, <1>3
<1>7. QED
  BY <1>4, <1>5, <1>6, Zenon DEF n

\* A lap read by read_into ends where it began and reads each frame once.
LEMMA LapOnce ==
  ASSUME Playing, NEW p \in Lap
  PROVE  LET lap  == ReadInto(p, frames - Seam)
             raw  == {lap.out[i].at : i \in DOMAIN lap.out}
             fold == {lap.out[i].fold : i \in DOMAIN lap.out} \ {-1}
         IN lap.position = p /\ raw = Seam..(frames - 1) /\ fold = 0..(Seam - 1)
<1> DEFINE lap == ReadInto(p, frames - Seam)
<1>0. frames \in Nat /\ Seam \in Nat /\ 4 * Seam <= frames /\ 1 <= Seam
  BY SeamBounds DEF Playing
<1>1. /\ lap.position = p
      /\ {lap.out[i] : i \in DOMAIN lap.out} = {Sample(x) : x \in Lap}
  BY LapReads
<1> HIDE DEF lap
<1>2. \A x \in Lap : /\ Sample(x).at = x
                     /\ Sample(x).fold = IF x < frames - Seam THEN -1 ELSE x - (frames - Seam)
  BY <1>0 DEF Sample, Raw, Folded
<1>3. {lap.out[i].at : i \in DOMAIN lap.out} = {Sample(x).at : x \in Lap}
  BY <1>1
<1>4. {lap.out[i].fold : i \in DOMAIN lap.out} = {Sample(x).fold : x \in Lap}
  BY <1>1
<1>5. {Sample(x).at : x \in Lap} = Seam..(frames - 1)
  BY <1>2 DEF Lap
<1>6. {Sample(x).fold : x \in Lap} \ {-1} = 0..(Seam - 1)
  <2>1. ASSUME NEW x \in Lap, Sample(x).fold # -1 PROVE Sample(x).fold \in 0..(Seam - 1)
    BY <1>0, <1>2, <2>1 DEF Lap
  <2>2. ASSUME NEW h \in 0..(Seam - 1) PROVE \E x \in Lap : Sample(x).fold = h
    <3>1. h + (frames - Seam) \in Lap /\ ~(h + (frames - Seam) < frames - Seam)
          /\ (h + (frames - Seam)) - (frames - Seam) = h
      BY <1>0 DEF Lap
    <3>2. QED
      BY <1>2, <3>1
  <2>3. \A h \in 0..(Seam - 1) : h # -1
    BY <1>0
  <2>4. QED
    BY <2>1, <2>2, <2>3
<1>7. QED
  BY <1>1, <1>3, <1>4, <1>5, <1>6 DEF lap

-----------------------------------------------------------------------------
(* Writing                                                                   *)

\* Adding before or after taking the remainder comes to the same.
LEMMA ModPlus ==
  ASSUME NEW start \in Nat, NEW b \in Nat \ {0}, NEW k \in Nat, k <= b
  PROVE  /\ start % b \in 0..(b - 1)
         /\ (start + k) % b = IF (start % b) + k < b THEN (start % b) + k
                              ELSE (start % b) + k - b
<1> DEFINE d == start \div b
           s == start % b
<1>1. d \in Nat /\ s \in 0..(b - 1) /\ start = b * d + s
  BY DivMod
<1> HIDE DEF d, s
<1>2. b * d \in Nat /\ start + k \in Nat
  BY <1>1
<1>3. CASE s + k < b
  <2>1. start + k = b * d + (s + k) /\ s + k \in 0..(b - 1)
    BY <1>1, <1>2, <1>3
  <2>2. (start + k) % b = s + k
    BY <1>1, <1>2, <2>1, DivModUnique
  <2>3. QED
    BY <1>1, <1>3, <2>2 DEF s
<1>4. CASE ~(s + k < b) /\ s + k # 2 * b
  <2>1. b * (d + 1) = b * d + b
    BY <1>1
  <2>2. start + k = b * (d + 1) + (s + k - b) /\ s + k - b \in 0..(b - 1) /\ d + 1 \in Nat
    BY <1>1, <1>2, <1>4, <2>1
  <2>3. (start + k) % b = s + k - b
    BY <1>2, <2>2, DivModUnique
  <2>4. QED
    BY <1>1, <1>4, <2>3 DEF s
<1>5. s + k # 2 * b
  BY <1>1
<1>6. QED
  BY <1>3, <1>4, <1>5

\* Where a slice lands, and which of its samples lands there.
LEMMA WritePoints ==
  ASSUME Playing, NEW start \in Nat, NEW n \in Nat \ {0}, n <= frames
  PROVE  /\ DOMAIN Write(start, n) = {(start + k) % frames : k \in 0..(n - 1)}
         /\ \A k \in 0..(n - 1) : Write(start, n)[(start + k) % frames] = k
<1> DEFINE s == start % frames
           rem == n - (frames - s)
<1>1. frames \in Nat \ {0} /\ s \in 0..(frames - 1)
  <2>1. frames \in Nat \ {0}
    BY DEF Playing
  <2>2. QED
    BY <2>1, DivMod
<1>2. ASSUME NEW k \in 0..(n - 1)
      PROVE  (start + k) % frames = IF s + k < frames THEN s + k ELSE s + k - frames
  <2>1. k \in Nat /\ k <= frames
    BY <1>1
  <2>2. QED
    BY <1>1, <2>1, ModPlus
<1>3. Write(start, n) = IF rem <= 0 THEN [f \in s..(s + n - 1) |-> f - s]
                        ELSE [f \in (s..(frames - 1)) \cup (0..(rem - 1)) |->
                                IF f < rem THEN (frames - s) + f ELSE f - s]
  <2>1. ~(rem >= frames)
    BY <1>1
  <2>2. QED
    BY <2>1 DEF Write
<1> HIDE DEF s
<1>4. CASE rem <= 0
  <2>1. \A k \in 0..(n - 1) : (start + k) % frames = s + k
    BY <1>1, <1>2, <1>4
  <2>2. Write(start, n) = [f \in s..(s + n - 1) |-> f - s]
    BY <1>3, <1>4
  <2>3. \A k \in 0..(n - 1) : s + k \in s..(s + n - 1) /\ (s + k) - s = k
    BY <1>1
  <2>4. \A f \in s..(s + n - 1) : f - s \in 0..(n - 1) /\ s + (f - s) = f
    BY <1>1
  <2>5. {(start + k) % frames : k \in 0..(n - 1)} = s..(s + n - 1)
    <3>1. ASSUME NEW k \in 0..(n - 1) PROVE (start + k) % frames \in s..(s + n - 1)
      BY <2>1, <2>3
    <3>2. ASSUME NEW f \in s..(s + n - 1) PROVE \E k \in 0..(n - 1) : (start + k) % frames = f
      BY <2>1, <2>4
    <3>3. QED
      BY <3>1, <3>2
  <2>6. QED
    BY <2>1, <2>2, <2>3, <2>5
<1>5. CASE rem > 0
  <2> DEFINE W == (s..(frames - 1)) \cup (0..(rem - 1))
             w == [f \in W |-> IF f < rem THEN (frames - s) + f ELSE f - s]
  <2>1. Write(start, n) = w
    BY <1>1, <1>3, <1>5
  <2>2. ASSUME NEW k \in 0..(n - 1)
        PROVE  (start + k) % frames \in W /\ w[(start + k) % frames] = k
    <3>1. CASE s + k < frames
      <4>1. s + k \in W /\ ~(s + k < rem) /\ (s + k) - s = k
        BY <1>1, <3>1
      <4>2. QED
        BY <1>2, <3>1, <4>1
    <3>2. CASE ~(s + k < frames)
      <4>1. s + k - frames \in W /\ s + k - frames < rem /\ (frames - s) + (s + k - frames) = k
        BY <1>1, <3>2
      <4>2. QED
        BY <1>2, <3>2, <4>1
    <3>3. QED
      BY <3>1, <3>2
  <2>3. ASSUME NEW f \in W PROVE \E k \in 0..(n - 1) : (start + k) % frames = f
    <3>1. CASE f >= s
      <4>1. f - s \in 0..(n - 1) /\ s + (f - s) = f /\ f < frames
        BY <1>1, <1>5, <3>1
      <4>2. QED
        BY <1>2, <4>1
    <3>2. CASE f < s
      <4>1. /\ f + (frames - s) \in 0..(n - 1) /\ ~(s + (f + (frames - s)) < frames)
            /\ s + (f + (frames - s)) - frames = f
        BY <1>1, <1>5, <3>2
      <4>2. QED
        BY <1>2, <4>1
    <3>3. QED
      BY <1>1, <3>1, <3>2
  <2>4. {(start + k) % frames : k \in 0..(n - 1)} = W
    BY <2>2, <2>3
  <2>5. DOMAIN w = W
    OBVIOUS
  <2> HIDE DEF w, W
  <2>6. QED
    BY <2>1, <2>2, <2>4, <2>5
<1>6. QED
  BY <1>1, <1>4, <1>5

-----------------------------------------------------------------------------
(* Coverage                                                                  *)

\* A later frame is in no earlier chunk.
LEMMA DivMonotonic ==
  ASSUME NEW a \in Nat, NEW b \in Nat, a <= b, NEW c \in Nat \ {0}
  PROVE  a \div c <= b \div c
<1> DEFINE qa == a \div c
           qb == b \div c
<1>1. /\ qa \in Nat /\ a % c \in 0..(c - 1) /\ a = c * qa + (a % c)
      /\ qb \in Nat /\ b % c \in 0..(c - 1) /\ b = c * qb + (b % c)
  BY DivMod
<1> HIDE DEF qa, qb
<1>2. SUFFICES ASSUME qb < qa PROVE FALSE
  BY <1>1 DEF qa, qb
<1>3. c * qb + c <= c * qa /\ c * qa \in Int /\ c * qb \in Int
  BY <1>1, <1>2, Mul
<1>4. QED
  BY <1>1, <1>3

\* The chunks a stretch of frames touches.
LEMMA DivImage ==
  ASSUME NEW a \in Nat, NEW b \in Nat, a <= b, NEW c \in Nat \ {0}
  PROVE  {f \div c : f \in a..b} = (a \div c)..(b \div c)
<1>1. ASSUME NEW f \in a..b PROVE f \div c \in (a \div c)..(b \div c)
  <2>1. a \div c <= f \div c /\ f \div c <= b \div c
    BY DivMonotonic
  <2>2. f \div c \in Nat /\ a \div c \in Nat /\ b \div c \in Nat
    BY DivMod
  <2>3. QED
    BY <2>1, <2>2
<1>2. ASSUME NEW q \in (a \div c)..(b \div c) PROVE \E f \in a..b : f \div c = q
  <2>0. a \div c \in Nat /\ b \div c \in Nat /\ q \in Nat
    BY DivMod
  <2>1. CASE q = a \div c
    BY <2>1
  <2>2. CASE q > a \div c
    <3> DEFINE qa == a \div c
               qb == b \div c
    <3>1. /\ qa \in Nat /\ a % c \in 0..(c - 1) /\ a = c * qa + (a % c)
          /\ qb \in Nat /\ b % c \in 0..(c - 1) /\ b = c * qb + (b % c)
      BY DivMod
    <3> HIDE DEF qa, qb
    <3>2. qa < q /\ q <= qb
      BY <2>0, <2>2 DEF qa, qb
    <3>3. c * qa + c <= c * q
      BY <2>0, <3>1, <3>2, Mul
    <3>4. c * q <= c * qb
      <4>1. CASE q = qb
        BY <4>1
      <4>2. CASE q < qb
        <5>1. c * q + c <= c * qb
          BY <2>0, <3>1, <4>2, Mul
        <5>2. c * q \in Int /\ c * qb \in Int
          BY <2>0, <3>1
        <5>3. QED
          BY <5>1, <5>2
      <4>3. QED
        BY <2>0, <3>1, <3>2, <4>1, <4>2
    <3>5. c * q \in Nat /\ c * qa \in Nat /\ c * qb \in Nat
      BY <2>0, <3>1
    <3>6. c * q \in a..b
      BY <3>1, <3>3, <3>4, <3>5
    <3>7. (c * q) \div c = q
      <4>1. c * q = c * q + 0 /\ 0 \in 0..(c - 1)
        BY <3>5
      <4>2. QED
        BY <2>0, <3>5, <4>1, DivModUnique
    <3>8. QED
      BY <3>6, <3>7
  <2>3. QED
    BY <2>0, <2>1, <2>2
<1>3. QED
  BY <1>1, <1>2

\* The chunks are numbered from 0 to that of the last frame.
LEMMA ChunksAre ==
  ASSUME Playing
  PROVE  Chunks = 0..((frames - 1) \div ChunkFrames)
<1>1. frames \in Nat /\ frames >= 1 /\ frames - 1 \in Nat /\ ChunkFrames \in Nat \ {0}
  BY LoopAssumption DEF Playing
<1> DEFINE q == (frames - 1) \div ChunkFrames
           r == (frames - 1) % ChunkFrames
<1>2. q \in Nat /\ r \in 0..(ChunkFrames - 1) /\ frames - 1 = ChunkFrames * q + r
  BY <1>1, DivMod
<1> HIDE DEF q, r
<1>3. ChunkFrames * (q + 1) = ChunkFrames * q + ChunkFrames /\ ChunkFrames * q \in Nat
  BY <1>1, <1>2
<1>4. /\ frames + ChunkFrames - 1 = ChunkFrames * (q + 1) + r
      /\ q + 1 \in Nat /\ frames + ChunkFrames - 1 \in Nat
  BY <1>1, <1>2, <1>3
<1>5. (frames + ChunkFrames - 1) \div ChunkFrames = q + 1
  BY <1>1, <1>2, <1>4, DivModUnique
<1>6. QED
  BY <1>2, <1>5 DEF Chunks, q

\* The chunks marked for a slice are the chunks it lands in, however long it is.
LEMMA MarksAreExact ==
  ASSUME Playing, NEW start \in Nat, NEW n \in Nat \ {0}
  PROVE  {f \div ChunkFrames : f \in DOMAIN Write(start, n)} = Marks(start, n)
<1> DEFINE c == ChunkFrames
           s == start % frames
           first == frames - s
           rem == n - first
           last == frames - 1
<1>1. /\ c \in Nat \ {0} /\ frames \in Nat \ {0} /\ frames >= 4
      /\ s \in 0..(frames - 1) /\ last \in Nat
  <2>1. c \in Nat \ {0} /\ frames \in Nat \ {0} /\ frames >= 4
    BY LoopAssumption DEF Playing
  <2>2. QED
    BY <2>1, DivMod
<1>2. Chunks = 0..(last \div c)
  BY ChunksAre
<1> DEFINE img(a, b) == {f \div c : f \in a..b}
<1>3. \A a, b \in Nat : a <= b => img(a, b) = (a \div c)..(b \div c)
  BY <1>1, DivImage
<1>4. \A a, b \in Nat : a <= b => /\ a \div c <= b \div c /\ a \div c \in Nat /\ b \div c \in Nat
  BY <1>1, DivMonotonic, DivMod
<1>5. DOMAIN Write(start, n) = IF rem <= 0 THEN s..(s + n - 1)
                               ELSE IF rem >= frames THEN 0..last
                               ELSE (s..last) \cup (0..(rem - 1))
  BY DEF Write
<1>6. Marks(start, n) = Chunks \cap
        (IF s + n <= frames THEN (s \div c)..(((s + n) - 1) \div c)
         ELSE ((s \div c)..((frames - 1) \div c)) \cup (0..(((s + n) - frames - 1) \div c)))
  BY DEF Marks
<1> HIDE DEF c, s
<1>7. CASE rem <= 0
  <2>1. s + n <= frames /\ s + n - 1 \in Nat /\ s <= s + n - 1 /\ s + n - 1 <= last /\ s \in Nat
    BY <1>1, <1>7
  <2>2. img(s, s + n - 1) = (s \div c)..((s + n - 1) \div c)
    BY <1>3, <2>1
  <2>3. s \div c \in Nat /\ (s + n - 1) \div c <= last \div c /\ (s + n - 1) \div c \in Nat /\ last \div c \in Nat
    BY <1>1, <1>4, <2>1
  <2>4. Chunks \cap ((s \div c)..((s + n - 1) \div c)) = (s \div c)..((s + n - 1) \div c)
    BY <1>2, <2>3
  <2>5. QED
    BY <1>5, <1>6, <1>7, <2>1, <2>2, <2>4 DEF c
<1>8. CASE rem > 0
  <2>1. /\ ~(s + n <= frames) /\ s + n - frames - 1 = rem - 1 /\ rem - 1 \in Nat
        /\ s <= last /\ s \in Nat /\ 0 <= last
    BY <1>1, <1>8
  <2>2. /\ img(s, last) = (s \div c)..(last \div c)
        /\ img(0, rem - 1) = (0 \div c)..((rem - 1) \div c)
        /\ img(0, last) = (0 \div c)..(last \div c)
    <3> HIDE DEF img, rem, last
    <3>1. s \in Nat /\ last \in Nat /\ rem - 1 \in Nat /\ 0 \in Nat /\ s <= last /\ 0 <= rem - 1 /\ 0 <= last
      BY <1>1, <2>1
    <3>2. QED
      BY <1>3, <3>1
  <2>3. 0 \div c = 0
    BY <1>1
  <2>4. s \div c \in Nat /\ s \div c <= last \div c /\ last \div c \in Nat /\ (rem - 1) \div c \in Nat
    BY <1>1, <1>4, <2>1
  <2>5. CASE rem >= frames
    <3>1. last \div c <= (rem - 1) \div c
      BY <1>1, <1>4, <2>1, <2>5
    <3>2. Marks(start, n) = 0..(last \div c)
      <4> DEFINE A == s \div c
                 L == (frames - 1) \div c
                 M == (rem - 1) \div c
      <4>1. A \in Nat /\ A <= L /\ L \in Nat /\ M \in Nat /\ L <= M
        BY <2>4, <3>1
      <4>2. Chunks = 0..L
        BY <1>2
      <4>3. Marks(start, n) = Chunks \cap ((A..L) \cup (0..M))
        <5>1. ~(s + n <= frames) /\ (s + n) - frames - 1 = rem - 1
          BY <1>1, <2>1
        <5> HIDE DEF rem
        <5>2. QED
          BY Zenon, <1>6, <5>1
      <4> HIDE DEF A, L, M
      <4>4. Marks(start, n) = 0..L
        BY <4>1, <4>2, <4>3
      <4>5. QED
        BY <4>4 DEF L
    <3>3. DOMAIN Write(start, n) = 0..last
      <4>1. ~(rem <= 0) /\ rem >= frames
        BY <1>1, <1>8, <2>5
      <4> HIDE DEF rem, last
      <4>2. QED
        BY <1>5, <4>1
    <3>4. QED
      BY <2>2, <2>3, <3>2, <3>3 DEF c
  <2>6. CASE rem < frames
    <3>1. (rem - 1) \div c <= last \div c
      BY <1>1, <1>4, <2>1, <2>6
    <3>2. Marks(start, n) = ((s \div c)..(last \div c)) \cup (0..((rem - 1) \div c))
      <4> DEFINE A == s \div c
                 L == (frames - 1) \div c
                 M == (rem - 1) \div c
      <4>1. A \in Nat /\ A <= L /\ L \in Nat /\ M \in Nat /\ M <= L
        BY <2>4, <3>1
      <4>2. Chunks = 0..L
        BY <1>2
      <4>3. Marks(start, n) = Chunks \cap ((A..L) \cup (0..M))
        <5>1. ~(s + n <= frames) /\ (s + n) - frames - 1 = rem - 1
          BY <1>1, <2>1
        <5> HIDE DEF rem
        <5>2. QED
          BY Zenon, <1>6, <5>1
      <4> HIDE DEF A, L, M
      <4>4. Marks(start, n) = (A..L) \cup (0..M)
        BY <4>1, <4>2, <4>3
      <4>5. QED
        BY <4>4 DEF A, L, M
    <3>3. DOMAIN Write(start, n) = (s..last) \cup (0..(rem - 1))
      <4>1. ~(rem <= 0) /\ ~(rem >= frames)
        BY <1>1, <1>8, <2>6
      <4> HIDE DEF rem, last
      <4>2. QED
        BY <1>5, <4>1
    <3>4. {f \div c : f \in (s..last) \cup (0..(rem - 1))} = img(s, last) \cup img(0, rem - 1)
      OBVIOUS
    <3>5. QED
      BY <2>2, <2>3, <3>2, <3>3, <3>4 DEF c
  <2>7. QED
    BY <1>1, <2>5, <2>6
<1>9. QED
  BY <1>1, <1>7, <1>8

-----------------------------------------------------------------------------
(* The invariant.                                                            *)

SlicePending == unmarked # <<>> /\ frames # 0

Touched(start, n) == {f \div ChunkFrames : f \in DOMAIN Write(start, n)}

\* The bitmap lags behind the loop by the slice still to be marked, and by
\* nothing else; the playhead never enters the head of the loop.
LoopInv ==
  /\ TypeOK
  /\ frames # 0 => position \in Lap
  /\ frames = 0 => patched = {} /\ written = {}
  /\ SlicePending => written = patched \cup Touched(unmarked[1], unmarked[2])
  /\ ~SlicePending => patched = written

\* A loop that is not empty has at least four frames, so it has a seam.
LEMMA TypedLoopPlays ==
  ASSUME TypeOK, frames # 0
  PROVE  Playing
BY LoopAssumption DEF TypeOK, Playing

\* Reading moves the playhead, and keeps it out of the head.
LEMMA ReadStays ==
  ASSUME Playing, NEW p \in Lap, NEW n \in Nat
  PROVE  ReadInto(p, n).position \in Lap
<1>1. p \in Places
  BY LapIsPlaces
<1>2. PICK g : Path(g, p)
  BY <1>1, PathExists
<1>3. ReadInto(p, n).position = g[n]
  BY <1>1, <1>2, ReadIntoIsStepwise, StepwiseIs
<1>4. QED
  BY <1>2, <1>3, PathStays

\* mark_patched marks what a write touches, in chunks of the loop only.
LEMMA TouchedAreChunks ==
  ASSUME Playing, NEW start \in Nat, NEW n \in 1..MaxBlock
  PROVE  Touched(start, n) = Marks(start, n) /\ Touched(start, n) \subseteq Chunks
<1>1. n \in Nat \ {0}
  BY LoopAssumption
<1>2. Touched(start, n) = Marks(start, n)
  BY <1>1, MarksAreExact DEF Touched
<1>3. Marks(start, n) \subseteq Chunks
  BY DEF Marks
<1>4. QED
  BY <1>2, <1>3

\* The invariant holds before the first loop.
LEMMA LoopInit == Init => LoopInv
BY DEF Init, LoopInv, TypeOK, SlicePending

\* Each operation keeps the invariant, one step per action.
LEMMA LoopNext == LoopInv /\ [Next]_vars => LoopInv'
<1> SUFFICES ASSUME LoopInv, [Next]_vars PROVE LoopInv'
  OBVIOUS
<1>1. ASSUME NEW n \in Sizes, InitLoop(n) PROVE LoopInv'
  <2>1. frames' = n /\ n \in Nat /\ n >= 4 /\ position' = Seam' /\ (frames # 0)'
    BY <1>1, LoopAssumption DEF InitLoop, Seam
  <2>2. Playing'
    BY <2>1 DEF Playing
  <2>3. (position \in Lap)' /\ position' \in 0..n
    <3>1. Lesser(SeamFrames, n \div 4) \in 0..(n - 1)
      BY <2>1, LoopAssumption DEF Lesser
    <3>2. QED
      BY <1>1, <2>1, <3>1 DEF InitLoop, Lap, Seam
  <2>4. patched' = {} /\ written' = {} /\ unmarked' = <<>>
    BY <1>1 DEF InitLoop
  <2>5. TypeOK'
    BY <2>1, <2>3, <2>4 DEF TypeOK
  <2>6. QED
    BY <2>1, <2>3, <2>4, <2>5 DEF LoopInv, SlicePending
<1>2. ASSUME NEW start \in 0..frames, NEW n \in Slices, Patch(start, n) PROVE LoopInv'
  <2>1. n \in 1..MaxBlock /\ start \in Nat
    BY LoopAssumption DEF LoopInv, TypeOK
  <2>2. /\ frames' = frames /\ position' = position /\ patched' = patched /\ unmarked = <<>>
        /\ unmarked' = <<start, n>> /\ unmarked'[1] = start /\ unmarked'[2] = n
        /\ unmarked' # <<>> /\ unmarked' \in Nat \X (1..MaxBlock)
    BY <1>2, <2>1 DEF Patch
  <2>3. Chunks' = Chunks /\ Lap' = Lap /\ (Touched(start, n))' = Touched(start, n)
    BY <2>2 DEF Chunks, Lap, Seam, Touched, Write
  <2>4. patched = written
    BY <2>2 DEF LoopInv, SlicePending
  <2>5. CASE frames = 0
    BY <1>2, <2>2, <2>3, <2>4, <2>5 DEF Patch, LoopInv, TypeOK, SlicePending
  <2>6. CASE frames # 0
    <3>1. written' = patched \cup Touched(start, n)
      BY <1>2, <2>4, <2>6 DEF Patch, Touched
    <3>2. Touched(start, n) \subseteq Chunks
      BY <2>1, <2>6, TypedLoopPlays, TouchedAreChunks DEF LoopInv
    <3>3. TypeOK'
      BY <2>2, <2>3, <2>4, <3>1, <3>2 DEF LoopInv, TypeOK
    <3>4. (SlicePending => written = patched \cup Touched(unmarked[1], unmarked[2]))'
      BY <2>2, <2>3, <3>1 DEF Touched
    <3>5. QED
      BY <2>2, <2>3, <2>6, <3>3, <3>4 DEF LoopInv, SlicePending
  <2>7. QED
    BY <2>5, <2>6
<1>3. ASSUME NEW n \in 1..MaxBlock, Read(n) PROVE LoopInv'
  <2>1. /\ frames # 0 /\ position' = ReadInto(position, n).position
        /\ frames' = frames /\ patched' = patched /\ unmarked' = unmarked /\ written' = written
    BY <1>3 DEF Read
  <2>2. Playing /\ position \in Lap /\ n \in Nat
    BY <2>1, LoopAssumption, TypedLoopPlays DEF LoopInv
  <2>3. position' \in Lap
    BY <2>1, <2>2, ReadStays
  <2>4. position' \in 0..frames
    BY <2>2, <2>3, LapIsPlaces DEF Places, Playing
  <2>5. Chunks' = Chunks /\ Lap' = Lap
    BY <2>1 DEF Chunks, Lap, Seam
  <2>6. (Touched(unmarked[1], unmarked[2]))' = Touched(unmarked[1], unmarked[2])
    BY <2>1 DEF Touched, Write
  <2>7. QED
    BY <2>1, <2>3, <2>4, <2>5, <2>6 DEF LoopInv, TypeOK, SlicePending
<1>4. CASE Clear
  BY <1>4 DEF Clear, LoopInv, TypeOK, SlicePending
<1>5. CASE MarkPatched
  <2>1. /\ unmarked # <<>> /\ unmarked' = <<>>
        /\ frames' = frames /\ position' = position /\ written' = written
    BY <1>5 DEF MarkPatched
  <2>2. Chunks' = Chunks /\ Lap' = Lap
    BY <2>1 DEF Chunks, Lap, Seam
  <2>3. patched' = written
    <3>1. CASE frames = 0
      BY <1>5, <3>1 DEF MarkPatched, LoopInv
    <3>2. CASE frames # 0
      <4>1. unmarked[1] \in Nat /\ unmarked[2] \in 1..MaxBlock
        BY <2>1 DEF LoopInv, TypeOK
      <4>2. Touched(unmarked[1], unmarked[2]) = Marks(unmarked[1], unmarked[2])
        BY <3>2, <4>1, TypedLoopPlays, TouchedAreChunks DEF LoopInv
      <4>3. QED
        BY <1>5, <2>1, <3>2, <4>2 DEF MarkPatched, LoopInv, SlicePending
    <3>3. QED
      BY <3>1, <3>2
  <2>4. QED
    BY <2>1, <2>2, <2>3 DEF LoopInv, TypeOK, SlicePending
<1>6. CASE UNCHANGED vars
  <2>1. Chunks' = Chunks /\ Lap' = Lap
    BY <1>6 DEF vars, Chunks, Lap, Seam
  <2>2. (Touched(unmarked[1], unmarked[2]))' = Touched(unmarked[1], unmarked[2])
    BY <1>6 DEF vars, Touched, Write
  <2>3. QED
    BY <1>6, <2>1, <2>2 DEF vars, LoopInv, TypeOK, SlicePending
<1>7. QED
  BY <1>1, <1>2, <1>3, <1>4, <1>5, <1>6 DEF Next

\* The invariant holds always.
LEMMA LoopInvariant == Spec => []LoopInv
BY LoopInit, LoopNext, PTL DEF Spec

\* The playhead stays inside the loop, the bitmap inside the chunks the loop has,
\* whatever the recv, main and audio threads interleave.
THEOREM TypeCorrect == Spec => []TypeOK
<1>1. LoopInv => TypeOK
  BY DEF LoopInv
<1>2. QED
  BY <1>1, LoopInvariant, PTL

\* read_into copies in runs, cut at the seam and at the end of the loop; what it
\* plays and where it stops is what playing one sample at a time would give.
THEOREM ReadIsStepwiseAlways == Spec => []ReadIsStepwise
<1>1. ASSUME LoopInv PROVE ReadIsStepwise
  <2> SUFFICES ASSUME frames # 0, NEW n \in 1..MaxBlock
               PROVE  ReadInto(position, n) = Stepwise(position, n)
    BY DEF ReadIsStepwise
  <2>1. Playing /\ position \in Places /\ n \in Nat
    BY <1>1, LoopAssumption, TypedLoopPlays, LapIsPlaces DEF LoopInv
  <2>2. QED
    BY <2>1, ReadIntoIsStepwise
<1>2. QED
  BY <1>1, LoopInvariant, PTL

\* From wherever the playhead is, a lap returns to it, having played each frame
\* past the head raw or at the tail, and each frame of the head folded in, once.
THEOREM LapPlaysEachFrameOnceAlways == Spec => []LapPlaysEachFrameOnce
<1>1. ASSUME LoopInv PROVE LapPlaysEachFrameOnce
  <2> SUFFICES ASSUME frames # 0
               PROVE  LapPlaysEachFrameOnce
    BY DEF LapPlaysEachFrameOnce
  <2>1. Playing /\ position \in Lap
    BY <1>1, TypedLoopPlays DEF LoopInv
  <2>2. QED
    BY <2>1, LapOnce DEF LapPlaysEachFrameOnce
<1>2. QED
  BY <1>1, LoopInvariant, PTL

\* _write puts sample k of a slice at frame start + k round the end of the loop,
\* and touches no other frame.
THEOREM WriteIsPointwiseAlways == Spec => []WriteIsPointwise
<1>1. ASSUME LoopInv PROVE WriteIsPointwise
  <2> SUFFICES ASSUME frames # 0, NEW start \in 0..(2 * frames),
                      NEW n \in 1..Lesser(MaxBlock, frames)
               PROVE  /\ DOMAIN Write(start, n) = {(start + k) % frames : k \in 0..(n - 1)}
                      /\ \A k \in 0..(n - 1) : Write(start, n)[(start + k) % frames] = k
    BY DEF WriteIsPointwise
  <2>1. Playing
    BY <1>1, TypedLoopPlays DEF LoopInv
  <2>2. start \in Nat /\ n \in Nat \ {0} /\ n <= frames
    BY <2>1, LoopAssumption DEF Playing, Lesser
  <2>3. QED
    BY <2>1, <2>2, WritePoints
<1>2. QED
  BY <1>1, LoopInvariant, PTL

\* Between slices the coverage bitmap holds exactly the chunks audio has landed
\* in since the loop was initialised, across clears, swaps and wrapped slices.
THEOREM CoverageExactAlways == Spec => []CoverageExact
<1>1. LoopInv => CoverageExact
  BY DEF LoopInv, CoverageExact, SlicePending
<1>2. QED
  BY <1>1, LoopInvariant, PTL
=============================================================================
