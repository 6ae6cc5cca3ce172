----------------------------- MODULE LoraProofs -----------------------------
(***************************************************************************)
(* Proofs about LoraPrompt, for any catalog order, any words and any text.   *)
(* That the pod's prompt is in step is shown in two parts: an invariant says *)
(* that it is what inject() makes of the text, the toggles and the catalog   *)
(* as they are now, and lemmas about lora_triggers.py say what inject()      *)
(* returns.                                                                  *)
(***************************************************************************)
EXTENDS LoraPrompt, SequenceTheorems, FiniteSetTheorems, WellFoundedInduction, TLAPS

(* Induction over the naturals, for sets; see LoopProofs.                    *)

Below == {p \in Nat \X Nat : p[1] < p[2]}

\* A set of naturals that has a member has a least one.
LEMMA Least ==
  ASSUME NEW T, T \subseteq Nat, T # {}
  PROVE  \E x \in T : \A y \in T : x <= y
<1>0. IsWellFoundedOn(Below, Nat)
  BY NatLessThanWellFounded DEF OpToRel, Below
<1>1. PICK x \in T : \A y \in T : ~ (<<y, x>> \in Below)
  BY <1>0, WFMin
<1>2. ASSUME NEW y \in T PROVE x <= y
  <2>1. ~ (y < x)
    BY <1>1 DEF Below
  <2>2. QED
    BY <2>1
<1>3. QED
  BY <1>2

\* A set that holds 0 and, with each number, the next one holds all of them.
LEMMA Induct ==
  ASSUME NEW T, 0 \in T, \A n \in Nat : n \in T => n + 1 \in T
  PROVE  \A n \in Nat : n \in T
<1> SUFFICES ASSUME NEW n \in Nat, n \notin T PROVE FALSE
  OBVIOUS
<1> DEFINE Out == {m \in Nat : m \notin T}
<1>1. PICK x \in Out : \A y \in Out : x <= y
  <2>1. Out \subseteq Nat /\ Out # {}
    OBVIOUS
  <2> HIDE DEF Out
  <2>2. QED
    BY <2>1, Least
<1>2. x \in Nat /\ x # 0 /\ x - 1 \in Nat /\ x - 1 \notin Out
  BY <1>1
<1>3. QED
  BY <1>1, <1>2

-----------------------------------------------------------------------------
(* strip_leading_triggers()                                                  *)

\* It drops tokens up to the first that is no word, and there is one such place.
LEMMA StripIs ==
  ASSUME NEW t \in Seq(STRING), NEW words, NEW n \in 0..Len(t),
         \A i \in 1..n : t[i] \in words, n < Len(t) => t[n + 1] \notin words
  PROVE  StripLeadingTriggers(t, words) = SubSeq(t, n + 1, Len(t))
<1> DEFINE Stop(k) == /\ \A i \in 1..k : t[i] \in words
                      /\ k < Len(t) => t[k + 1] \notin words
<1>1. ASSUME NEW k \in 0..Len(t), Stop(k) PROVE k = n
  <2>1. ~ (k < n)
    <3> SUFFICES ASSUME k < n PROVE FALSE
      OBVIOUS
    <3>1. k + 1 \in 1..n /\ k < Len(t)
      OBVIOUS
    <3>2. QED
      BY <1>1, <3>1
  <2>2. ~ (n < k)
    <3> SUFFICES ASSUME n < k PROVE FALSE
      OBVIOUS
    <3>1. n + 1 \in 1..k /\ n < Len(t)
      OBVIOUS
    <3>2. QED
      BY <1>1, <3>1
  <2>3. QED
    BY <2>1, <2>2
<1>2. Stop(n)
  OBVIOUS
<1>3. (CHOOSE k \in 0..Len(t) : Stop(k)) = n
  <2> HIDE DEF Stop
  <2>1. QED
    BY <1>1, <1>2
<1>4. QED
  BY <1>3 DEF StripLeadingTriggers

\* Every text has a first token that is none of the words, or only words.
LEMMA StripExists ==
  ASSUME NEW t \in Seq(STRING), NEW words
  PROVE  \E n \in 0..Len(t) : /\ \A i \in 1..n : t[i] \in words
                              /\ n < Len(t) => t[n + 1] \notin words
<1> DEFINE Stops == {k \in 0..Len(t) : k < Len(t) => t[k + 1] \notin words}
<1>1. PICK n \in Stops : \A k \in Stops : n <= k
  <2>1. Stops \subseteq Nat /\ Len(t) \in Stops
    OBVIOUS
  <2> HIDE DEF Stops
  <2>2. QED
    BY <2>1, Least
<1>2. ASSUME NEW i \in 1..n PROVE t[i] \in words
  <2>1. i - 1 \in 0..Len(t) /\ ~ (n <= i - 1) /\ (i - 1) + 1 = i
    OBVIOUS
  <2>2. i - 1 \notin Stops
    BY <1>1, <2>1
  <2>3. QED
    BY <2>1, <2>2
<1>3. QED
  BY <1>2

\* What is left is the end of the text, and does not begin with a word.
LEMMA StripLeaves ==
  ASSUME NEW t \in Seq(STRING), NEW words
  PROVE  LET rest == StripLeadingTriggers(t, words)
         IN  /\ rest \in Seq(STRING) /\ Len(rest) <= Len(t)
             /\ IsSuffix(rest, t)
             /\ rest # << >> => Head(rest) \notin words
             /\ \A i \in 1..(Len(t) - Len(rest)) : t[i] \in words
<1>1. PICK n \in 0..Len(t) : /\ \A i \in 1..n : t[i] \in words
                             /\ n < Len(t) => t[n + 1] \notin words
  BY StripExists
<1> DEFINE rest == SubSeq(t, n + 1, Len(t))
<1>2. StripLeadingTriggers(t, words) = rest
  BY <1>1, StripIs
<1>3. /\ rest \in Seq(STRING) /\ Len(rest) = Len(t) - n
      /\ \A i \in 1..(Len(t) - n) : rest[i] = t[n + i]
  OBVIOUS
<1> HIDE DEF rest
<1>4. IsSuffix(rest, t)
  <2> DEFINE m == Len(t) - n
             a == Reverse(rest)
             b == Reverse(t)
  <2>1. m \in Nat /\ m <= Len(t) /\ Len(rest) = m
    BY <1>3
  <2>2. a = [i \in 1..m |-> rest[(m - i) + 1]] /\ b = [i \in 1..Len(t) |-> t[(Len(t) - i) + 1]]
    BY <2>1 DEF Reverse
  <2>3. a \in Seq(STRING) /\ Len(a) = m /\ b \in Seq(STRING) /\ Len(b) = Len(t)
    <3>1. \A i \in 1..m : (m - i) + 1 \in 1..Len(rest)
      BY <2>1
    <3>2. \A i \in 1..m : rest[(m - i) + 1] \in STRING
      BY <1>3, <3>1
    <3>3. a \in Seq(STRING) /\ Len(a) = m
      BY <2>1, <2>2, <3>2
    <3>4. \A i \in 1..Len(t) : t[(Len(t) - i) + 1] \in STRING
      OBVIOUS
    <3>5. b \in Seq(STRING) /\ Len(b) = Len(t)
      BY <2>2, <3>4
    <3>6. QED
      BY <3>3, <3>5
  <2>4. ASSUME NEW i \in 1..m PROVE a[i] = b[i]
    <3>1. (m - i) + 1 \in 1..(Len(t) - n) /\ n + ((m - i) + 1) = (Len(t) - i) + 1 /\ i \in 1..Len(t)
      BY <2>1
    <3>2. rest[(m - i) + 1] = t[(Len(t) - i) + 1]
      BY <1>3, <3>1
    <3>3. QED
      BY <2>2, <3>1, <3>2
  <2> HIDE DEF a, b, m
  <2>5. SubSeq(a, 1, m) = a
    BY <2>1, <2>3
  <2>6. SubSeq(b, 1, m) \in Seq(STRING) /\ Len(SubSeq(b, 1, m)) = m /\ \A i \in 1..m : SubSeq(b, 1, m)[i] = b[i]
    BY <2>1, <2>3
  <2>7. a = SubSeq(b, 1, m)
    BY <2>3, <2>4, <2>6, SeqEqual
  <2>8. QED
    BY <2>1, <2>3, <2>5, <2>7 DEF IsSuffix, IsPrefix, a, b
<1>5. rest # << >> => Head(rest) \notin words
  <2> SUFFICES ASSUME rest # << >> PROVE Head(rest) \notin words
    OBVIOUS
  <2>1. Len(rest) # 0
    BY <1>3
  <2>2. Head(rest) = rest[1] /\ n < Len(t) /\ 1 \in 1..(Len(t) - n)
    BY <1>3, <2>1
  <2>3. rest[1] = t[n + 1]
    BY <1>3, <2>2
  <2>4. QED
    BY <1>1, <2>2, <2>3
<1>6. QED
  BY <1>1, <1>2, <1>3, <1>4, <1>5

\* What was put in front is taken off again, and nothing else.
LEMMA StripPrefixed ==
  ASSUME NEW p \in Seq(STRING), NEW rest \in Seq(STRING), NEW words,
         \A i \in 1..Len(p) : p[i] \in words, rest # << >> => Head(rest) \notin words
  PROVE  StripLeadingTriggers(p \o rest, words) = rest
<1> DEFINE t == p \o rest
<1>1. /\ t \in Seq(STRING) /\ Len(t) = Len(p) + Len(rest)
      /\ \A i \in 1..(Len(p) + Len(rest)) : t[i] = IF i <= Len(p) THEN p[i] ELSE rest[i - Len(p)]
  BY ConcatProperties
<1> HIDE DEF t
<1>2. Len(p) \in 0..Len(t)
  BY <1>1
<1>3. \A i \in 1..Len(p) : t[i] \in words
  BY <1>1
<1>4. ASSUME Len(p) < Len(t) PROVE t[Len(p) + 1] \notin words
  <2>1. rest # << >> /\ Head(rest) = rest[1] /\ t[Len(p) + 1] = rest[1]
    BY <1>1, <1>4
  <2>2. QED
    BY <2>1
<1>5. StripLeadingTriggers(t, words) = SubSeq(t, Len(p) + 1, Len(t))
  BY <1>1, <1>2, <1>3, <1>4, StripIs
<1>6. SubSeq(t, Len(p) + 1, Len(t)) = rest
  <2> DEFINE u == SubSeq(t, Len(p) + 1, Len(t))
  <2>1. u \in Seq(STRING) /\ Len(u) = Len(rest) /\ \A i \in 1..Len(rest) : u[i] = t[Len(p) + i]
    BY <1>1
  <2> HIDE DEF u
  <2>2. ASSUME NEW i \in 1..Len(rest) PROVE u[i] = rest[i]
    BY <1>1, <2>1
  <2>3. u = rest
    BY <2>1, <2>2, SeqEqual
  <2>4. QED
    BY <2>3 DEF u
<1>7. QED
  BY <1>5, <1>6 DEF t

-----------------------------------------------------------------------------
(* build_trigger_prefix()                                                    *)

\* w gives the LoRAs of s their words, and those of e, among them, are enabled.
Rows(s, w, e) ==
  s \subseteq Loras /\ DOMAIN w = s /\ e \subseteq s /\ \A l \in s : w[l] \in {None} \cup STRING

Count == Len(Order)

\* The list of words after row i, from the list before it.
Row(s, w, e, i, words) ==
  IF Order[i] \in s /\ Order[i] \in e /\ w[Order[i]] # None /\ w[Order[i]] \notin ToSet(words)
  THEN Append(words, w[Order[i]]) ELSE words

\* f is the walk through the first n rows.
Walk(f, n, s, w, e) ==
  /\ f \in [0..n -> Seq(STRING)] /\ f[0] = << >>
  /\ \A i \in 1..n : f[i] = Row(s, w, e, i, f[i - 1])

\* The catalog order counts the LoRAs from 1.
LEMMA OrderTyped == Order \in Seq(STRING) /\ Count \in Nat /\ Loras = {Order[i] : i \in 1..Count}
BY LoraAssumption DEF Loras, ToSet, Count

\* One row of build_trigger_prefix adds a word to a sequence of words, or none.
LEMMA RowTyped ==
  ASSUME NEW s, NEW w, NEW e, Rows(s, w, e), NEW i \in 1..Count, NEW words \in Seq(STRING)
  PROVE  Row(s, w, e, i, words) \in Seq(STRING)
<1>1. CASE Order[i] \in s /\ w[Order[i]] # None
  <2>1. w[Order[i]] \in STRING
    BY <1>1 DEF Rows
  <2>2. Append(words, w[Order[i]]) \in Seq(STRING)
    BY <2>1, AppendProperties
  <2>3. QED
    BY <2>2 DEF Row
<1>2. CASE ~ (Order[i] \in s /\ w[Order[i]] # None)
  BY <1>2 DEF Row
<1>3. QED
  BY <1>1, <1>2

\* build_trigger_prefix has a value for every number of rows.
LEMMA WalkExists ==
  ASSUME NEW s, NEW w, NEW e, Rows(s, w, e)
  PROVE  \E f : Walk(f, Count, s, w, e)
<1> DEFINE T == {n \in Nat : n <= Count => \E f : Walk(f, n, s, w, e)}
<1>0. Count \in Nat
  BY OrderTyped
<1>1. 0 \in T
  <2> DEFINE f == [i \in 0..0 |-> << >>]
  <2>1. f \in [0..0 -> Seq(STRING)] /\ f[0] = << >>
    OBVIOUS
  <2>2. 1..0 = {}
    OBVIOUS
  <2> HIDE DEF f
  <2>3. Walk(f, 0, s, w, e)
    BY <2>1, <2>2 DEF Walk
  <2>4. QED
    BY <2>3
<1>2. ASSUME NEW n \in Nat, n \in T PROVE n + 1 \in T
  <2> SUFFICES ASSUME n + 1 <= Count PROVE \E f : Walk(f, n + 1, s, w, e)
    OBVIOUS
  <2>1. PICK f : Walk(f, n, s, w, e)
    BY <1>0, <1>2
  <2> DEFINE x == Row(s, w, e, n + 1, f[n])
             g == [i \in 0..(n + 1) |-> IF i <= n THEN f[i] ELSE x]
  <2>2. f \in [0..n -> Seq(STRING)] /\ f[0] = << >> /\ f[n] \in Seq(STRING)
    BY <2>1 DEF Walk
  <2>3. x \in Seq(STRING)
    BY <1>0, <2>2, RowTyped
  <2> HIDE DEF x
  <2>4. g \in [0..(n + 1) -> Seq(STRING)] /\ g[0] = << >>
    BY <2>2, <2>3
  <2>5. ASSUME NEW i \in 1..(n + 1) PROVE g[i] = Row(s, w, e, i, g[i - 1])
    <3>1. i - 1 \in 0..n /\ i - 1 \in 0..(n + 1) /\ g[i - 1] = f[i - 1]
      OBVIOUS
    <3>2. CASE i <= n
      <4>1. f[i] = Row(s, w, e, i, f[i - 1]) /\ g[i] = f[i]
        BY <2>1, <3>2 DEF Walk
      <4>2. QED
        BY <3>1, <4>1
    <3>3. CASE ~ (i <= n)
      <4>1. i = n + 1 /\ i - 1 = n
        BY <3>3
      <4>2. g[i] = x
        BY <3>3
      <4>3. QED
        BY <3>1, <4>1, <4>2 DEF x
    <3>4. QED
      BY <3>2, <3>3
  <2> HIDE DEF g
  <2>6. Walk(g, n + 1, s, w, e)
    BY <2>4, <2>5 DEF Walk
  <2>7. QED
    BY <2>6
<1> HIDE DEF T
<1>3. \A n \in Nat : n \in T
  BY <1>1, <1>2, Induct
<1>4. QED
  BY <1>0, <1>3 DEF T

\* The prefix is where the walk ends.
LEMMA PrefixIsWalk ==
  ASSUME NEW s, NEW w, NEW e, Rows(s, w, e), NEW f, Walk(f, Count, s, w, e)
  PROVE  BuildTriggerPrefix(s, w, e, TRUE) = f[Count]
<1> DEFINE words[i \in 0..Count] == IF i = 0 THEN << >> ELSE Row(s, w, e, i, words[i - 1])
<1>0. Count \in Nat
  BY OrderTyped
<1>1. BuildTriggerPrefix(s, w, e, TRUE) = words[Count]
  BY DEF BuildTriggerPrefix, Row, Count
<1>2. words = [i \in 0..Count |-> IF i = 0 THEN << >> ELSE Row(s, w, e, i, words[i - 1])]
  <2>1. f = [i \in 0..Count |-> f[i]]
    BY DEF Walk
  <2>2. ASSUME NEW i \in 0..Count PROVE f[i] = IF i = 0 THEN << >> ELSE Row(s, w, e, i, f[i - 1])
    BY <1>0 DEF Walk
  <2>3. f = [i \in 0..Count |-> IF i = 0 THEN << >> ELSE Row(s, w, e, i, f[i - 1])]
    BY <2>1, <2>2
  <2>4. QED
    BY <2>3
<1> HIDE DEF words
<1>3. ASSUME NEW i \in 0..Count PROVE words[i] = IF i = 0 THEN << >> ELSE Row(s, w, e, i, words[i - 1])
  BY <1>2
<1> DEFINE T == {n \in Nat : n <= Count => words[n] = f[n]}
<1>4. 0 \in T
  BY <1>0, <1>3 DEF Walk
<1>5. ASSUME NEW n \in Nat, n \in T PROVE n + 1 \in T
  <2> SUFFICES ASSUME n + 1 <= Count PROVE words[n + 1] = f[n + 1]
    OBVIOUS
  <2>1. n + 1 \in 0..Count /\ n + 1 # 0 /\ (n + 1) - 1 = n /\ words[n] = f[n] /\ n + 1 \in 1..Count
    BY <1>0, <1>5
  <2>2. f[n + 1] = Row(s, w, e, n + 1, f[n])
    BY <2>1 DEF Walk
  <2>3. QED
    BY <1>3, <2>1, <2>2
<1> HIDE DEF T
<1>6. \A n \in Nat : n \in T
  BY <1>4, <1>5, Induct
<1>7. words[Count] = f[Count]
  BY <1>0, <1>6 DEF T
<1>8. QED
  BY <1>1, <1>7, Zenon

LEMMA ToSetAppend ==
  ASSUME NEW S, NEW words \in Seq(S), NEW x \in S
  PROVE  ToSet(Append(words, x)) = ToSet(words) \cup {x} /\ Len(Append(words, x)) = Len(words) + 1
<1> DEFINE u == Append(words, x)
           m == Len(words)
<1>1. /\ m \in Nat /\ DOMAIN words = 1..m /\ DOMAIN u = 1..(m + 1)
      /\ u[m + 1] = x /\ \A i \in 1..m : u[i] = words[i]
  <2>1. /\ u \in Seq(S) /\ Len(u) = m + 1
        /\ u[m + 1] = x /\ \A i \in 1..m : u[i] = words[i]
    BY AppendProperties
  <2>2. m \in Nat /\ DOMAIN words = 1..m
    BY LenProperties
  <2>3. DOMAIN u = 1..(m + 1)
    <3> HIDE DEF u, m
    <3>1. QED
      BY <2>1, LenProperties
  <2>4. QED
    BY <2>1, <2>2, <2>3
<1> HIDE DEF u, m
<1>2. \A i : i \in 1..(m + 1) <=> i \in 1..m \/ i = m + 1
  BY <1>1
<1>3. {u[i] : i \in 1..(m + 1)} = {words[i] : i \in 1..m} \cup {x}
  <2>1. ASSUME NEW i \in 1..(m + 1) PROVE u[i] \in {words[j] : j \in 1..m} \cup {x}
    BY <1>1, <1>2
  <2>2. ASSUME NEW y \in {words[j] : j \in 1..m} \cup {x} PROVE \E i \in 1..(m + 1) : u[i] = y
    BY <1>1, <1>2
  <2>3. QED
    BY <2>1, <2>2
<1>4. QED
  <2>1. ToSet(u) = ToSet(words) \cup {x}
    BY <1>1, <1>3 DEF ToSet
  <2>2. Len(u) = m + 1
    BY AppendProperties DEF u, m
  <2>3. QED
    BY <2>1, <2>2 DEF u, m

\* The words met in the first n rows.
Met(w, e, n) == {w[Order[i]] : i \in {j \in 1..n : Order[j] \in e}} \ {None}

\* Each word met is in the list once.
LEMMA WalkLists ==
  ASSUME NEW s, NEW w, NEW e, Rows(s, w, e), NEW f, Walk(f, Count, s, w, e), NEW n \in 0..Count
  PROVE  /\ ToSet(f[n]) = Met(w, e, n)
         /\ IsFiniteSet(ToSet(f[n])) /\ Cardinality(ToSet(f[n])) = Len(f[n])
<1> DEFINE Once(k) == /\ ToSet(f[k]) = Met(w, e, k)
                      /\ IsFiniteSet(ToSet(f[k])) /\ Cardinality(ToSet(f[k])) = Len(f[k])
           T == {k \in Nat : k <= Count => Once(k)}
<1>0. Count \in Nat
  BY OrderTyped
<1>1. 0 \in T
  <2>1. f[0] = << >> /\ ToSet(<< >>) = {} /\ Len(<< >>) = 0
    BY DEF Walk, ToSet
  <2>2. Met(w, e, 0) = {}
    BY DEF Met
  <2>3. QED
    BY <2>1, <2>2, FS_EmptySet
<1>2. ASSUME NEW k \in Nat, k \in T PROVE k + 1 \in T
  <2> SUFFICES ASSUME k + 1 <= Count PROVE Once(k + 1)
    BY <1>0
  <2>1. Once(k)
    BY <1>0, <1>2
  <2> HIDE DEF T
  <2>2. f[k] \in Seq(STRING) /\ f[k + 1] = Row(s, w, e, k + 1, f[k])
    <3>1. k + 1 \in 1..Count /\ k \in 0..Count /\ (k + 1) - 1 = k
      BY <1>0
    <3>2. QED
      BY <3>1 DEF Walk
  <2> DEFINE l == Order[k + 1]
  <2>3. Met(w, e, k + 1) = Met(w, e, k) \cup (IF l \in e /\ w[l] # None THEN {w[l]} ELSE {})
    <3>1. \A j : j \in 1..(k + 1) <=> j \in 1..k \/ j = k + 1
      OBVIOUS
    <3>2. QED
      BY <3>1 DEF Met
  <2>4. CASE l \in e /\ w[l] # None /\ w[l] \notin ToSet(f[k])
    <3>1. l \in s /\ w[l] \in STRING
      BY <2>4 DEF Rows
    <3>2. f[k + 1] = Append(f[k], w[l])
      BY <2>2, <2>4, <3>1 DEF Row
    <3>3. ToSet(f[k + 1]) = ToSet(f[k]) \cup {w[l]} /\ Len(f[k + 1]) = Len(f[k]) + 1
      <4> DEFINE old == f[k]
                 x == w[l]
                 Str == STRING
      <4>1. old \in Seq(Str) /\ x \in Str /\ f[k + 1] = Append(old, x)
        BY <2>2, <3>1, <3>2
      <4> HIDE DEF old, x, Str
      <4>2. ToSet(f[k + 1]) = ToSet(old) \cup {x} /\ Len(f[k + 1]) = Len(old) + 1
        BY <4>1, ToSetAppend
      <4>3. QED
        BY <4>2 DEF old, x
    <3>4. IsFiniteSet(ToSet(f[k + 1])) /\ Cardinality(ToSet(f[k + 1])) = Cardinality(ToSet(f[k])) + 1
      <4> DEFINE S == ToSet(f[k])
                 x == w[l]
      <4>1. IsFiniteSet(S) /\ x \notin S /\ ToSet(f[k + 1]) = S \cup {x}
        BY <2>1, <2>4, <3>3
      <4> HIDE DEF S, x
      <4>2. IsFiniteSet(S \cup {x}) /\ Cardinality(S \cup {x}) = Cardinality(S) + 1
        BY <4>1, FS_AddElement
      <4>3. QED
        BY <4>1, <4>2 DEF S
    <3>5. QED
      BY <2>1, <2>3, <2>4, <3>3, <3>4
  <2>5. CASE ~ (l \in e /\ w[l] # None /\ w[l] \notin ToSet(f[k]))
    <3>1. f[k + 1] = f[k]
      BY <2>2, <2>5 DEF Row
    <3>2. Met(w, e, k + 1) = Met(w, e, k)
      BY <2>1, <2>3, <2>5
    <3>3. QED
      BY <2>1, <3>1, <3>2
  <2>6. QED
    BY <2>4, <2>5
<1> HIDE DEF T
<1>3. \A k \in Nat : k \in T
  BY <1>1, <1>2, Induct
<1>4. QED
  BY <1>0, <1>3 DEF T

Wanted(w, e, auto) == IF auto THEN {w[l] : l \in e} \ {None} ELSE {}

\* The prefix is the words of the enabled LoRAs, each once.
LEMMA PrefixLists ==
  ASSUME NEW s, NEW w, NEW e, Rows(s, w, e), NEW auto \in BOOLEAN
  PROVE  LET p == BuildTriggerPrefix(s, w, e, auto)
         IN  /\ p \in Seq(STRING) /\ ToSet(p) = Wanted(w, e, auto)
             /\ Cardinality(Wanted(w, e, auto)) = Len(p)
<1>1. CASE auto = FALSE
  <2>1. BuildTriggerPrefix(s, w, e, auto) = << >>
    BY <1>1 DEF BuildTriggerPrefix
  <2>2. << >> \in Seq(STRING) /\ ToSet(<< >>) = {} /\ Len(<< >>) = 0
    BY DEF ToSet
  <2>3. Wanted(w, e, auto) = {}
    BY <1>1 DEF Wanted
  <2>4. QED
    BY <2>1, <2>2, <2>3, FS_EmptySet
<1>2. CASE auto = TRUE
  <2>1. PICK f : Walk(f, Count, s, w, e)
    BY WalkExists
  <2>2. Count \in 0..Count /\ f[Count] \in Seq(STRING)
    BY <2>1, OrderTyped DEF Walk
  <2>3. ToSet(f[Count]) = Met(w, e, Count) /\ Cardinality(Met(w, e, Count)) = Len(f[Count])
    BY <2>1, <2>2, WalkLists
  <2>4. Met(w, e, Count) = {w[l] : l \in e} \ {None}
    <3>1. \A l \in e : \E i \in 1..Count : Order[i] = l
      BY OrderTyped DEF Rows
    <3>2. QED
      BY <3>1 DEF Met
  <2>5. BuildTriggerPrefix(s, w, e, auto) = f[Count]
    BY <1>2, <2>1, PrefixIsWalk
  <2>6. QED
    BY <1>2, <2>2, <2>3, <2>4, <2>5 DEF Wanted
<1>3. QED
  BY <1>1, <1>2

-----------------------------------------------------------------------------
(* inject()                                                                  *)

\* sent leads with the words wanted, goes on with what is left of t, and stays as
\* it is when it is sent again.
WellSent(sent, t, s, w, e, auto) ==
  LET words  == CatalogTriggerWords(w)
      wanted == Wanted(w, e, auto)
      n      == Cardinality(wanted)
      rest   == SubSeq(sent, n + 1, Len(sent))
  IN /\ {sent[i] : i \in 1..n} = wanted
     /\ IsSuffix(rest, t) /\ (rest # << >> => Head(rest) \notin words)
     /\ \A i \in 1..(Len(t) - Len(rest)) : t[i] \in words
     /\ Inject(sent, s, w, e, auto) = sent

\* inject: the words to lead with, then what strip leaves of the text.
LEMMA InjectIs ==
  ASSUME NEW s, NEW w, NEW e, Rows(s, w, e), NEW auto \in BOOLEAN, NEW t \in Seq(STRING)
  PROVE  /\ Inject(t, s, w, e, auto) \in Seq(STRING)
         /\ WellSent(Inject(t, s, w, e, auto), t, s, w, e, auto)
<1> DEFINE p      == BuildTriggerPrefix(s, w, e, auto)
           words  == CatalogTriggerWords(w)
           wanted == Wanted(w, e, auto)
           r      == StripLeadingTriggers(t, words)
           sent   == p \o r
           Str    == STRING
<1>1. p \in Seq(Str) /\ ToSet(p) = wanted /\ Cardinality(wanted) = Len(p)
  BY PrefixLists
<1>2. /\ r \in Seq(Str) /\ IsSuffix(r, t)
      /\ r # << >> => Head(r) \notin words
      /\ \A i \in 1..(Len(t) - Len(r)) : t[i] \in words
  BY StripLeaves
<1>3. \A u : Inject(u, s, w, e, auto) = p \o StripLeadingTriggers(u, words)
  BY DEF Inject
<1>4. wanted \subseteq words
  BY DEF Wanted, CatalogTriggerWords, Rows
<1>5. StripLeadingTriggers(sent, words) = r
  <2>1. p \in Seq(STRING) /\ r \in Seq(STRING)
    BY <1>1, <1>2
  <2>2. \A i \in 1..Len(p) : p[i] \in words
    <3>1. DOMAIN p = 1..Len(p)
      BY <1>1, LenProperties
    <3>2. QED
      BY <1>1, <1>4, <3>1 DEF ToSet
  <2> HIDE DEF p, r, words
  <2>3. QED
    BY <1>2, <2>1, <2>2, StripPrefixed
<1> HIDE DEF p, words, wanted, r, Str
<1>6. /\ sent \in Seq(Str) /\ Len(sent) = Len(p) + Len(r) /\ Len(p) \in Nat /\ Len(r) \in Nat
      /\ \A i \in 1..(Len(p) + Len(r)) : sent[i] = IF i <= Len(p) THEN p[i] ELSE r[i - Len(p)]
  BY <1>1, <1>2, ConcatProperties
<1> HIDE DEF sent
<1>7. {sent[i] : i \in 1..Len(p)} = wanted
  <2>1. \A i \in 1..Len(p) : sent[i] = p[i]
    BY <1>6
  <2>2. DOMAIN p = 1..Len(p)
    BY <1>1, LenProperties
  <2>3. QED
    BY <1>1, <2>1, <2>2 DEF ToSet
<1>8. SubSeq(sent, Len(p) + 1, Len(sent)) = r
  <2> DEFINE u == SubSeq(sent, Len(p) + 1, Len(sent))
  <2>1. u \in Seq(Str) /\ Len(u) = Len(r) /\ \A i \in 1..Len(r) : u[i] = sent[Len(p) + i]
    BY <1>6
  <2> HIDE DEF u
  <2>2. ASSUME NEW i \in 1..Len(r) PROVE u[i] = r[i]
    <3>1. /\ Len(p) + i \in 1..(Len(p) + Len(r)) /\ ~ (Len(p) + i <= Len(p))
          /\ (Len(p) + i) - Len(p) = i
      BY <1>6
    <3>2. sent[Len(p) + i] = r[i]
      BY <1>6, <3>1
    <3>3. QED
      BY <2>1, <3>2
  <2>3. u = r
    BY <1>2, <2>1, <2>2, SeqEqual
  <2>4. QED
    BY <2>3 DEF u
<1>9. Inject(t, s, w, e, auto) = sent /\ Inject(sent, s, w, e, auto) = sent
  BY <1>3, <1>5 DEF sent, r
<1>10. sent \in Seq(STRING)
  BY <1>6 DEF Str
<1>11. QED
  <2>1. WellSent(sent, t, s, w, e, auto)
    BY <1>1, <1>2, <1>7, <1>8, <1>9 DEF WellSent, words, wanted
  <2>2. QED
    BY <1>9, <1>10, <2>1

-----------------------------------------------------------------------------
(* The invariant                                                             *)

Injected == Inject(text, ids, triggers, EnabledLoras, prepend)

\* The toggles that count are those of the catalog, which are routed; and while
\* only toggles moved since it was sent, the prompt is the one a send would give.
LoraInv ==
  /\ TypeOK
  /\ ids \subseteq routed /\ sig \subseteq routed
  /\ inStep => connected /\ pod.prompt = Injected

\* The catalog the model sends is typed.
LEMMA RowsNow ==
  ASSUME TypeOK
  PROVE  Rows(ids, triggers, EnabledLoras) /\ text \in Seq(STRING) /\ prepend \in BOOLEAN
<1>1. ASSUME NEW l \in ids PROVE triggers[l] \in {None} \cup STRING
  <2>1. triggers[l] \in {None, Word[l]} /\ l \in Loras
    BY <1>1 DEF TypeOK
  <2>2. QED
    BY <2>1, LoraAssumption
<1>2. QED
  BY <1>1, LoraAssumption DEF TypeOK, Rows, EnabledLoras

\* What inject returns is a text.
LEMMA InjectTyped ==
  ASSUME NEW s, NEW w, NEW e, Rows(s, w, e), NEW auto \in BOOLEAN, NEW t \in Seq(STRING)
  PROVE  Inject(t, s, w, e, auto) \in Seq(STRING)
BY InjectIs

\* The invariant holds at launch.
LEMMA LoraInit == Init => LoraInv
<1> SUFFICES ASSUME Init PROVE LoraInv
  OBVIOUS
<1>1. << >> \in Seq(STRING) /\ DOMAIN << >> = {}
  OBVIOUS
<1>2. pod \in [loaded : SUBSET Loras, prompt : Seq(STRING), ready : BOOLEAN]
  BY <1>1 DEF Init, NoPod
<1>3. ids \subseteq Loras /\ DOMAIN triggers = ids
  BY <1>1 DEF Init
<1>4. QED
  BY <1>1, <1>2, <1>3 DEF Init, LoraInv, TypeOK

\* Each operation keeps the invariant, one step per action.
LEMMA LoraNext == LoraInv /\ [Next]_vars => LoraInv'
<1> SUFFICES ASSUME LoraInv, [Next]_vars PROVE LoraInv'
  OBVIOUS
<1> DEFINE Pods == [loaded : SUBSET Loras, prompt : Seq(STRING), ready : BOOLEAN]
<1>0. /\ TypeOK /\ pod \in Pods
      /\ Rows(ids, triggers, EnabledLoras) /\ text \in Seq(STRING) /\ prepend \in BOOLEAN
  BY RowsNow DEF LoraInv, TypeOK
<1>1. ASSUME NEW t \in Texts, EditPrompt(t) PROVE LoraInv'
  BY <1>1 DEF LoraInv, TypeOK, EditPrompt, catalog
<1>2. ASSUME NEW t \in Texts, SendPrompt(t) PROVE LoraInv'
  <2>1. Inject(t, ids, triggers, EnabledLoras, prepend) \in Seq(STRING)
    BY <1>0, InjectTyped, LoraAssumption
  <2>2. /\ pod'.prompt = Inject(t, ids, triggers, EnabledLoras, prepend) /\ pod' \in Pods
        /\ UNCHANGED <<ids, triggers, sig, routed, pars, on, text, prepend, connected>>
        /\ connected /\ inStep' = (t = text)
    BY <1>0, <1>2, <2>1 DEF SendPrompt, catalog, knobs
  <2>3. QED
    BY <2>2 DEF LoraInv, TypeOK, Injected, EnabledLoras
<1>3. CASE TogglePrepend
  BY <1>3 DEF LoraInv, TypeOK, TogglePrepend, catalog
<1>4. CASE Connect
  <2>1. pod' \in Pods /\ inStep' = FALSE /\ sig' = {} /\ connected' = TRUE
    <3>1. PICK t \in Texts : pod' = SessionConfig(t)
      BY <1>4 DEF Connect
    <3>2. t \in Seq(STRING) /\ EnabledLoras \subseteq Loras
      BY <1>0, LoraAssumption DEF EnabledLoras, TypeOK
    <3>3. QED
      BY <1>4, <3>1, <3>2 DEF Connect, SessionConfig
  <2>2. QED
    BY <1>4, <2>1 DEF LoraInv, TypeOK, Connect, knobs
<1>5. CASE Disconnect
  <2>1. pod' \in Pods
    <3>1. << >> \in Seq(STRING)
      OBVIOUS
    <3>2. QED
      BY <1>5, <3>1 DEF Disconnect, NoPod
  <2>2. QED
    BY <1>5, <2>1 DEF LoraInv, TypeOK, Disconnect, catalog, knobs
<1>6. ASSUME NEW l \in Loras, ToggleLora(l) PROVE LoraInv'
  <2>1. /\ UNCHANGED <<ids, triggers, sig, routed, pars, text, prepend, connected>>
        /\ l \in pars /\ on' = IF l \in on THEN on \ {l} ELSE on \cup {l}
    BY <1>6 DEF ToggleLora, catalog
  <2>2. on' \subseteq pars
    BY <1>0, <2>1 DEF TypeOK
  <2>3. CASE connected /\ l \in routed
    <3>1. Rows(ids, triggers, on' \cap ids)
      BY <1>0 DEF Rows, EnabledLoras
    <3>2. Resent = Inject(text, ids, triggers, on' \cap ids, prepend) /\ Resent \in Seq(STRING)
      BY <1>0, <2>1, <3>1, InjectTyped DEF Resent
    <3>3. pod'.prompt = Resent /\ pod' \in Pods /\ inStep' = TRUE
      <4> DEFINE loaded == IF l \in on THEN pod.loaded \ {l} ELSE pod.loaded \cup {l}
      <4>1. inStep' = TRUE /\ pod' = [pod EXCEPT !.loaded = loaded, !.prompt = Resent]
        BY <1>6, <2>3 DEF ToggleLora
      <4>2. loaded \subseteq Loras
        BY <1>0
      <4> HIDE DEF loaded
      <4>3. QED
        BY <1>0, <3>2, <4>1, <4>2
    <3>4. Injected' = Resent
      BY <2>1 DEF Injected, Resent, EnabledLoras
    <3>5. QED
      BY <2>1, <2>2, <2>3, <3>3, <3>4 DEF LoraInv, TypeOK
  <2>4. CASE ~ (connected /\ l \in routed)
    <3>1. UNCHANGED <<pod, inStep>>
      BY <1>6, <2>4 DEF ToggleLora
    <3>2. inStep => EnabledLoras' = EnabledLoras
      BY <2>1, <2>4 DEF LoraInv, EnabledLoras
    <3>3. inStep => Injected' = Injected
      BY <2>1, <3>2 DEF Injected
    <3>4. QED
      BY <2>1, <2>2, <3>1, <3>3 DEF LoraInv, TypeOK
  <2>5. QED
    BY <2>3, <2>4
<1>7. ASSUME NEW l \in Loras, EnableLora(l) \/ DisableLora(l) PROVE LoraInv'
  <2>1. /\ UNCHANGED <<ids, triggers, sig, routed, pars, on, text, prepend, connected, inStep>>
        /\ pod' \in Pods /\ pod'.prompt = pod.prompt
    BY <1>0, <1>7 DEF EnableLora, DisableLora, catalog, knobs
  <2>2. QED
    BY <2>1 DEF LoraInv, TypeOK, Injected, EnabledLoras
<1>8. ASSUME NEW c \in Catalogs, NEW m \in SUBSET c, connected, ApplyLoraCatalog(c, m)
      PROVE  LoraInv'
  <2> DEFINE switched == IF c # sig THEN (Defaults \cap c) \ pars ELSE {}
  <2>1. /\ ids' = c /\ sig' = c /\ routed' = (IF c # sig THEN c ELSE routed)
        /\ pars' = (IF c # sig THEN pars \cup c ELSE pars) /\ on' = on \cup switched
        /\ pod' = [loaded |-> pod.loaded \cup switched, ready |-> TRUE,
                   prompt |-> IF switched = {} THEN pod.prompt ELSE Resent]
        /\ inStep' = (switched # {} \/ (inStep /\ triggers' = triggers))
        /\ UNCHANGED <<text, prepend, connected>>
    BY <1>8 DEF ApplyLoraCatalog
  <2>2. /\ triggers' = [l \in c |-> IF l \in m THEN Word[l]
                                     ELSE IF l \in DOMAIN triggers THEN triggers[l] ELSE None]
    BY <1>8 DEF ApplyLoraCatalog, LearnTriggers
  <2>3. c \subseteq Loras /\ switched \subseteq c
    BY LoraAssumption
  <2>4. DOMAIN triggers' = c /\ \A l \in c : triggers'[l] \in {None, Word[l]}
    BY <1>0, <2>2 DEF TypeOK
  <2>5. c \subseteq routed' /\ routed' \subseteq pars' /\ on' \subseteq pars' /\ pars' \subseteq Loras
    BY <1>0, <2>1, <2>3 DEF LoraInv, TypeOK
  <2>6. Rows(c, triggers', on' \cap c)
    <3>1. \A l \in c : triggers'[l] \in {None} \cup STRING
      BY <2>3, <2>4, LoraAssumption
    <3>2. QED
      BY <2>3, <2>4, <3>1 DEF Rows
  <2>7. Resent = Injected' /\ Resent \in Seq(STRING)
    <3>1. Resent = Inject(text, c, triggers', on' \cap c, prepend)
      BY <2>1 DEF Resent
    <3>2. Injected' = Inject(text, c, triggers', on' \cap c, prepend)
      BY <2>1 DEF Injected, EnabledLoras
    <3>3. QED
      BY <1>0, <2>6, <3>1, <3>2, InjectTyped
  <2>8. pod' \in Pods /\ pod'.prompt = IF switched = {} THEN pod.prompt ELSE Resent
    <3> HIDE DEF switched
    <3>1. pod.loaded \cup switched \subseteq Loras /\ pod.prompt \in Seq(STRING)
      BY <1>0, <2>3
    <3>2. QED
      BY <2>1, <2>7, <3>1
  <2>9. TypeOK'
    <3> HIDE DEF switched
    <3>1. inStep' \in BOOLEAN
      BY <1>0, <2>1 DEF TypeOK
    <3>2. QED
      BY <1>0, <2>1, <2>3, <2>4, <2>5, <2>8, <3>1 DEF TypeOK
  <2>10. inStep' => connected' /\ pod'.prompt = Injected'
    <3>1. CASE switched # {}
      BY <1>8, <2>1, <2>7, <2>8, <3>1
    <3>2. CASE switched = {} /\ inStep'
      <4>1. inStep /\ triggers' = triggers /\ c = ids
        BY <1>0, <2>1, <2>4, <3>2 DEF TypeOK
      <4>2. on' = on /\ ids' = ids
        BY <2>1, <3>2, <4>1
      <4>3. Injected' = Injected
        BY <2>1, <4>1, <4>2 DEF Injected, EnabledLoras
      <4>4. QED
        BY <1>8, <2>1, <2>8, <3>2, <4>1, <4>3 DEF LoraInv
    <3>3. QED
      BY <3>1, <3>2
  <2>11. QED
    BY <2>1, <2>5, <2>9, <2>10 DEF LoraInv
<1>9. CASE UNCHANGED vars
  BY <1>9 DEF vars, LoraInv, TypeOK, Injected, EnabledLoras, catalog, knobs
<1>10. QED
  BY <1>1, <1>2, <1>3, <1>4, <1>5, <1>6, <1>7, <1>8, <1>9 DEF Next, Ready, EvLoraCatalog

\* The invariant holds always.
LEMMA LoraInvariant == Spec => []LoraInv
BY LoraInit, LoraNext, PTL DEF Spec

\* The catalog, the words and the pars keep their shapes, whatever LoRAs each pod
\* offers, and whether the project was saved with their toggles or without.
THEOREM TypeCorrect == Spec => []TypeOK
<1>1. LoraInv => TypeOK
  BY DEF LoraInv
<1>2. QED
  BY <1>1, LoraInvariant, PTL

\* With auto-prepend on, and whatever toggles move after the prompt was sent, the
\* pod encodes the words of the enabled LoRAs, each once, and then the operator's
\* text less the words it began with; sending that prompt again would change nothing.
THEOREM PromptInStepAlways == Spec => []PromptInStep
<1>1. ASSUME LoraInv, inStep, prepend PROVE PromptInStep
  <2>1. pod.prompt = Inject(text, ids, triggers, EnabledLoras, prepend)
    BY <1>1 DEF LoraInv, Injected
  <2>2. Rows(ids, triggers, EnabledLoras) /\ text \in Seq(STRING) /\ prepend \in BOOLEAN
    BY <1>1, RowsNow DEF LoraInv
  <2>3. WellSent(pod.prompt, text, ids, triggers, EnabledLoras, prepend)
    BY <2>1, <2>2, InjectIs
  <2>4. QED
    BY <2>3 DEF WellSent, Wanted, PromptInStep
<1>2. LoraInv => PromptInStep
  BY <1>1 DEF PromptInStep
<1>3. QED
  BY <1>2, LoraInvariant, PTL
=============================================================================
