--------------------------- MODULE SequenceLemmas ---------------------------
(***************************************************************************)
(* Facts about numbers and sequences that the proofs about several         *)
(* components need: induction about sets of numbers, and FlattenSeq of the *)
(* community modules.                                                      *)
(***************************************************************************)
EXTENDS Integers, Sequences, SequencesExt, SequenceTheorems, WellFoundedInduction, TLAPS

-----------------------------------------------------------------------------
(* Numbers.                                                                *)

LEMMA LeastNat ==
    ASSUME NEW T, T \subseteq Nat, T # {}
    PROVE  \E x \in T : \A y \in T : x <= y
  <1> DEFINE R == {ss \in Nat \X Nat : ss[1] < ss[2]}
  <1>1. IsWellFoundedOn(R, Nat)
    BY NatLessThanWellFounded DEF OpToRel
  <1>2. \E x \in T : \A y \in T : ~ (<<y, x>> \in R)
    <2> HIDE DEF R
    <2> QED
      BY <1>1, WFMin
  <1>3. \A x, y \in T : ~ (<<y, x>> \in R) => x <= y
    OBVIOUS
  <1> QED
    BY <1>2, <1>3, Zenon

(* Induction, about a set of numbers.                                      *)
LEMMA Induction ==
    ASSUME NEW T, 0 \in T, \A n \in Nat : n \in T => n + 1 \in T
    PROVE  Nat \subseteq T
  <1> SUFFICES ASSUME Nat \ T # {}
               PROVE  FALSE
    OBVIOUS
  <1>1. PICK x \in Nat \ T : \A y \in Nat \ T : x <= y
    <2> DEFINE U == Nat \ T
    <2>1. U \subseteq Nat /\ U # {}
      OBVIOUS
    <2> HIDE DEF U
    <2>2. \E x \in U : \A y \in U : x <= y
      BY <2>1, LeastNat
    <2> QED
      BY <2>2 DEF U
  <1>2. x # 0 /\ x - 1 \in Nat
    BY <1>1
  <1>3. x - 1 \in T
    BY <1>1, <1>2
  <1>4. (x - 1) + 1 \in T
    BY <1>2, <1>3
  <1> QED
    BY <1>1, <1>4

LEMMA GreatestNat ==
    ASSUME NEW T, NEW b \in Nat, T \subseteq 0 .. b, T # {}
    PROVE  \E x \in T : \A y \in T : y <= x
  <1> DEFINE U == {b - x : x \in T}
  <1>1. U \subseteq Nat
    OBVIOUS
  <1>n. U # {}
    OBVIOUS
  <1>2. PICK u \in U : \A v \in U : u <= v
    BY <1>1, <1>n, LeastNat
  <1>3. PICK x \in T : u = b - x
    OBVIOUS
  <1>4. \A y \in T : b - x <= b - y
    BY <1>2, <1>3
  <1> QED
    BY <1>4

-----------------------------------------------------------------------------
(* The concatenation of sequences.                                         *)

LEMMA Associativity ==
    ASSUME NEW S
    PROVE  \A x, y, z \in Seq(S) : (x \o y) \o z = x \o (y \o z)
  BY ConcatAssociative, SMTT(60)

LEMMA HeadThenTail ==
    ASSUME NEW S, NEW s \in Seq(S), s # << >>
    PROVE  /\ Head(s) \in S /\ Tail(s) \in Seq(S) /\ <<Head(s)>> \in Seq(S)
           /\ s = <<Head(s)>> \o Tail(s)
  <1>1. Len(s) \in Nat \ {0} /\ 1 \in 1 .. Len(s) /\ Len(s) \in 1 .. Len(s)
    BY LenProperties, EmptySeq
  <1>2. SubSeq(s, 1, Len(s)) = <<s[1]>> \o SubSeq(s, 1 + 1, Len(s))
    BY <1>1, SubSeqRecursiveFirst
  <1>3. SubSeq(s, 1, Len(s)) = s
    BY SubSeqFull
  <1>4. Tail(s) = SubSeq(s, 2, Len(s))
    BY TailIsSubSeq
  <1>5. Head(s) \in S /\ Tail(s) \in Seq(S)
    BY HeadTailProperties
  <1>6. Head(s) = s[1]
    BY DEF Head
  <1>7. <<Head(s)>> \in Seq(S)
    BY <1>5
  <1> QED
    BY <1>2, <1>3, <1>4, <1>5, <1>6, <1>7

LEMMA ConcatAppend ==
    ASSUME NEW S, NEW s \in Seq(S), NEW v \in Seq(S), NEW x \in S
    PROVE  s \o Append(v, x) = Append(s \o v, x)
  <1>1. <<x>> \in Seq(S) /\ s \o v \in Seq(S)
    BY ConcatProperties
  <1>2. Append(v, x) = v \o <<x>> /\ Append(s \o v, x) = (s \o v) \o <<x>>
    BY <1>1, AppendIsConcat
  <1>3. (s \o v) \o <<x>> = s \o (v \o <<x>>)
    BY <1>1, Associativity
  <1> QED
    BY <1>2, <1>3

(* A sequence that is cut in two.                                          *)
LEMMA CutInTwo ==
    ASSUME NEW S, NEW s \in Seq(S), NEW k \in 0 .. Len(s)
    PROVE  /\ SubSeq(s, 1, k) \in Seq(S) /\ SubSeq(s, k + 1, Len(s)) \in Seq(S)
           /\ s = SubSeq(s, 1, k) \o SubSeq(s, k + 1, Len(s))
  <1>1. Len(s) \in Nat /\ k \in Int /\ k + 1 \in Int
    BY LenProperties
  <1>2. \A i \in 1 .. Len(s) : s[i] \in S
    BY ElementOfSeq
  <1>3. SubSeq(s, 1, k) \in Seq(S)
    <2>1. \A i \in 1 .. k : s[i] \in S
      BY <1>1, <1>2
    <2> QED
      BY <1>1, <2>1, SubSeqProperties
  <1>4. SubSeq(s, k + 1, Len(s)) \in Seq(S)
    <2>1. \A i \in k + 1 .. Len(s) : s[i] \in S
      BY <1>1, <1>2
    <2> QED
      BY <1>1, <2>1, SubSeqProperties
  <1>5. SubSeq(s, 1, k) \o SubSeq(s, k + 1, Len(s)) = SubSeq(s, 1, Len(s))
    <2>1. 1 \in 1 .. Len(s) + 1 /\ k \in 1 - 1 .. Len(s) /\ Len(s) \in k .. Len(s)
      BY <1>1
    <2> QED
      BY <2>1, ConcatAdjacentSubSeq
  <1>6. SubSeq(s, 1, Len(s)) = s
    BY SubSeqFull
  <1> QED
    BY <1>3, <1>4, <1>5, <1>6

(* The function that FlattenSeq defines by recursion.                      *)
Flattens(g, s, n) == g = [i \in 1 .. n |-> IF i = 1 THEN s[i] ELSE g[i - 1] \o s[i]]

LEMMA FlattensExists ==
    ASSUME NEW S, NEW s \in Seq(Seq(S))
    PROVE  \A n \in 0 .. Len(s) : \E g \in [1 .. n -> Seq(S)] : Flattens(g, s, n)
  <1> DEFINE T == {n \in Nat : n <= Len(s) => \E g \in [1 .. n -> Seq(S)] : Flattens(g, s, n)}
  <1>1. 0 \in T
    <2>1. [i \in 1 .. 0 |-> << >>] \in [1 .. 0 -> Seq(S)]
      OBVIOUS
    <2>2. Flattens([i \in 1 .. 0 |-> << >>], s, 0)
      BY DEF Flattens
    <2> QED
      BY <2>1, <2>2
  <1>2. \A n \in Nat : n \in T => n + 1 \in T
    <2> SUFFICES ASSUME NEW n \in Nat, n \in T, n + 1 <= Len(s)
                 PROVE  \E g \in [1 .. n + 1 -> Seq(S)] : Flattens(g, s, n + 1)
      OBVIOUS
    <2>1. PICK g \in [1 .. n -> Seq(S)] : Flattens(g, s, n)
      BY LenProperties
    <2>2. s[n + 1] \in Seq(S)
      BY LenProperties, ElementOfSeq
    <2> DEFINE last == IF n = 0 THEN s[1] ELSE g[n] \o s[n + 1]
               h == [i \in 1 .. n + 1 |-> IF i = n + 1 THEN last ELSE g[i]]
    <2>3. last \in Seq(S)
      <3>1. CASE n = 0
        BY <2>2, <3>1
      <3>2. CASE n # 0
        <4>1. g[n] \in Seq(S)
          BY <3>2
        <4> QED
          BY <3>2, <2>2, <4>1, ConcatProperties
      <3> QED
        BY <3>1, <3>2
    <2>4. h \in [1 .. n + 1 -> Seq(S)]
      BY <2>3
    <2>5. \A i \in 1 .. n : h[i] = g[i]
      <3> HIDE DEF last
      <3>1. \A i \in 1 .. n : i \in 1 .. n + 1 /\ i # n + 1
        OBVIOUS
      <3> QED
        BY <3>1, Zenon
    <2>6. h[n + 1] = last
      OBVIOUS
    <2>7. \A i \in 1 .. n : g[i] = IF i = 1 THEN s[i] ELSE g[i - 1] \o s[i]
      BY <2>1 DEF Flattens
    <2>8. \A i \in 1 .. n + 1 : h[i] = IF i = 1 THEN s[i] ELSE h[i - 1] \o s[i]
      <3> HIDE DEF h
      <3> SUFFICES ASSUME NEW i \in 1 .. n + 1
                   PROVE  h[i] = IF i = 1 THEN s[i] ELSE h[i - 1] \o s[i]
        OBVIOUS
      <3>1. CASE i = n + 1
        BY <3>1, <2>5, <2>6
      <3>2. CASE i # n + 1
        <4>1. i \in 1 .. n /\ (i # 1 => i - 1 \in 1 .. n)
          BY <3>2
        <4> QED
          BY <4>1, <2>5, <2>7
      <3> QED
        BY <3>1, <3>2
    <2>9. Flattens(h, s, n + 1)
      <3>1. h = [i \in 1 .. n + 1 |-> h[i]]
        OBVIOUS
      <3> HIDE DEF h
      <3> QED
        BY <2>8, <3>1 DEF Flattens
    <2> HIDE DEF h
    <2> QED
      BY <2>4, <2>9
  <1> HIDE DEF T
  <1>3. Nat \subseteq T
    BY <1>1, <1>2, Induction
  <1> QED
    BY <1>3, LenProperties DEF T

Steps(g, s, n) == \A i \in 1 .. n : g[i] = IF i = 1 THEN s[i] ELSE g[i - 1] \o s[i]

LEMMA FlattensUnique ==
    ASSUME NEW g, NEW h, NEW s, NEW n \in Nat, Steps(g, s, n), Steps(h, s, n)
    PROVE  \A i \in 1 .. n : g[i] = h[i]
  <1>1. /\ \A i \in 1 .. n : g[i] = IF i = 1 THEN s[i] ELSE g[i - 1] \o s[i]
        /\ \A i \in 1 .. n : h[i] = IF i = 1 THEN s[i] ELSE h[i - 1] \o s[i]
    BY DEF Steps
  <1> DEFINE T == {k \in Nat : k \in 1 .. n => g[k] = h[k]}
  <1>2. 0 \in T
    OBVIOUS
  <1>3. \A k \in Nat : k \in T => k + 1 \in T
    <2> SUFFICES ASSUME NEW k \in Nat, k \in T, k + 1 \in 1 .. n
                 PROVE  g[k + 1] = h[k + 1]
      OBVIOUS
    <2>1. CASE k = 0
      BY <2>1, <1>1
    <2>2. CASE k # 0
      <3>1. k \in 1 .. n /\ k + 1 # 1 /\ (k + 1) - 1 = k
        BY <2>2
      <3>2. g[k] = h[k]
        BY <3>1
      <3> QED
        BY <1>1, <3>1, <3>2
    <2> QED
      BY <2>1, <2>2
  <1> HIDE DEF T
  <1>4. Nat \subseteq T
    BY <1>2, <1>3, Induction
  <1> QED
    BY <1>4 DEF T

LEMMA FlattenSeqIs ==
    ASSUME NEW S, NEW s \in Seq(Seq(S)), s # << >>, NEW g, Flattens(g, s, Len(s))
    PROVE  FlattenSeq(s) = g[Len(s)]
  <1> DEFINE n == Len(s)
             F == CHOOSE h : h = [i \in 1 .. n |-> IF i = 1 THEN s[i] ELSE h[i - 1] \o s[i]]
  <1>1. n \in Nat /\ n # 0 /\ n \in 1 .. n
    BY LenProperties, EmptySeq
  <1>2. FlattenSeq(s) = F[n]
    BY <1>1 DEF FlattenSeq
  <1>3. Flattens(F, s, n)
    BY DEF Flattens
  <1>4. Steps(F, s, n) /\ Steps(g, s, n)
    <2> HIDE DEF F, n
    <2>1. Steps(F, s, n)
      BY <1>3 DEF Flattens, Steps
    <2>2. Steps(g, s, n)
      BY DEF Flattens, Steps, n
    <2> QED
      BY <2>1, <2>2
  <1>5. F[n] = g[n]
    <2> HIDE DEF F, n
    <2> QED
      BY <1>1, <1>4, FlattensUnique
  <1> QED
    BY <1>2, <1>5

LEMMA FlattenAppend ==
    ASSUME NEW S, NEW s \in Seq(Seq(S)), NEW x \in Seq(S)
    PROVE  /\ FlattenSeq(s) \in Seq(S)
           /\ FlattenSeq(Append(s, x)) = FlattenSeq(s) \o x
  <1> PICK n : n = Len(s)
    OBVIOUS
  <1> PICK m : m = Len(s) + 1
    OBVIOUS
  <1> PICK t : t = Append(s, x)
    OBVIOUS
  <1>1. /\ n \in Nat /\ m \in Nat /\ n <= m /\ m # 0 /\ m \in 1 .. m /\ m = n + 1 /\ m - 1 = n
        /\ s = << >> <=> n = 0
        /\ n \in 0 .. Len(s)
    BY LenProperties, EmptySeq
  <1>2. /\ t \in Seq(Seq(S)) /\ t # << >> /\ Len(t) = m /\ t[m] = x
        /\ \A i \in 1 .. n : s[i] = t[i]
    BY AppendProperties
  <1>3. PICK g : Flattens(g, s, n) /\ g \in [1 .. n -> Seq(S)]
    BY <1>1, FlattensExists
  <1>4. PICK h : Flattens(h, t, m) /\ h \in [1 .. m -> Seq(S)]
    <2>1. m \in 0 .. Len(t)
      BY <1>1, <1>2
    <2> QED
      BY <1>2, <2>1, FlattensExists
  <1>5. FlattenSeq(t) = h[m]
    BY <1>2, <1>4, FlattenSeqIs
  <1>6. h[m] = IF n = 0 THEN x ELSE h[n] \o x
    <2>1. \A i \in 1 .. m : h[i] = IF i = 1 THEN t[i] ELSE h[i - 1] \o t[i]
      BY <1>4 DEF Flattens
    <2>2. h[m] = IF m = 1 THEN t[m] ELSE h[m - 1] \o t[m]
      BY <1>1, <2>1
    <2> QED
      BY <1>1, <1>2, <2>2
  <1>7. CASE s = << >>
    <2>1. FlattenSeq(s) = << >>
      BY <1>7, EmptySeq DEF FlattenSeq
    <2>2. << >> \o x = x
      BY ConcatEmptySeq
    <2> QED
      BY <1>1, <1>5, <1>6, <1>7, <2>1, <2>2, EmptySeq
  <1>8. CASE s # << >>
    <2>1. FlattenSeq(s) = g[n]
      BY <1>3, <1>8, FlattenSeqIs
    <2>2. g[n] = h[n]
      <3>1. \A i \in 1 .. n : g[i] = h[i]
        <4>1. Steps(g, s, n)
          BY <1>3 DEF Flattens, Steps
        <4>2. Steps(h, t, m)
          BY <1>4 DEF Flattens, Steps
        <4>3. Steps(h, s, n)
          BY <1>1, <1>2, <4>2 DEF Steps
        <4> QED
          BY <1>1, <4>1, <4>3, FlattensUnique
      <3> QED
        BY <1>1, <1>8, <3>1
    <2>3. g[n] \in Seq(S)
      BY <1>1, <1>3, <1>8, SMTT(60)
    <2> QED
      BY <1>1, <1>5, <1>6, <1>8, <2>1, <2>2, <2>3
  <1> QED
    BY <1>7, <1>8

LEMMA FlattenEmpty ==
    FlattenSeq(<< >>) = << >>
  BY EmptySeq DEF FlattenSeq

LEMMA FlattenType ==
    ASSUME NEW S, NEW s \in Seq(Seq(S))
    PROVE  FlattenSeq(s) \in Seq(S)
  <1>1. << >> \in Seq(S)
    BY EmptySeq
  <1> QED
    BY <1>1, FlattenAppend

LEMMA FlattenOne ==
    ASSUME NEW S, NEW x \in Seq(S)
    PROVE  FlattenSeq(<<x>>) = x
  <1>1. << >> \in Seq(Seq(S)) /\ Append(<< >>, x) = <<x>>
    BY EmptySeq
  <1>2. FlattenSeq(Append(<< >>, x)) = FlattenSeq(<< >>) \o x
    BY <1>1, FlattenAppend
  <1>3. << >> \o x = x
    BY ConcatEmptySeq
  <1> QED
    BY <1>1, <1>2, <1>3, FlattenEmpty

LEMMA FlattenConcat ==
    ASSUME NEW S, NEW s \in Seq(Seq(S)), NEW t \in Seq(Seq(S))
    PROVE  FlattenSeq(s \o t) = FlattenSeq(s) \o FlattenSeq(t)
  <1>b. \A a, b, c \in Seq(S) : (a \o b) \o c = a \o (b \o c)
    BY Associativity, SMTT(60)
  <1> PICK A : A = Seq(S)
    OBVIOUS
  <1>s. s \in Seq(A) /\ t \in Seq(A)
    OBVIOUS
  <1> DEFINE Holds(u) == FlattenSeq(s \o u) = FlattenSeq(s) \o FlattenSeq(u)
             T == {n \in Nat : \A u \in Seq(A) : Len(u) = n => Holds(u)}
  <1>1. 0 \in T
    <2> SUFFICES ASSUME NEW u \in Seq(A), Len(u) = 0
                 PROVE  Holds(u)
      OBVIOUS
    <2>1. u = << >>
      BY EmptySeq
    <2>2. s \o u = s
      BY <1>s, <2>1, ConcatEmptySeq
    <2>3. FlattenSeq(s) \o FlattenSeq(u) = FlattenSeq(s)
      BY <2>1, FlattenEmpty, FlattenType, ConcatEmptySeq
    <2> QED
      BY <2>2, <2>3
  <1>2. \A n \in Nat : n \in T => n + 1 \in T
    <2> SUFFICES ASSUME NEW n \in Nat, \A u \in Seq(A) : Len(u) = n => Holds(u),
                        NEW u \in Seq(A), Len(u) = n + 1
                 PROVE  Holds(u)
      <3> HIDE DEF Holds
      <3> QED
        OBVIOUS
    <2>1. u # << >>
      BY EmptySeq
    <2>2. PICK v \in Seq(A), x \in A : u = Append(v, x)
      BY <2>1, SequenceEmptyOrAppend
    <2>3. Len(v) = n
      BY <2>2, AppendProperties, LenProperties
    <2>4. Holds(v)
      BY <2>3
    <2> PICK w : w = s \o v
      OBVIOUS
    <2>5. w \in Seq(A)
      BY <1>s, ConcatProperties
    <2>6. s \o u = Append(w, x)
      BY <1>s, <2>2, ConcatAppend
    <2>7. /\ FlattenSeq(s) \in Seq(S) /\ FlattenSeq(v) \in Seq(S) /\ x \in Seq(S)
          /\ FlattenSeq(Append(w, x)) = FlattenSeq(w) \o x
          /\ FlattenSeq(u) = FlattenSeq(v) \o x
      BY <2>2, <2>5, FlattenAppend, ZenonT(60)
    <2>8. (FlattenSeq(s) \o FlattenSeq(v)) \o x = FlattenSeq(s) \o (FlattenSeq(v) \o x)
      BY <1>b, <2>7
    <2> QED
      BY <2>4, <2>6, <2>7, <2>8
  <1> HIDE DEF T
  <1>3. Nat \subseteq T
    BY <1>1, <1>2, Induction
  <1> QED
    BY <1>3, LenProperties DEF T

LEMMA FlattenHead ==
    ASSUME NEW S, NEW s \in Seq(Seq(S)), s # << >>
    PROVE  /\ Head(s) \in Seq(S) /\ Tail(s) \in Seq(Seq(S))
           /\ FlattenSeq(s) = Head(s) \o FlattenSeq(Tail(s))
  <1>1. /\ Head(s) \in Seq(S) /\ Tail(s) \in Seq(Seq(S)) /\ <<Head(s)>> \in Seq(Seq(S))
        /\ s = <<Head(s)>> \o Tail(s)
    BY HeadThenTail
  <1>2. FlattenSeq(<<Head(s)>> \o Tail(s)) = FlattenSeq(<<Head(s)>>) \o FlattenSeq(Tail(s))
    BY <1>1, FlattenConcat
  <1>3. FlattenSeq(<<Head(s)>>) = Head(s)
    BY <1>1, FlattenOne
  <1> QED
    BY <1>1, <1>2, <1>3

LEMMA FlattenSplit ==
    ASSUME NEW S, NEW s \in Seq(Seq(S)), NEW k \in 0 .. Len(s)
    PROVE  /\ SubSeq(s, 1, k) \in Seq(Seq(S)) /\ SubSeq(s, k + 1, Len(s)) \in Seq(Seq(S))
           /\ FlattenSeq(s) = FlattenSeq(SubSeq(s, 1, k)) \o FlattenSeq(SubSeq(s, k + 1, Len(s)))
  <1>1. /\ SubSeq(s, 1, k) \in Seq(Seq(S)) /\ SubSeq(s, k + 1, Len(s)) \in Seq(Seq(S))
        /\ s = SubSeq(s, 1, k) \o SubSeq(s, k + 1, Len(s))
    BY CutInTwo
  <1>2. FlattenSeq(SubSeq(s, 1, k) \o SubSeq(s, k + 1, Len(s)))
           = FlattenSeq(SubSeq(s, 1, k)) \o FlattenSeq(SubSeq(s, k + 1, Len(s)))
    BY <1>1, FlattenConcat
  <1> QED
    BY <1>1, <1>2
=============================================================================
