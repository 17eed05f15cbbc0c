----------------------------- MODULE AtCmdProofs -----------------------------
(***************************************************************************)
(* Proofs about AtParser, for every script of commands and every size of   *)
(* the cache, the buffer and the window; about AtDemo, for every set of    *)
(* frames and every size of its buffers; and about AtConfig, for every set *)
(* of settings and every width of the counter.                             *)
(***************************************************************************)
EXTENDS AtParser, AtDemo, AtConfig, SequenceTheorems, FiniteSetTheorems, TLAPS

\* A set of natural numbers has a least one.
LEMMA LeastNatural ==
  ASSUME NEW T \in SUBSET Nat, T # {}
  PROVE  \E l \in T : \A i \in T : l <= i
<1> DEFINE R == StrictSubsetOrdering(Nat)
           U == {1 .. l : l \in T}
<1>1. IsWellFoundedOn(R, FiniteSubsetsOf(Nat))
  BY FS_StrictSubsetOrderingWellFounded
<1>2. U \subseteq FiniteSubsetsOf(Nat) /\ U # {}
  <2>1. ASSUME NEW l \in T PROVE 1 .. l \in SUBSET Nat /\ IsFiniteSet(1 .. l)
    <3>1. 1 \in Int /\ l \in Int
      OBVIOUS
    <3>2. IsFiniteSet(1 .. l)
      BY <3>1, FS_Interval
    <3>3. QED
      BY <3>2
  <2>2. QED
    BY <2>1 DEF FiniteSubsetsOf
<1>3. ASSUME NEW i \in T, NEW l \in T, i < l PROVE <<1 .. i, 1 .. l>> \in R
  <2>1. 1 .. i \subseteq 1 .. l /\ l \in 1 .. l /\ l \notin 1 .. i
    BY <1>3
  <2>2. 1 .. i \in SUBSET Nat /\ 1 .. l \in SUBSET Nat /\ 1 .. i # 1 .. l
    BY <2>1
  <2>3. QED
    BY <2>1, <2>2 DEF StrictSubsetOrdering
<1> HIDE DEF R
<1>4. PICK A \in U : \A B \in U : ~ (<<B, A>> \in R)
  <2> HIDE DEF U
  <2>1. QED
    BY <1>1, <1>2, WFMin
<1>5. PICK l \in T : A = 1 .. l
  BY <1>4
<1>6. \A i \in T : ~ (i < l)
  BY <1>3, <1>4, <1>5
<1>7. QED
  BY <1>6

-----------------------------------------------------------------------------
(* AtParser: where each byte of the script is.                             *)

\* g holds the pieces of e put together, up to the m-th.
FlatTo(e, g, m) ==
  \A i \in 1 .. m : g[i] = IF i = 1 THEN e[i] ELSE g[i - 1] \o e[i]

IsFlat(e, g) == g = [i \in 1 .. Len(e) |-> IF i = 1 THEN e[i] ELSE g[i - 1] \o e[i]]

\* There is such a g: FlattenSeq is of a function that exists.
LEMMA FlatExists ==
  ASSUME NEW B, NEW e \in Seq(Seq(B)), Len(e) # 0
  PROVE  \E g \in [1 .. Len(e) -> Seq(B)] : FlatTo(e, g, Len(e))
<1> DEFINE Bad == {m \in 1 .. Len(e) : ~ \E g \in [1 .. m -> Seq(B)] : FlatTo(e, g, m)}
<1>1. Len(e) \in Nat /\ \A i \in 1 .. Len(e) : e[i] \in Seq(B)
  BY ElementOfSeq, LenProperties
<1>2. ASSUME Bad # {} PROVE FALSE
  <2>1. Bad \in SUBSET Nat
    BY <1>1
  <2>2. PICK m \in Bad : \A i \in Bad : m <= i
    <3> HIDE DEF Bad
    <3>1. QED
      BY <1>2, <2>1, LeastNatural
  <2>3. m \in 1 .. Len(e) /\ m \in Nat
    BY <1>1
  <2>4. CASE m = 1
    <3> DEFINE g == [i \in 1 .. 1 |-> e[1]]
    <3>1. g \in [1 .. m -> Seq(B)] /\ FlatTo(e, g, m)
      BY <1>1, <2>3, <2>4 DEF FlatTo
    <3>2. QED
      BY <2>2, <3>1
  <2>5. CASE m # 1
    <3>1. m - 1 \in 1 .. Len(e) /\ m - 1 \notin Bad
      <4>1. m - 1 \in 1 .. Len(e) /\ ~ (m <= m - 1)
        BY <1>1, <2>3, <2>5
      <4>2. QED
        BY <2>2, <4>1
    <3>2. PICK g \in [1 .. m - 1 -> Seq(B)] : FlatTo(e, g, m - 1)
      BY <3>1
    <3> DEFINE h == [i \in 1 .. m |-> IF i = m THEN g[m - 1] \o e[m] ELSE g[i]]
    <3>3. g[m - 1] \o e[m] \in Seq(B)
      <4>1. m - 1 \in 1 .. m - 1
        BY <2>3, <2>5, <3>1
      <4>2. QED
        BY <1>1, <2>3, <3>2, <4>1, ConcatProperties
    <3>4. h \in [1 .. m -> Seq(B)]
      <4>1. \A i \in 1 .. m : i # m => i \in 1 .. m - 1
        BY <2>3
      <4>2. QED
        BY <3>2, <3>3, <4>1
    <3>5. FlatTo(e, h, m)
      <4> SUFFICES ASSUME NEW i \in 1 .. m
                   PROVE  h[i] = IF i = 1 THEN e[i] ELSE h[i - 1] \o e[i]
        BY DEF FlatTo
      <4>1. CASE i = m
        <5>1. h[m] = g[m - 1] \o e[m] /\ h[m - 1] = g[m - 1]
          <6>1. m \in 1 .. m /\ m - 1 \in 1 .. m /\ m - 1 # m
            BY <2>3, <2>5
          <6>2. QED
            BY <6>1, Zenon
        <5> HIDE DEF h
        <5>2. QED
          BY <2>5, <4>1, <5>1
      <4>2. CASE i # m
        <5>1. i \in 1 .. m - 1
          BY <2>3, <4>2
        <5>2. g[i] = IF i = 1 THEN e[i] ELSE g[i - 1] \o e[i]
          BY <3>2, <5>1 DEF FlatTo
        <5>3. h[i] = g[i] /\ (i # 1 => h[i - 1] = g[i - 1])
          BY <2>3, <4>2
        <5>4. QED
          BY <5>2, <5>3
      <4>3. QED
        BY <4>1, <4>2
    <3>6. QED
      <4> HIDE DEF h
      <4>1. QED
        BY <2>2, <3>4, <3>5
  <2>6. QED
    BY <2>4, <2>5
<1>3. Len(e) \in 1 .. Len(e) /\ Len(e) \notin Bad
  BY <1>1, <1>2
<1>4. QED
  BY <1>3

\* What FlattenSeq makes of its pieces.
LEMMA FlatDef ==
  ASSUME NEW B, NEW e \in Seq(Seq(B)), Len(e) # 0
  PROVE  \E g \in [1 .. Len(e) -> Seq(B)] : FlatTo(e, g, Len(e)) /\ FlattenSeq(e) = g[Len(e)]
<1>1. FlattenSeq(e) = (CHOOSE g : IsFlat(e, g))[Len(e)]
  BY DEF FlattenSeq, IsFlat
<1>2. PICK f \in [1 .. Len(e) -> Seq(B)] : FlatTo(e, f, Len(e))
  BY FlatExists
<1>3. IsFlat(e, f)
  BY <1>2 DEF FlatTo, IsFlat
<1> DEFINE h == CHOOSE g : IsFlat(e, g)
<1>4. IsFlat(e, h)
  BY <1>3
<1> HIDE DEF h
<1>5. h = f
  <2> DEFINE Bad == {m \in 1 .. Len(e) : h[m] # f[m]}
  <2>0. Len(e) \in Nat
    BY LenProperties
  <2>1. \A i \in 1 .. Len(e) : h[i] = IF i = 1 THEN e[i] ELSE h[i - 1] \o e[i]
    BY <1>4 DEF IsFlat
  <2>2. ASSUME Bad # {} PROVE FALSE
    <3>1. PICK m \in Bad : \A i \in Bad : m <= i
      <4>1. Bad \in SUBSET Nat
        BY <2>0
      <4> HIDE DEF Bad
      <4>2. QED
        BY <2>2, <4>1, LeastNatural
    <3>2. m \in 1 .. Len(e) /\ h[m] # f[m] /\ m \in Nat
      OBVIOUS
    <3>3. m # 1
      BY <1>2, <2>1, <3>2 DEF FlatTo
    <3>4. m - 1 \in 1 .. Len(e) /\ ~ (m <= m - 1)
      BY <2>0, <3>2, <3>3
    <3>5. h[m - 1] = f[m - 1]
      BY <3>1, <3>4
    <3>6. QED
      BY <1>2, <2>1, <3>2, <3>3, <3>5 DEF FlatTo
  <2>3. \A m \in 1 .. Len(e) : h[m] = f[m]
    BY <2>2
  <2>4. h = [i \in 1 .. Len(e) |-> h[i]]
    BY <1>4 DEF IsFlat
  <2>5. QED
    BY <2>3, <2>4
<1>6. QED
  BY <1>1, <1>2, <1>5 DEF h

\* The pieces of e lie in w one after another; piece i begins behind st[i].
LaidTo(e, st, w, m) ==
  /\ st[m + 1] = Len(w)
  /\ \A i \in 1 .. m : st[i + 1] <= Len(w)
  /\ \A i \in 1 .. m : \A x \in 1 .. Len(e[i]) : w[st[i] + x] = e[i][x]
  /\ \A p \in 1 .. Len(w) : \E i \in 1 .. m : \E x \in 1 .. Len(e[i]) : p = st[i] + x

Laid(e, st, w) ==
  /\ st \in [1 .. Len(e) + 1 -> Nat] /\ st[1] = 0 /\ st[Len(e) + 1] = Len(w)
  /\ \A i \in 1 .. Len(e) : st[i + 1] = st[i] + Len(e[i])
  /\ \A i, l \in 1 .. Len(e) : i < l => st[i + 1] <= st[l]
  /\ \A i \in 1 .. Len(e) : \A x \in 1 .. Len(e[i]) : w[st[i] + x] = e[i][x]
  /\ \A p \in 1 .. Len(w) : \E i \in 1 .. Len(e) : \E x \in 1 .. Len(e[i]) : p = st[i] + x

\* One more piece, laid behind the others.
LEMMA LaidStep ==
  ASSUME NEW B, NEW e \in Seq(Seq(B)), NEW m \in 1 .. Len(e) - 1, NEW w \in Seq(B),
         NEW st \in [1 .. Len(e) + 1 -> Nat],
         \A i \in 1 .. Len(e) : st[i + 1] = st[i] + Len(e[i]), LaidTo(e, st, w, m)
  PROVE  LaidTo(e, st, w \o e[m + 1], m + 1)
<1> DEFINE v == w \o e[m + 1]
<1>1. /\ Len(e) \in Nat /\ m \in Nat /\ m + 1 \in 1 .. Len(e) /\ e[m + 1] \in Seq(B)
      /\ \A i \in 1 .. Len(e) : e[i] \in Seq(B) /\ Len(e[i]) \in Nat
  BY ElementOfSeq, LenProperties
<1>2. /\ Len(v) = Len(w) + Len(e[m + 1]) /\ Len(w) \in Nat /\ Len(e[m + 1]) \in Nat
      /\ \A p \in 1 .. Len(w) : v[p] = w[p]
      /\ \A x \in 1 .. Len(e[m + 1]) : v[Len(w) + x] = e[m + 1][x]
  <2>1. /\ Len(v) = Len(w) + Len(e[m + 1]) /\ Len(w) \in Nat /\ Len(e[m + 1]) \in Nat
        /\ \A p \in 1 .. Len(w) + Len(e[m + 1]) :
              v[p] = IF p <= Len(w) THEN w[p] ELSE e[m + 1][p - Len(w)]
    BY <1>1, ConcatProperties, LenProperties
  <2> HIDE DEF v
  <2>2. ASSUME NEW p \in 1 .. Len(w) PROVE v[p] = w[p]
    <3>1. p \in 1 .. Len(w) + Len(e[m + 1]) /\ p <= Len(w)
      BY <2>1
    <3>2. QED
      BY <2>1, <3>1
  <2>3. ASSUME NEW x \in 1 .. Len(e[m + 1]) PROVE v[Len(w) + x] = e[m + 1][x]
    <3>1. /\ Len(w) + x \in 1 .. Len(w) + Len(e[m + 1]) /\ ~ (Len(w) + x <= Len(w))
          /\ Len(w) + x - Len(w) = x
      BY <2>1
    <3>2. QED
      BY <2>1, <3>1
  <2>4. QED
    BY <2>1, <2>2, <2>3
<1> HIDE DEF v
<1>3. st[m + 1] = Len(w) /\ st[m + 2] = Len(v)
  <2>1. m + 1 \in 1 .. Len(e) /\ m + 1 + 1 = m + 2
    BY <1>1
  <2>2. st[m + 2] = st[m + 1] + Len(e[m + 1])
    BY <2>1
  <2>3. QED
    BY <1>2, <2>2 DEF LaidTo
<1>4. \A i \in 1 .. m + 1 : st[i + 1] <= Len(v)
  <2>1. ASSUME NEW i \in 1 .. m PROVE st[i + 1] <= Len(w) /\ st[i + 1] \in Nat
    <3>1. i + 1 \in 1 .. Len(e) + 1
      BY <1>1
    <3>2. QED
      BY <3>1 DEF LaidTo
  <2>2. \A i \in 1 .. m + 1 : i \in 1 .. m \/ i = m + 1
    BY <1>1
  <2>3. st[m + 1 + 1] = Len(v) /\ Len(w) <= Len(v)
    BY <1>1, <1>2, <1>3
  <2>4. ASSUME NEW i \in 1 .. m PROVE st[i + 1] <= Len(v)
    <3>1. Len(v) \in Nat /\ Len(w) \in Nat /\ Len(w) <= Len(v)
      BY <1>2
    <3>2. st[i + 1] <= Len(w) /\ st[i + 1] \in Nat
      BY <2>1
    <3>3. QED
      BY <3>1, <3>2
  <2>5. QED
    BY <1>2, <2>2, <2>3, <2>4
<1>5. ASSUME NEW i \in 1 .. m + 1, NEW x \in 1 .. Len(e[i])
      PROVE  v[st[i] + x] = e[i][x]
  <2>1. CASE i = m + 1
    BY <1>2, <1>3, <2>1
  <2>2. CASE i # m + 1
    <3>1. i \in 1 .. m /\ i \in 1 .. Len(e) /\ i + 1 \in 1 .. Len(e) + 1
      BY <1>1, <2>2
    <3>2. PICK l \in 1 .. Len(w) : st[i] + x = l
      <4>1. st[i + 1] = st[i] + Len(e[i]) /\ st[i + 1] <= Len(w)
        BY <3>1 DEF LaidTo
      <4>2. st[i] \in Nat /\ Len(e[i]) \in Nat /\ Len(w) \in Nat
        <5>1. i \in 1 .. Len(e) + 1
          BY <1>1, <3>1
        <5>2. QED
          BY <1>1, <1>2, <3>1, <5>1
      <4>3. st[i] + x \in 1 .. Len(w)
        BY <4>1, <4>2, SMTT(30)
      <4>4. QED
        BY <4>3
    <3>3. v[l] = w[l]
      BY <1>2
    <3>4. QED
      BY <3>1, <3>2, <3>3 DEF LaidTo
  <2>3. QED
    BY <2>1, <2>2
<1>6. ASSUME NEW p \in 1 .. Len(v)
      PROVE  \E i \in 1 .. m + 1 : \E x \in 1 .. Len(e[i]) : p = st[i] + x
  <2>1. CASE p <= Len(w)
    <3>1. p \in 1 .. Len(w)
      BY <1>2, <2>1
    <3>2. PICK i \in 1 .. m : \E x \in 1 .. Len(e[i]) : p = st[i] + x
      BY <3>1 DEF LaidTo
    <3>3. i \in 1 .. m + 1
      BY <1>1
    <3>4. QED
      BY <3>2, <3>3
  <2>2. CASE ~ (p <= Len(w))
    <3>1. p - Len(w) \in 1 .. Len(e[m + 1]) /\ p = st[m + 1] + (p - Len(w)) /\ m + 1 \in 1 .. m + 1
      BY <1>1, <1>2, <1>3, <2>2
    <3>2. QED
      BY <3>1
  <2>3. QED
    BY <2>1, <2>2
<1>7. LaidTo(e, st, v, m + 1)
  <2>1. m + 1 + 1 = m + 2
    BY <1>1
  <2>2. QED
    BY <1>3, <1>4, <1>5, <1>6, <2>1 DEF LaidTo
<1>8. QED
  BY <1>7 DEF v

\* FlattenSeq lays its pieces one after another.
LEMMA FlatLaid ==
  ASSUME NEW B, NEW e \in Seq(Seq(B))
  PROVE  FlattenSeq(e) \in Seq(B) /\ \E st : Laid(e, st, FlattenSeq(e))
<1>0. Len(e) \in Nat /\ \A i \in 1 .. Len(e) : e[i] \in Seq(B) /\ Len(e[i]) \in Nat
  BY ElementOfSeq, LenProperties
<1>1. CASE Len(e) = 0
  <2>1. e = <<>> /\ FlattenSeq(e) = <<>>
    BY <1>1, EmptySeq DEF FlattenSeq
  <2> DEFINE st == [i \in 1 .. 1 |-> 0]
  <2>2. Laid(<<>>, st, <<>>)
    <3>1. Len(<<>>) = 0
      OBVIOUS
    <3>2. QED
      BY <3>1 DEF Laid
  <2>3. FlattenSeq(e) \in Seq(B)
    <3>1. <<>> \in Seq(B)
      OBVIOUS
    <3>2. QED
      BY ONLY <2>1, <3>1
  <2>4. Laid(e, st, FlattenSeq(e))
    BY <2>1, <2>2
  <2> HIDE DEF st
  <2>5. QED
    BY <2>3, <2>4
<1>2. CASE Len(e) # 0
  <2>1. PICK g \in [1 .. Len(e) -> Seq(B)] : FlatTo(e, g, Len(e)) /\ FlattenSeq(e) = g[Len(e)]
    BY <1>2, FlatDef
  <2> DEFINE n == Len(e)
             st == [i \in 1 .. n + 1 |-> IF i = 1 THEN 0 ELSE Len(g[i - 1])]
  <2>2. \A i \in 1 .. n : g[i] \in Seq(B) /\ Len(g[i]) \in Nat
    BY LenProperties
  <2>3. ASSUME NEW i \in 1 .. n
        PROVE  /\ g[i] = IF i = 1 THEN e[i] ELSE g[i - 1] \o e[i]
               /\ i # 1 => i - 1 \in 1 .. n
               /\ i \in 1 .. n + 1 /\ i + 1 \in 1 .. n + 1 /\ i + 1 # 1 /\ i + 1 - 1 = i
    <3>1. g[i] = IF i = 1 THEN e[i] ELSE g[i - 1] \o e[i]
      BY <2>1 DEF FlatTo
    <3>2. QED
      BY <1>0, <3>1
  <2>0. \A q \in 1 .. n + 1 : q # 1 => st[q] = Len(g[q - 1])
    BY Zenon
  <2>4. ASSUME NEW i \in 1 .. n PROVE st[i + 1] = Len(g[i]) /\ st[i + 1] = st[i] + Len(e[i])
    <3>1. st[i + 1] = Len(g[i])
      <4>1. i + 1 \in 1 .. n + 1 /\ i + 1 # 1 /\ i + 1 - 1 = i
        BY <2>3
      <4> HIDE DEF st
      <4>2. st[i + 1] = Len(g[i + 1 - 1])
        BY <2>0, <4>1
      <4>3. QED
        BY <4>1, <4>2
    <3>2. CASE i = 1
      <4>1. st[1] = 0 /\ g[i] = e[i]
        <5>1. 1 \in 1 .. n + 1
          BY <1>0
        <5>2. QED
          BY <2>3, <3>2, <5>1
      <4> HIDE DEF st
      <4>2. QED
        BY <1>0, <3>1, <3>2, <4>1
    <3>3. CASE i # 1
      <4>1. st[i] = Len(g[i - 1])
        BY <2>3, <3>3, Zenon
      <4>2. Len(g[i]) = Len(g[i - 1]) + Len(e[i])
        <5>1. g[i - 1] \in Seq(B) /\ e[i] \in Seq(B) /\ g[i] = g[i - 1] \o e[i]
          BY <1>0, <2>2, <2>3, <3>3
        <5>2. QED
          BY <5>1, ConcatProperties
      <4> HIDE DEF st
      <4>3. QED
        BY <3>1, <4>1, <4>2
    <3>4. QED
      BY <3>2, <3>3
  <2>5. st \in [1 .. n + 1 -> Nat] /\ st[1] = 0
    <3>1. ASSUME NEW i \in 1 .. n + 1, i # 1 PROVE Len(g[i - 1]) \in Nat
      <4>1. i - 1 \in 1 .. n
        BY <1>0, <3>1
      <4>2. QED
        BY <2>2, <4>1
    <3>2. 1 \in 1 .. n + 1
      BY <1>0
    <3>3. QED
      BY <3>1, <3>2
  <2> HIDE DEF st
  <2> DEFINE Bad == {m \in 1 .. n : ~ LaidTo(e, st, g[m], m)}
  <2>6. ASSUME Bad # {} PROVE FALSE
    <3>1. PICK m \in Bad : \A i \in Bad : m <= i
      <4>1. Bad \in SUBSET Nat
        BY <1>0
      <4> HIDE DEF Bad
      <4>2. QED
        BY <2>6, <4>1, LeastNatural
    <3>2. m \in 1 .. n /\ m \in Nat /\ ~ LaidTo(e, st, g[m], m)
      BY <1>0
    <3>3. CASE m = 1
      <4>1. g[1] = e[1] /\ st[1 + 1] = Len(e[1]) /\ st[1] = 0 /\ Len(e[1]) \in Nat
        BY <1>0, <2>3, <2>4, <2>5, <3>2, <3>3
      <4>2. LaidTo(e, st, e[1], 1)
        <5>1. \A i \in 1 .. 1 : i = 1
          OBVIOUS
        <5>2. \A x \in 1 .. Len(e[1]) : 0 + x = x
          BY <4>1
        <5>3. 1 \in 1 .. 1
          OBVIOUS
        <5>4. \A x \in 1 .. Len(e[1]) : e[1][st[1] + x] = e[1][x]
          BY <4>1, <5>2
        <5>5. \A p \in 1 .. Len(e[1]) : \E i \in 1 .. 1 : \E x \in 1 .. Len(e[i]) : p = st[i] + x
          BY <4>1, <5>2, <5>3
        <5>6. st[1 + 1] <= Len(e[1])
          BY <4>1
        <5>7. QED
          BY <4>1, <5>1, <5>4, <5>5, <5>6 DEF LaidTo
      <4>3. QED
        BY <3>2, <3>3, <4>1, <4>2
    <3>4. CASE m # 1
      <4>1. m - 1 \in 1 .. n /\ ~ (m <= m - 1) /\ m - 1 \in 1 .. n - 1 /\ m - 1 + 1 = m
        BY <1>0, <3>2, <3>4
      <4>2. LaidTo(e, st, g[m - 1], m - 1)
        BY <3>1, <4>1
      <4>3. LaidTo(e, st, g[m - 1] \o e[m], m)
        BY <2>2, <2>4, <2>5, <4>1, <4>2, LaidStep
      <4>4. g[m] = g[m - 1] \o e[m]
        BY <2>3, <3>2, <3>4
      <4>5. QED
        BY <3>2, <4>3, <4>4
    <3>5. QED
      BY <3>3, <3>4
  <2>7. \A m \in 1 .. n : LaidTo(e, st, g[m], m)
    BY <2>6
  <2>8. ASSUME NEW i \in 1 .. n, NEW l \in 1 .. n, i < l PROVE st[i + 1] <= st[l]
    <3>1. l - 1 \in 1 .. n /\ i \in 1 .. l - 1 /\ l - 1 + 1 = l
      BY <1>0, <2>8
    <3>2. LaidTo(e, st, g[l - 1], l - 1)
      BY <2>7, <3>1
    <3>3. st[l] = Len(g[l - 1])
      BY <2>4, <3>1
    <3>4. QED
      BY <3>1, <3>2, <3>3 DEF LaidTo
  <2>9. LaidTo(e, st, g[n], n)
    BY <1>0, <1>2, <2>7
  <2>10. Laid(e, st, g[n])
    BY <2>4, <2>5, <2>8, <2>9 DEF Laid, LaidTo
  <2>11. QED
    BY <1>0, <1>2, <2>1, <2>2, <2>10
<1>3. QED
  BY <1>1, <1>2

\* What the host sends, and where its commands begin in it.
Stream    == Sent(script)
Pieces(s) == [i \in 1 .. Len(s) |-> Text(i, s[i]) \o End(i, s[i]) \o Data(i, s[i])]
Starts(s) == CHOOSE st : Laid(Pieces(s), st, Sent(s))
Start(i)   == Starts(script)[i]
TextEnd(i) == Start(i) + script[i].len
EndLen(i)  == IF script[i].end = "crlf" THEN 2 ELSE 1
Stop(i)    == TextEnd(i) + EndLen(i) + script[i].data

ScriptBytes(s) == [item : 1 .. Len(s), part : {"char", "lf", "cr", "data"}, n : Nat]

\* What the assumption on the scripts says of one.
LEMMA CmdFacts ==
  ASSUME NEW s \in Scripts
  PROVE  /\ s \in Seq(Cmds) /\ Len(s) \in Nat
         /\ \A i \in 1 .. Len(s) : /\ s[i].len \in Nat \ {0} /\ s[i].data \in Nat
                                   /\ s[i].end \in {"lf", "cr", "crlf"}
                                   /\ s[i].data > 0 => s[i].len > 1
<1> DEFINE C == {c \in Cmds : c.data > 0 => c.len > 1}
<1>1. s \in Seq(C) /\ Len(s) \in Nat
  BY AtParserAssumption, LenProperties DEF AtParserAssumption
<1>2. \A i \in 1 .. Len(s) : s[i] \in C
  BY <1>1, ElementOfSeq
<1>3. \A i \in 1 .. Len(s) : s[i] \in Cmds /\ (s[i].data > 0 => s[i].len > 1)
  BY <1>2
<1>4. s \in Seq(Cmds)
  <2>1. C \subseteq Cmds
    OBVIOUS
  <2> HIDE DEF C
  <2>2. QED
    BY <1>1, <2>1
<1>5. QED
  BY <1>1, <1>3, <1>4 DEF Cmds

\* A function on 1 .. n is a sequence of length n.
LEMMA FcnSeq ==
  ASSUME NEW S, NEW n \in Nat, NEW f \in [1 .. n -> S]
  PROVE  f \in Seq(S) /\ Len(f) = n
<1>1. f \in Seq(S)
  BY SeqDef
<1>2. Len(f) \in Nat /\ DOMAIN f = 1 .. Len(f) /\ DOMAIN f = 1 .. n
  BY <1>1, LenProperties
<1>3. Len(f) = n
  BY <1>2
<1>4. QED
  BY <1>1, <1>3

\* The bytes of a run, and those of the end of a line.
LEMMA RunFacts ==
  ASSUME NEW i, NEW part, NEW n \in Nat
  PROVE  /\ Len(Run(i, part, n)) = n
         /\ \A l \in 1 .. n : Run(i, part, n)[l] = Byte(i, part, l)
         /\ \A B : (\A l \in 1 .. n : Byte(i, part, l) \in B) => Run(i, part, n) \in Seq(B)
<1> DEFINE r == [l \in 1 .. n |-> Byte(i, part, l)]
<1>1. Run(i, part, n) = r
  BY DEF Run
<1>2. \A l \in 1 .. n : r[l] = Byte(i, part, l)
  OBVIOUS
<1>3. ASSUME NEW B, \A l \in 1 .. n : Byte(i, part, l) \in B PROVE r \in [1 .. n -> B]
  BY <1>3
<1>4. Len(r) = n
  <2> DEFINE B == {Byte(i, part, l) : l \in 1 .. n}
  <2>1. \A l \in 1 .. n : Byte(i, part, l) \in B
    OBVIOUS
  <2> HIDE DEF B, r
  <2>2. QED
    BY <1>3, <2>1, FcnSeq
<1> HIDE DEF r
<1>5. ASSUME NEW B, \A l \in 1 .. n : Byte(i, part, l) \in B PROVE r \in Seq(B)
  BY <1>3, <1>5, FcnSeq
<1>6. QED
  BY <1>1, <1>2, <1>4, <1>5

\* The end of a line is of one byte or of two.
LEMMA EndFacts ==
  ASSUME NEW i, NEW c \in Cmds
  PROVE  /\ End(i, c) = CASE c.end = "lf"   -> <<Byte(i, "lf", 1)>>
                          [] c.end = "cr"   -> <<Byte(i, "cr", 1)>>
                          [] c.end = "crlf" -> <<Byte(i, "cr", 1), Byte(i, "lf", 2)>>
         /\ Len(End(i, c)) = IF c.end = "crlf" THEN 2 ELSE 1
         /\ End(i, c)[1] = Byte(i, IF c.end = "lf" THEN "lf" ELSE "cr", 1)
         /\ c.end = "crlf" => End(i, c)[2] = Byte(i, "lf", 2)
<1>1. c.end \in {"lf", "cr", "crlf"}
  BY DEF Cmds
<1>2. CASE c.end = "lf"
  BY <1>2 DEF End
<1>3. CASE c.end = "cr"
  BY <1>3 DEF End
<1>4. CASE c.end = "crlf"
  BY <1>4 DEF End
<1>5. QED
  BY <1>1, <1>2, <1>3, <1>4

\* What a command is made of.
LEMMA PieceFacts ==
  ASSUME NEW s \in Scripts, NEW i \in 1 .. Len(s)
  PROVE  LET q == Pieces(s)[i]
             m == s[i].len
             e == IF s[i].end = "crlf" THEN 2 ELSE 1
         IN /\ q \in Seq(ScriptBytes(s)) /\ Len(q) = m + e + s[i].data
            /\ \A n \in 1 .. m : q[n] = Byte(i, "char", n)
            /\ q[m + 1] = Byte(i, IF s[i].end = "lf" THEN "lf" ELSE "cr", 1)
            /\ s[i].end = "crlf" => q[m + 2] = Byte(i, "lf", 2)
            /\ \A n \in 1 .. s[i].data : q[m + e + n] = Byte(i, "data", n)
<1> DEFINE B == ScriptBytes(s)
           m == s[i].len
           e == IF s[i].end = "crlf" THEN 2 ELSE 1
           d == s[i].data
           t == Text(i, s[i])
           z == End(i, s[i])
           y == Data(i, s[i])
           q == t \o z \o y
<1>1. s[i] \in Cmds /\ m \in Nat \ {0} /\ d \in Nat /\ e \in {1, 2} /\ s[i].end \in {"lf", "cr", "crlf"}
  BY CmdFacts, ElementOfSeq
<1>2. \A part \in {"char", "lf", "cr", "data"}, n \in Nat : Byte(i, part, n) \in B
  BY DEF Byte, ScriptBytes
<1>3. t \in Seq(B) /\ Len(t) = m /\ \A n \in 1 .. m : t[n] = Byte(i, "char", n)
  <2>1. \A n \in 1 .. m : Byte(i, "char", n) \in B
    BY <1>1, <1>2
  <2> HIDE DEF B, m
  <2>2. QED
    BY <1>1, <2>1, RunFacts DEF Text, m
<1>4. y \in Seq(B) /\ Len(y) = d /\ \A n \in 1 .. d : y[n] = Byte(i, "data", n)
  <2>1. \A n \in 1 .. d : Byte(i, "data", n) \in B
    BY <1>1, <1>2
  <2> HIDE DEF B, d
  <2>2. QED
    BY <1>1, <2>1, RunFacts DEF Data, d
<1>5. /\ z \in Seq(B) /\ Len(z) = e
      /\ z[1] = Byte(i, IF s[i].end = "lf" THEN "lf" ELSE "cr", 1)
      /\ s[i].end = "crlf" => z[2] = Byte(i, "lf", 2)
  <2>1. Byte(i, "lf", 1) \in B /\ Byte(i, "cr", 1) \in B /\ Byte(i, "lf", 2) \in B
    BY <1>2
  <2> HIDE DEF B
  <2>2. z \in Seq(B)
    BY <1>1, <2>1 DEF End
  <2>3. QED
    BY <1>1, <2>2, EndFacts
<1> HIDE DEF t, z, y, B, m, e, d
<1>6. /\ t \o z \in Seq(B) /\ Len(t \o z) = m + e
      /\ \A n \in 1 .. m + e : (t \o z)[n] = IF n <= m THEN t[n] ELSE z[n - m]
  BY <1>3, <1>5, ConcatProperties
<1> DEFINE w == t \o z
<1>7. /\ q \in Seq(B) /\ Len(q) = m + e + d
      /\ \A n \in 1 .. m + e + d : q[n] = IF n <= m + e THEN w[n] ELSE y[n - (m + e)]
  <2>1. w \in Seq(B) /\ Len(w) = m + e /\ q = w \o y
    BY <1>6
  <2> HIDE DEF q, w
  <2>2. y \in Seq(B) /\ Len(y) = d
    BY <1>4
  <2> DEFINE v == w \o y
  <2>3. /\ v \in Seq(B) /\ Len(v) = Len(w) + Len(y)
        /\ \A n \in 1 .. Len(w) + Len(y) : v[n] = IF n <= Len(w) THEN w[n] ELSE y[n - Len(w)]
    BY <2>1, <2>2, ConcatProperties
  <2>4. q = v
    BY <2>1
  <2> HIDE DEF v
  <2>5. QED
    BY <1>1, <2>1, <2>2, <2>3, <2>4
<1> HIDE DEF q, w
<1>8. /\ \A n \in 1 .. m + e : w[n] = IF n <= m THEN t[n] ELSE z[n - m]
      /\ \A n \in 1 .. m + e + d : q[n] = IF n <= m + e THEN w[n] ELSE y[n - (m + e)]
  BY <1>6, <1>7 DEF w
<1>9. ASSUME NEW n \in 1 .. m PROVE q[n] = Byte(i, "char", n)
  <2>1. n \in 1 .. m + e /\ n \in 1 .. m + e + d /\ n <= m /\ n <= m + e
    BY <1>1
  <2>2. QED
    BY <1>3, <1>8, <2>1
<1>10. ASSUME NEW n \in 1 .. e PROVE q[m + n] = z[n]
  <2>1. m + n \in 1 .. m + e /\ m + n \in 1 .. m + e + d /\ ~ (m + n <= m) /\ m + n <= m + e /\ m + n - m = n
    BY <1>1
  <2>2. q[m + n] = w[m + n]
    BY <1>1, <1>8, <2>1
  <2>3. w[m + n] = z[m + n - m]
    BY <1>1, <1>8, <2>1
  <2>4. QED
    BY <2>1, <2>2, <2>3
<1>11. ASSUME NEW n \in 1 .. d PROVE q[m + e + n] = Byte(i, "data", n)
  <2>1. m + e + n \in 1 .. m + e + d /\ ~ (m + e + n <= m + e) /\ m + e + n - (m + e) = n
    BY <1>1
  <2>2. q[m + e + n] = y[m + e + n - (m + e)]
    BY <1>1, <1>8, <2>1
  <2>3. QED
    BY <1>4, <2>1, <2>2
<1>12. q[m + 1] = Byte(i, IF s[i].end = "lf" THEN "lf" ELSE "cr", 1)
  <2>1. 1 \in 1 .. e
    BY <1>1
  <2>2. QED
    BY <1>5, <1>10, <2>1
<1>13. s[i].end = "crlf" => q[m + 2] = Byte(i, "lf", 2)
  <2>1. s[i].end = "crlf" => 2 \in 1 .. e
    BY DEF e
  <2>2. QED
    BY <1>5, <1>10, <2>1
<1>14. Pieces(s)[i] = q
  BY DEF Pieces, q, t, z, y
<1>15. QED
  BY <1>7, <1>9, <1>11, <1>12, <1>13, <1>14 DEF B, m, e, d

\* The stream is the commands, one after another.
LEMMA StreamLaid ==
  ASSUME NEW s \in Scripts
  PROVE  /\ Sent(s) \in Seq(ScriptBytes(s)) /\ Len(Pieces(s)) = Len(s)
         /\ Laid(Pieces(s), Starts(s), Sent(s))
<1>1. Len(s) \in Nat
  BY CmdFacts
<1>2. \A i \in 1 .. Len(s) : Pieces(s)[i] \in Seq(ScriptBytes(s))
  BY PieceFacts
<1>3. DOMAIN Pieces(s) = 1 .. Len(s) /\ Pieces(s) = [i \in 1 .. Len(s) |-> Pieces(s)[i]]
  BY DEF Pieces
<1>4. Pieces(s) \in [1 .. Len(s) -> Seq(ScriptBytes(s))]
  BY <1>2, <1>3
<1>5. Pieces(s) \in Seq(Seq(ScriptBytes(s)))
  BY <1>1, <1>4, FcnSeq
<1>6. Len(Pieces(s)) = Len(s)
  BY <1>1, <1>4, FcnSeq
<1>7. Sent(s) = FlattenSeq(Pieces(s))
  BY DEF Sent, Pieces
<1>8. FlattenSeq(Pieces(s)) \in Seq(ScriptBytes(s)) /\ \E st : Laid(Pieces(s), st, FlattenSeq(Pieces(s)))
  BY <1>5, FlatLaid
<1>9. QED
  BY <1>6, <1>7, <1>8 DEF Starts

\* Where a command lies in the stream.
Place(i) ==
  /\ Start(i) \in Nat /\ script[i].len \in Nat \ {0} /\ EndLen(i) \in 1 .. 2 /\ script[i].data \in Nat
  /\ Stop(i) <= Len(Stream)
  /\ \A n \in 1 .. script[i].len : Stream[Start(i) + n] = Byte(i, "char", n)
  /\ Stream[TextEnd(i) + 1] = Byte(i, IF script[i].end = "lf" THEN "lf" ELSE "cr", 1)
  /\ EndLen(i) = 2 => Stream[TextEnd(i) + 2] = Byte(i, "lf", 2)
  /\ \A n \in 1 .. script[i].data : Stream[TextEnd(i) + EndLen(i) + n] = Byte(i, "data", n)

\* Every command has its place.
LEMMA PlaceOf ==
  ASSUME script \in Scripts, NEW i \in Items
  PROVE  Place(i)
<1> DEFINE st == Starts(script)
           e == Pieces(script)
           m == script[i].len
           h == EndLen(i)
           d == script[i].data
           w == Sent(script)
<1>1. Laid(e, st, w) /\ Len(e) = Len(script) /\ Len(script) \in Nat /\ w \in Seq(ScriptBytes(script))
  BY StreamLaid, CmdFacts
<1>2. i \in 1 .. Len(script)
  BY DEF Items
<1>3. m \in Nat \ {0} /\ d \in Nat /\ script[i].end \in {"lf", "cr", "crlf"}
  BY <1>2, CmdFacts
<1>4. h = (IF script[i].end = "crlf" THEN 2 ELSE 1) /\ h \in 1 .. 2
  BY DEF EndLen
<1>5. /\ Len(e[i]) = m + h + d
      /\ \A n \in 1 .. m : e[i][n] = Byte(i, "char", n)
      /\ e[i][m + 1] = Byte(i, IF script[i].end = "lf" THEN "lf" ELSE "cr", 1)
      /\ script[i].end = "crlf" => e[i][m + 2] = Byte(i, "lf", 2)
      /\ \A n \in 1 .. d : e[i][m + h + n] = Byte(i, "data", n)
  BY <1>2, <1>4, PieceFacts
<1>6. Len(w) \in Nat
  BY <1>1, LenProperties
<1> HIDE DEF e, w, m, h, d, st
<1>7. i \in 1 .. Len(e) /\ i \in 1 .. Len(e) + 1 /\ i + 1 \in 1 .. Len(e) + 1
  BY <1>1, <1>2
<1>8. /\ st[i] \in Nat /\ st[i + 1] \in Nat /\ st[i + 1] = st[i] + (m + h + d)
      /\ \A x \in 1 .. Len(e[i]) : w[st[i] + x] = e[i][x]
  BY <1>1, <1>5, <1>7 DEF Laid
<1>9. st[i + 1] <= Len(w)
  <2>1. CASE i = Len(e)
    BY <1>1, <1>6, <1>8, <2>1 DEF Laid
  <2>2. CASE i # Len(e)
    <3> DEFINE l == Len(e)
    <3>1. l \in 1 .. Len(e) /\ i < l /\ l \in Nat /\ l + 1 \in 1 .. Len(e) + 1 /\ l \in 1 .. Len(e) + 1
      BY <1>1, <1>2, <1>7, <2>2
    <3>2. st[i + 1] <= st[l] /\ st[l + 1] = st[l] + Len(e[l]) /\ st[l + 1] = Len(w) /\ st[l] \in Nat
      BY <1>1, <1>7, <3>1 DEF Laid
    <3>3. Len(e[l]) \in Nat
      <4>1. l \in 1 .. Len(script)
        BY <1>1, <3>1
      <4>2. e[l] \in Seq(ScriptBytes(script))
        BY <4>1, PieceFacts DEF e
      <4>3. QED
        BY <4>2, LenProperties
    <3> HIDE DEF l
    <3>4. QED
      BY <1>6, <1>8, <3>2, <3>3
  <2>3. QED
    BY <2>1, <2>2
<1>10. Start(i) = st[i] /\ TextEnd(i) = st[i] + m /\ Stop(i) = st[i + 1] /\ Stream = w
  BY <1>3, <1>4, <1>8 DEF Start, TextEnd, Stop, Stream, st, w, m, h, d
<1>16. m \in Nat /\ m > 0 /\ h \in Nat /\ h > 0 /\ d \in Nat /\ Len(e[i]) = m + h + d /\ st[i] \in Nat
  BY <1>3, <1>4, <1>5, <1>8
<1>11. ASSUME NEW n \in 1 .. m PROVE w[st[i] + n] = Byte(i, "char", n)
  <2>1. n \in 1 .. Len(e[i])
    BY <1>3, <1>4, <1>5
  <2>2. QED
    BY <1>5, <1>8, <2>1
<1>12. w[st[i] + m + 1] = e[i][m + 1] /\ (h = 2 => w[st[i] + m + 2] = e[i][m + 2])
  <2>1. m + 1 \in 1 .. Len(e[i]) /\ st[i] + (m + 1) = st[i] + m + 1
    BY <1>16
  <2>2. h = 2 => m + 2 \in 1 .. Len(e[i]) /\ st[i] + (m + 2) = st[i] + m + 2
    BY <1>16
  <2>3. w[st[i] + (m + 1)] = e[i][m + 1]
    BY <1>8, <2>1
  <2>4. h = 2 => w[st[i] + (m + 2)] = e[i][m + 2]
    BY <1>8, <2>2
  <2>5. QED
    BY <2>1, <2>2, <2>3, <2>4
<1>13. ASSUME NEW n \in 1 .. d PROVE w[st[i] + m + h + n] = Byte(i, "data", n)
  <2>1. m + h + n \in 1 .. Len(e[i]) /\ st[i] + (m + h + n) = st[i] + m + h + n
    BY <1>16
  <2>2. w[st[i] + (m + h + n)] = e[i][m + h + n]
    BY <1>8, <2>1
  <2>3. QED
    BY <1>5, <2>1, <2>2
<1>14. h = 2 => script[i].end = "crlf"
  BY <1>4
<1>15. QED
  BY <1>3, <1>4, <1>5, <1>8, <1>9, <1>10, <1>11, <1>12, <1>13, <1>14 DEF Place, m, h, d

\* The commands lie one behind the other, and there is nothing else.
LEMMA StreamFacts ==
  ASSUME script \in Scripts
  PROVE  /\ Stream \in Seq(Bytes) /\ Len(Stream) \in Nat /\ Len(script) \in Nat
         /\ \A i \in Items : i \in Nat /\ i >= 1 /\ (i = 1 => Start(i) = 0)
         /\ \A i \in Items : i > 1 => i - 1 \in Items /\ Start(i) = Stop(i - 1)
         /\ \A i, l \in Items : i < l => Stop(i) <= Start(l)
         /\ \A p \in 1 .. Len(Stream) : \E i \in Items : p > Start(i) /\ p <= Stop(i)
<1> DEFINE st == Starts(script)
           e == Pieces(script)
           w == Sent(script)
<1>1. /\ Laid(e, st, w) /\ Len(e) = Len(script) /\ Len(script) \in Nat
      /\ w \in Seq(ScriptBytes(script)) /\ Len(w) \in Nat
  BY StreamLaid, CmdFacts, LenProperties
<1>2. Items = 1 .. Len(script)
  BY DEF Items
<1>3. ScriptBytes(script) = Bytes
  BY DEF ScriptBytes, Bytes, Items
<1>4. ASSUME NEW i \in Items
      PROVE  Start(i) = st[i] /\ Stop(i) = st[i + 1] /\ st[i] \in Nat /\ Len(e[i]) = Stop(i) - Start(i)
  <2>1. i \in 1 .. Len(e) /\ i \in 1 .. Len(e) + 1
    BY <1>1, <1>2
  <2>2. Len(e[i]) = script[i].len + EndLen(i) + script[i].data
    <3>1. i \in 1 .. Len(script)
      BY <1>2
    <3>2. QED
      BY <3>1, PieceFacts DEF EndLen
  <2>3. st[i + 1] = st[i] + Len(e[i]) /\ st[i] \in Nat
    BY <1>1, <2>1 DEF Laid
  <2>4. script[i].len \in Nat /\ EndLen(i) \in Nat /\ script[i].data \in Nat
    BY PlaceOf DEF Place
  <2> HIDE DEF st, e
  <2>5. QED
    BY <2>2, <2>3, <2>4 DEF Stop, TextEnd, Start, st
<1> HIDE DEF st, e, w
<1>5. \A i \in Items : i \in Nat /\ i >= 1 /\ (i = 1 => Start(i) = 0)
  BY <1>1, <1>2, <1>4 DEF Laid
<1>6. ASSUME NEW i \in Items, i > 1 PROVE i - 1 \in Items /\ Start(i) = Stop(i - 1)
  <2>1. i - 1 \in Items /\ i - 1 + 1 = i
    BY <1>1, <1>2, <1>6
  <2>2. QED
    BY <1>4, <2>1
<1>7. ASSUME NEW i \in Items, NEW l \in Items, i < l PROVE Stop(i) <= Start(l)
  <2>1. i \in 1 .. Len(e) /\ l \in 1 .. Len(e)
    BY <1>1, <1>2
  <2>2. \A x, p \in 1 .. Len(e) : x < p => st[x + 1] <= st[p]
    BY <1>1 DEF Laid
  <2>3. st[i + 1] <= st[l]
    BY <1>7, <2>1, <2>2
  <2>4. QED
    BY <1>4, <2>3
<1>8. ASSUME NEW p \in 1 .. Len(w) PROVE \E i \in Items : p > Start(i) /\ p <= Stop(i)
  <2>1. PICK i \in 1 .. Len(e) : \E x \in 1 .. Len(e[i]) : p = st[i] + x
    BY <1>1 DEF Laid
  <2>2. i \in Items
    BY <1>1, <1>2, <2>1
  <2>3. PICK x \in 1 .. Len(e[i]) : p = st[i] + x
    BY <2>1
  <2>4. Start(i) \in Nat /\ Stop(i) \in Int /\ Len(e[i]) = Stop(i) - Start(i) /\ p = Start(i) + x
    <3>1. script[i].len \in Nat /\ EndLen(i) \in Nat /\ script[i].data \in Nat /\ Start(i) \in Nat
      BY <2>2, PlaceOf DEF Place
    <3>2. Stop(i) \in Int
      BY <3>1 DEF Stop, TextEnd
    <3>3. QED
      BY <1>4, <2>2, <2>3, <3>1, <3>2
  <2>5. p > Start(i) /\ p <= Stop(i)
    BY <2>4
  <2>6. QED
    BY <2>2, <2>5
<1>9. Stream = w
  BY DEF Stream, w
<1>10. QED
  BY <1>1, <1>3, <1>5, <1>6, <1>7, <1>8, <1>9

\* Which byte lies at a place.
ByteIs(p) ==
  LET b == Stream[p]
      i == b.item
  IN /\ b \in Bytes /\ i \in Items /\ p > Start(i) /\ p <= Stop(i)
     /\ b.part = "char" <=> p <= TextEnd(i)
     /\ b.part = "char" => b.n = p - Start(i)
     /\ IsEnd(b) <=> p > TextEnd(i) /\ p <= TextEnd(i) + EndLen(i)
     /\ b.part = "lf" => \/ script[i].end = "lf" /\ p = TextEnd(i) + 1
                         \/ script[i].end = "crlf" /\ p = TextEnd(i) + 2
     /\ b.part = "cr" => script[i].end # "lf" /\ p = TextEnd(i) + 1

\* Every place of the stream holds a byte of some command, as ByteIs says.
LEMMA ByteAt ==
  ASSUME script \in Scripts, NEW p \in 1 .. Len(Stream)
  PROVE  ByteIs(p)
<1>1. PICK i \in Items : p > Start(i) /\ p <= Stop(i)
  BY StreamFacts
<1>2. Place(i)
  BY PlaceOf
<1> DEFINE s == Start(i)
           m == script[i].len
           h == EndLen(i)
           d == script[i].data
<1>3. /\ s \in Nat /\ m \in Nat \ {0} /\ h \in 1 .. 2 /\ d \in Nat /\ p \in Nat
      /\ TextEnd(i) = s + m /\ Stop(i) = s + m + h + d
      /\ p > s /\ p <= s + m + h + d
      /\ script[i].end = "crlf" <=> h = 2
  BY <1>1, <1>2, StreamFacts DEF Place, TextEnd, Stop, EndLen
<1>4. Stream[p] \in Bytes
  BY StreamFacts, ElementOfSeq
<1>5. CASE p <= s + m
  <2>1. p - s \in 1 .. m /\ s + (p - s) = p
    BY <1>3, <1>5
  <2>2. Stream[s + (p - s)] = Byte(i, "char", p - s)
    BY <1>2, <2>1 DEF Place
  <2>3. Stream[p] = Byte(i, "char", p - s)
    BY <2>1, <2>2
  <2>4. Stream[p].item = i /\ Stream[p].part = "char" /\ Stream[p].n = p - s /\ ~IsEnd(Stream[p])
    BY <2>3 DEF Byte, IsEnd
  <2> HIDE DEF s, m, h, d
  <2>5. QED
    BY <1>1, <1>3, <1>4, <1>5, <2>4 DEF ByteIs, s
<1>6. CASE p = s + m + 1
  <2>1. Stream[p] = Byte(i, IF script[i].end = "lf" THEN "lf" ELSE "cr", 1)
    BY <1>2, <1>6 DEF Place, TextEnd
  <2>2. /\ Stream[p].item = i /\ IsEnd(Stream[p])
        /\ Stream[p].part = IF script[i].end = "lf" THEN "lf" ELSE "cr"
    BY <2>1 DEF Byte, IsEnd
  <2> HIDE DEF s, m, h, d
  <2>3. QED
    BY <1>1, <1>3, <1>4, <1>6, <2>2 DEF ByteIs, h
<1>7. CASE p = s + m + 2 /\ h = 2
  <2>1. Stream[p] = Byte(i, "lf", 2)
    BY <1>2, <1>7 DEF Place, TextEnd
  <2>2. Stream[p].item = i /\ IsEnd(Stream[p]) /\ Stream[p].part = "lf"
    BY <2>1 DEF Byte, IsEnd
  <2> HIDE DEF s, m, h, d
  <2>3. QED
    BY <1>1, <1>3, <1>4, <1>7, <2>2 DEF ByteIs, h
<1>8. CASE p > s + m + h
  <2>1. p - (s + m + h) \in 1 .. d /\ s + m + h + (p - (s + m + h)) = p
    <3>1. s \in Nat /\ m \in Nat /\ h \in Nat /\ d \in Nat /\ p \in Nat /\ p <= s + m + h + d
      BY <1>3
    <3> HIDE DEF s, m, h, d
    <3>2. QED
      BY <1>8, <3>1
  <2>2. Stream[s + m + h + (p - (s + m + h))] = Byte(i, "data", p - (s + m + h))
    BY <1>2, <2>1 DEF Place, TextEnd
  <2>3. Stream[p] = Byte(i, "data", p - (s + m + h))
    BY <2>1, <2>2
  <2>4. Stream[p].item = i /\ Stream[p].part = "data" /\ ~IsEnd(Stream[p])
    BY <2>3 DEF Byte, IsEnd
  <2> HIDE DEF s, m, h, d
  <2>5. QED
    BY <1>1, <1>3, <1>4, <1>8, <2>4 DEF ByteIs, h
<1>9. QED
  BY <1>3, <1>5, <1>6, <1>7, <1>8

-----------------------------------------------------------------------------
(* AtParser: what at_parse_cmd makes of a line.                            *)

\* The first k bytes of c are its line: an end follows them, or nothing.
LineOf(c, l) ==
  /\ c \in Seq(Bytes) /\ l \in 0 .. Len(c)
  /\ l = Len(c) \/ IsEnd(c[l + 1])
  /\ \A n \in 1 .. l : ~IsEnd(c[n])

\* The line in a cache is what comes before the first end.
LEMMA LineFacts ==
  ASSUME NEW c, NEW l, LineOf(c, l)
  PROVE  /\ Line(c) \in Seq(Bytes) /\ Len(Line(c)) = l
         /\ \A n \in 1 .. l : Line(c)[n] = c[n]
<1>1. /\ c \in Seq(Bytes) /\ l \in 0 .. Len(c) /\ Len(c) \in Nat
      /\ l = Len(c) \/ IsEnd(c[l + 1])
      /\ \A n \in 1 .. l : ~IsEnd(c[n])
      /\ \A n \in 1 .. Len(c) : c[n] \in Bytes
      /\ ToSet(c) = {c[n] : n \in 1 .. Len(c)}
  BY LenProperties, ElementOfSeq DEF LineOf, ToSet
<1>2. CASE l = Len(c)
  <2>1. ~ \E b \in ToSet(c) : IsEnd(b)
    BY <1>1, <1>2
  <2>2. Line(c) = c
    BY <2>1 DEF Line
  <2>3. QED
    BY <1>1, <1>2, <2>2
<1>3. CASE l # Len(c)
  <2>1. l + 1 \in 1 .. Len(c) /\ IsEnd(c[l + 1])
    BY <1>1, <1>3
  <2>2. \E b \in ToSet(c) : IsEnd(b)
    BY <1>1, <2>1
  <2> DEFINE I == {n \in 1 .. Len(c) : IsEnd(c[n])}
  <2>3. l + 1 \in I /\ \A n \in I : l + 1 <= n
    BY <1>1, <2>1
  <2> DEFINE x == IF I # {} THEN Min(I) ELSE 0
  <2>4. Line(c) = SubSeq(c, 1, x - 1)
    BY <2>2 DEF Line, SelectInSeq
  <2>5. Min(I) = l + 1
    <3>1. \A n \in I : n \in Int
      BY <1>1
    <3> HIDE DEF I
    <3>2. Min(I) = CHOOSE z \in I : \A y \in I : z <= y
      BY DEF Min
    <3>3. \A z \in I : (\A y \in I : z <= y) => z = l + 1
      BY <1>1, <2>3, <3>1
    <3>4. QED
      BY <2>3, <3>2, <3>3
  <2>6. Line(c) = SubSeq(c, 1, l)
    <3>1. x - 1 = l
      BY <1>1, <2>3, <2>5
    <3> HIDE DEF x
    <3>2. QED
      BY <2>4, <3>1
  <2>7. /\ SubSeq(c, 1, l) \in Seq(Bytes) /\ Len(SubSeq(c, 1, l)) = l
        /\ \A n \in 1 .. l : SubSeq(c, 1, l)[n] = c[n]
    <3>1. 1 \in Int /\ l \in Int /\ \A n \in 1 .. l : c[n] \in Bytes
      BY <1>1
    <3> DEFINE t == SubSeq(c, 1, l)
    <3>2. /\ t \in Seq(Bytes) /\ Len(t) = (IF 1 <= l THEN l - 1 + 1 ELSE 0)
          /\ \A n \in 1 .. l - 1 + 1 : t[n] = c[1 + n - 1]
      BY <3>1, SubSeqProperties
    <3> HIDE DEF t
    <3>3. t \in Seq(Bytes) /\ Len(t) = l /\ \A n \in 1 .. l : t[n] = c[n]
      BY <1>1, <3>2
    <3>4. QED
      BY <3>3 DEF t
  <2>8. QED
    BY <2>6, <2>7
<1>4. QED
  BY <1>2, <1>3

\* A line is a command if it is the text of one, and it is that of one at most.
LEMMA WholeFacts ==
  ASSUME script \in Scripts, NEW c, NEW l, LineOf(c, l)
  PROVE  /\ Whole(c) \subseteq Items
         /\ \A i \in Items : i \in Whole(c) <=>
              l = script[i].len /\ \A n \in 1 .. l : c[n] = Byte(i, "char", n)
         /\ \A i, m \in Whole(c) : i = m
<1>1. /\ Line(c) \in Seq(Bytes) /\ Len(Line(c)) = l /\ l \in Nat
      /\ \A n \in 1 .. l : Line(c)[n] = c[n]
  BY LineFacts, LenProperties DEF LineOf
<1>2. ASSUME NEW i \in Items
      PROVE  i \in Whole(c) <=> l = script[i].len /\ \A n \in 1 .. l : c[n] = Byte(i, "char", n)
  <2> DEFINE m == script[i].len
             t == Text(i, script[i])
  <2>1. m \in Nat
    BY PlaceOf DEF Place
  <2>2. t \in Seq(Bytes) /\ Len(t) = m /\ \A n \in 1 .. m : t[n] = Byte(i, "char", n)
    <3>1. \A n \in 1 .. m : Byte(i, "char", n) \in Bytes
      BY DEF Byte, Bytes
    <3> HIDE DEF m
    <3>2. QED
      BY <2>1, <3>1, RunFacts DEF Text, m
  <2> HIDE DEF t, m
  <2>3. Line(c) = t <=> l = m /\ \A n \in 1 .. l : Line(c)[n] = t[n]
    BY <1>1, <2>2, SeqEqual
  <2>4. i \in Whole(c) <=> Line(c) = t
    BY DEF Whole, t
  <2>5. l = m => \A n \in 1 .. l : Line(c)[n] = t[n] <=> c[n] = Byte(i, "char", n)
    BY <1>1, <2>2
  <2>6. QED
    BY <2>3, <2>4, <2>5 DEF m
<1>3. ASSUME NEW i \in Whole(c), NEW m \in Whole(c) PROVE i = m
  <2>1. i \in Items /\ m \in Items
    BY DEF Whole
  <2>2. l = script[i].len /\ script[i].len \in Nat \ {0}
    BY <1>2, <2>1, PlaceOf DEF Place
  <2>3. 1 \in 1 .. l
    BY <2>2
  <2>4. c[1] = Byte(i, "char", 1) /\ c[1] = Byte(m, "char", 1)
    BY <1>2, <2>1, <2>3
  <2>5. QED
    BY <2>4 DEF Byte
<1>4. Whole(c) \subseteq Items
  BY DEF Whole
<1>5. QED
  BY <1>2, <1>3, <1>4

\* SetToSeq of nothing, and of one.
LEMMA SetToSeqFacts ==
  /\ SetToSeq({}) = <<>>
  /\ \A i : SetToSeq({i}) = <<i>>
<1>1. SetToSeq({}) = <<>>
  <2>1. Cardinality({}) = 0
    BY FS_EmptySet
  <2>2. \A f \in [1 .. 0 -> {}] : f = <<>>
    <3>1. ASSUME NEW f \in [1 .. 0 -> {}] PROVE f = <<>>
      <4>1. 0 \in Nat
        OBVIOUS
      <4>2. f \in Seq({}) /\ Len(f) = 0
        BY <4>1, FcnSeq
      <4>3. QED
        BY <4>2, EmptySeq
    <3>2. QED
      BY <3>1
  <2>3. <<>> \in [1 .. 0 -> {}] /\ IsInjective(<<>>)
    BY DEF IsInjective
  <2>4. SetToSeq({}) = CHOOSE f \in [1 .. 0 -> {}] : IsInjective(f)
    BY <2>1 DEF SetToSeq
  <2>5. QED
    BY <2>2, <2>3, <2>4
<1>2. ASSUME NEW i PROVE SetToSeq({i}) = <<i>>
  <2>1. Cardinality({i}) = 1
    BY FS_Singleton
  <2>2. \A f \in [1 .. 1 -> {i}] : f = <<i>>
    <3>1. ASSUME NEW f \in [1 .. 1 -> {i}] PROVE f = <<i>>
      <4>1. 1 \in Nat
        OBVIOUS
      <4>2. f \in Seq({i}) /\ Len(f) = 1
        BY <4>1, FcnSeq
      <4>5. f[1] = i
        <5>1. 1 \in 1 .. 1
          OBVIOUS
        <5>2. f[1] \in {i}
          BY <5>1
        <5>3. QED
          BY <5>2
      <4>3. <<i>> \in Seq({i}) /\ Len(<<i>>) = 1 /\ <<i>>[1] = i
        OBVIOUS
      <4>4. QED
        BY <4>2, <4>3, <4>5, SeqEqual
    <3>2. QED
      BY <3>1
  <2>3. <<i>> \in [1 .. 1 -> {i}] /\ IsInjective(<<i>>)
    BY DEF IsInjective
  <2>4. SetToSeq({i}) = CHOOSE f \in [1 .. 1 -> {i}] : IsInjective(f)
    BY <2>1 DEF SetToSeq
  <2>5. QED
    BY <2>2, <2>3, <2>4
<1>3. QED
  BY <1>1, <1>2

\* at_parse_cmd runs the command i, or none.
Runs(i) ==
  /\ ran' = Append(ran, i)
  /\ IF script[i].data > 0
     THEN at' = "write" /\ buf' = <<>> /\ left' = script[i].data
     ELSE UNCHANGED <<at, left, buf>>

\* at_parse_cmd runs the command that the line is, or none.
LEMMA ParseCmdFacts ==
  ASSUME script \in Scripts, ran \in Seq(Items), tails \subseteq Items,
         NEW c, NEW l, LineOf(c, l), ParseCmd(c)
  PROVE  /\ cache' = <<>> /\ flag' = FALSE /\ tails' \subseteq Items
         /\ \/ UNCHANGED <<ran, at, left, buf>> /\ Whole(c) = {}
            \/ \E i \in Whole(c) : Runs(i)
<1>1. cache' = <<>> /\ flag' = FALSE
  BY DEF ParseCmd
<1>2. tails' \subseteq Items
  <2>1. Len(Line(c)) = l /\ l \in 0 .. Len(c) /\ c \in Seq(Bytes) /\ Len(c) \in Nat
    BY LineFacts, LenProperties DEF LineOf
  <2>2. ASSUME NEW m \in 1 .. Len(Line(c)) PROVE c[m].item \in Items
    <3>1. m \in 1 .. Len(c)
      BY <2>1
    <3>2. c[m] \in Bytes
      BY <2>1, <3>1, ElementOfSeq
    <3>3. QED
      BY <3>2 DEF Bytes
  <2>3. QED
    BY <2>2 DEF ParseCmd
<1>3. CASE Whole(c) = {}
  <2>1. ran' = ran \o <<>>
    BY <1>3, SetToSeqFacts DEF ParseCmd
  <2>2. ran' = ran
    BY <2>1, ConcatEmptySeq
  <2>3. UNCHANGED <<at, left, buf>>
    BY <1>3 DEF ParseCmd
  <2>4. QED
    BY <1>1, <1>2, <1>3, <2>2, <2>3
<1>4. CASE Whole(c) # {}
  <2>1. PICK i \in Whole(c) : Whole(c) = {i}
    BY <1>4, WholeFacts
  <2>2. i \in Items
    BY <2>1, WholeFacts
  <2>3. ran' = ran \o <<i>>
    BY <2>1, SetToSeqFacts DEF ParseCmd
  <2>4. ran' = Append(ran, i)
    BY <2>2, <2>3
  <2>5. (CHOOSE m \in Whole(c) : TRUE) = i
    BY <2>1
  <2>6. IF script[i].data > 0
        THEN at' = "write" /\ buf' = <<>> /\ left' = script[i].data
        ELSE UNCHANGED <<at, left, buf>>
    BY <2>1, <2>5 DEF ParseCmd
  <2>7. Runs(i)
    BY <2>4, <2>6 DEF Runs
  <2>8. QED
    BY <1>1, <1>2, <2>7
<1>5. QED
  BY <1>3, <1>4

\* ByteIs, of a byte whose command is known.
LEMMA ByteOf ==
  ASSUME NEW p, NEW b, NEW i, ByteIs(p), b = Stream[p], b.item = i
  PROVE  /\ b \in Bytes /\ i \in Items /\ p > Start(i) /\ p <= Stop(i)
         /\ b.part = "char" <=> p <= TextEnd(i)
         /\ b.part = "char" => b.n = p - Start(i)
         /\ IsEnd(b) <=> p > TextEnd(i) /\ p <= TextEnd(i) + EndLen(i)
         /\ b.part = "lf" => \/ script[i].end = "lf" /\ p = TextEnd(i) + 1
                             \/ script[i].end = "crlf" /\ p = TextEnd(i) + 2
         /\ b.part = "cr" => script[i].end # "lf" /\ p = TextEnd(i) + 1
<1>1. b \in Bytes /\ i \in Items /\ p > Start(i) /\ p <= Stop(i)
  BY Zenon DEF ByteIs
<1>2. b.part = "char" <=> p <= TextEnd(i)
  BY Zenon DEF ByteIs
<1>3. b.part = "char" => b.n = p - Start(i)
  BY Zenon DEF ByteIs
<1>4. IsEnd(b) <=> p > TextEnd(i) /\ p <= TextEnd(i) + EndLen(i)
  BY Zenon DEF ByteIs
<1>5. b.part = "lf" => \/ script[i].end = "lf" /\ p = TextEnd(i) + 1
                       \/ script[i].end = "crlf" /\ p = TextEnd(i) + 2
  BY Zenon DEF ByteIs
<1>6. b.part = "cr" => script[i].end # "lf" /\ p = TextEnd(i) + 1
  BY Zenon DEF ByteIs
<1>7. QED
  BY <1>1, <1>2, <1>3, <1>4, <1>5, <1>6

-----------------------------------------------------------------------------
(* AtParser: the bytes taken, and what a step of at_parse does.            *)

\* q and then w are what follows the first P bytes of S.
OnStream(S, P, q, w) ==
  /\ P \in Nat /\ P + Len(q) + Len(w) = Len(S)
  /\ \A n \in 1 .. Len(q) : q[n] = S[P + n]
  /\ \A n \in 1 .. Len(w) : w[n] = S[P + Len(q) + n]

\* A read moves bytes from the wire into an empty queue, and loses none.
LEMMA ReadsFacts ==
  ASSUME NEW S \in Seq(Bytes), NEW P, NEW q \in Seq(Bytes), NEW w \in Seq(Bytes),
         Len(q) <= WinSize, OnStream(S, P, q, w), NEW r \in Reads(q, w)
  PROVE  /\ r.queue \in Seq(Bytes) /\ r.wire \in Seq(Bytes) /\ Len(r.queue) <= WinSize
         /\ OnStream(S, P, r.queue, r.wire)
<1>1. CASE q # <<>>
  <2>1. r.queue = q /\ r.wire = w
    BY <1>1 DEF Reads
  <2>2. QED
    BY <2>1
<1>2. CASE q = <<>>
  <2>1. PICK n \in 0 .. Len(w) :
          n <= WinSize /\ r.queue = SubSeq(w, 1, n) /\ r.wire = SubSeq(w, n + 1, Len(w))
    <3>1. PICK l \in {n \in 0 .. Len(w) : n <= WinSize} :
             r = [queue |-> SubSeq(w, 1, l), wire |-> SubSeq(w, l + 1, Len(w))]
      BY <1>2 DEF Reads
    <3>2. l \in 0 .. Len(w) /\ l <= WinSize
      OBVIOUS
    <3>3. r.queue = SubSeq(w, 1, l) /\ r.wire = SubSeq(w, l + 1, Len(w))
      BY <3>1
    <3>4. QED
      BY <3>2, <3>3
  <2>2. /\ Len(w) \in Nat /\ n \in Nat /\ n <= Len(w) /\ Len(S) \in Nat /\ Len(q) = 0
        /\ \A m \in 1 .. Len(w) : w[m] \in Bytes
    BY <1>2, LenProperties, ElementOfSeq
  <2> DEFINE a == SubSeq(w, 1, n)
             b == SubSeq(w, n + 1, Len(w))
  <2>3. a \in Seq(Bytes) /\ Len(a) = n /\ \A m \in 1 .. n : a[m] = w[m]
    <3>1. 1 \in Int /\ n \in Int /\ \A m \in 1 .. n : w[m] \in Bytes
      BY <2>2
    <3>2. /\ a \in Seq(Bytes) /\ Len(a) = (IF 1 <= n THEN n - 1 + 1 ELSE 0)
          /\ \A m \in 1 .. n - 1 + 1 : a[m] = w[1 + m - 1]
      BY <3>1, SubSeqProperties
    <3> HIDE DEF a
    <3>3. QED
      BY <2>2, <3>2
  <2>4. b \in Seq(Bytes) /\ Len(b) = Len(w) - n /\ \A m \in 1 .. Len(w) - n : b[m] = w[n + m]
    <3>1. n + 1 \in Int /\ Len(w) \in Int /\ \A m \in n + 1 .. Len(w) : w[m] \in Bytes
      BY <2>2
    <3>2. /\ b \in Seq(Bytes) /\ Len(b) = (IF n + 1 <= Len(w) THEN Len(w) - (n + 1) + 1 ELSE 0)
          /\ \A m \in 1 .. Len(w) - (n + 1) + 1 : b[m] = w[n + 1 + m - 1]
      BY <3>1, SubSeqProperties
    <3> HIDE DEF b
    <3>3. ASSUME NEW m \in 1 .. Len(w) - n PROVE b[m] = w[n + m]
      <4>1. m \in 1 .. Len(w) - (n + 1) + 1 /\ n + 1 + m - 1 = n + m
        BY <2>2
      <4>2. QED
        BY <3>2, <4>1
    <3>4. QED
      BY <2>2, <3>2, <3>3
  <2> HIDE DEF a, b
  <2>5. /\ P \in Nat /\ P + Len(w) = Len(S)
        /\ \A m \in 1 .. Len(w) : w[m] = S[P + m]
    <3>1. P \in Nat /\ P + Len(q) + Len(w) = Len(S) /\ \A m \in 1 .. Len(w) : w[m] = S[P + Len(q) + m]
      BY DEF OnStream
    <3>2. QED
      BY <2>2, <3>1
  <2>6. ASSUME NEW m \in 1 .. n PROVE a[m] = S[P + m]
    <3>1. m \in 1 .. Len(w)
      BY <2>2
    <3>2. QED
      BY <2>3, <2>5, <3>1
  <2>7. ASSUME NEW m \in 1 .. Len(w) - n PROVE b[m] = S[P + n + m]
    <3>1. n + m \in 1 .. Len(w) /\ P + (n + m) = P + n + m
      BY <2>2, <2>5
    <3>2. w[n + m] = S[P + (n + m)]
      BY <2>5, <3>1
    <3>3. QED
      BY <2>4, <3>1, <3>2
  <2>8. OnStream(S, P, a, b)
    <3>1. P + Len(a) + Len(b) = Len(S)
      <4>1. /\ P \in Nat /\ n \in Nat /\ Len(w) \in Nat
            /\ P + Len(w) = Len(S) /\ P + n + (Len(w) - n) = P + Len(w)
        BY <2>2, <2>5
      <4>2. QED
        BY <2>3, <2>4, <4>1
    <3>2. \A m \in 1 .. Len(a) : a[m] = S[P + m]
      BY <2>3, <2>6
    <3>3. \A m \in 1 .. Len(b) : b[m] = S[P + Len(a) + m]
      BY <2>3, <2>4, <2>7
    <3>4. QED
      BY <2>5, <3>1, <3>2, <3>3 DEF OnStream
  <2>9. QED
    BY <2>1, <2>3, <2>4, <2>8 DEF a, b
<1>3. QED
  BY <1>1, <1>2

\* The head of the queue is the next byte of the stream.
LEMMA TailFacts ==
  ASSUME NEW S \in Seq(Bytes), NEW P, NEW q \in Seq(Bytes), NEW w \in Seq(Bytes),
         q # <<>>, Len(q) <= WinSize, OnStream(S, P, q, w)
  PROVE  /\ P + 1 \in 1 .. Len(S) /\ Head(q) = S[P + 1]
         /\ Tail(q) \in Seq(Bytes) /\ Len(Tail(q)) <= WinSize
         /\ OnStream(S, P + 1, Tail(q), w)
<1> DEFINE t == Tail(q)
<1>1. /\ Len(q) \in Nat \ {0} /\ Len(w) \in Nat /\ Len(S) \in Nat /\ Head(q) = q[1]
      /\ t \in Seq(Bytes) /\ Len(t) = Len(q) - 1
      /\ \A n \in 1 .. Len(t) : t[n] = q[n + 1]
  BY EmptySeq, LenProperties, HeadTailProperties
<1> HIDE DEF t
<1>2. /\ P \in Nat /\ P + Len(q) + Len(w) = Len(S)
      /\ \A n \in 1 .. Len(q) : q[n] = S[P + n]
      /\ \A n \in 1 .. Len(w) : w[n] = S[P + Len(q) + n]
  BY DEF OnStream
<1>3. ASSUME NEW n \in 1 .. Len(t) PROVE t[n] = S[P + 1 + n]
  <2>1. n + 1 \in 1 .. Len(q) /\ P + (n + 1) = P + 1 + n
    BY <1>1, <1>2
  <2>2. q[n + 1] = S[P + (n + 1)]
    BY <1>2, <2>1
  <2>3. QED
    BY <1>1, <2>1, <2>2
<1>4. ASSUME NEW n \in 1 .. Len(w) PROVE w[n] = S[P + 1 + Len(t) + n]
  <2>1. P + Len(q) + n = P + 1 + Len(t) + n
    BY <1>1, <1>2
  <2>2. QED
    BY <1>2, <2>1
<1>5. P + 1 \in 1 .. Len(S) /\ q[1] = S[P + 1] /\ P + 1 + Len(t) + Len(w) = Len(S)
  <2>1. 1 \in 1 .. Len(q)
    BY <1>1
  <2>2. q[1] = S[P + 1]
    BY <1>2, <2>1
  <2>3. P + 1 \in 1 .. Len(S) /\ P + 1 + Len(t) + Len(w) = Len(S)
    <3>1. /\ P \in Nat /\ Len(q) \in Nat \ {0} /\ Len(w) \in Nat
          /\ Len(t) = Len(q) - 1 /\ P + Len(q) + Len(w) = Len(S)
      BY <1>1, <1>2
    <3>2. QED
      BY <3>1
  <2>4. QED
    BY <2>2, <2>3
<1>6. WinSize \in Nat
  BY AtParserAssumption DEF AtParserAssumption
<1>7. Len(t) <= WinSize
  BY <1>1, <1>6
<1>8. OnStream(S, P + 1, t, w)
  BY <1>1, <1>2, <1>3, <1>4, <1>5 DEF OnStream
<1>9. QED
  BY <1>1, <1>5, <1>7, <1>8 DEF t

\* The bytes taken, but for what is in the queue: the queue, and what is still
\* to come, are the bytes that follow them, the cache is the last of them.
Pos == Len(Stream) - Len(queue) - Len(wire)

TakenInv ==
  /\ script \in Scripts
  /\ OnStream(Stream, Pos, queue, wire)
  /\ Len(cache) <= Pos
  /\ \A n \in 1 .. Len(cache) : cache[n] = Stream[Pos - Len(cache) + n] /\ ~IsEnd(cache[n])
  /\ at = "write" => cache = <<>>

\* A byte is taken.
Moved ==
  /\ script' = script /\ Pos + 1 \in 1 .. Len(Stream)
  /\ queue' \in Seq(Bytes) /\ wire' \in Seq(Bytes) /\ Len(queue') <= WinSize
  /\ OnStream(Stream, Pos + 1, queue', wire')

NextByte == Stream[Pos + 1]

\* It is put into the cache, or dropped with it for want of room, or a line is
\* run: the k bytes that follow the first p.
Kept ==
  /\ ~IsEnd(NextByte) /\ ~flag /\ Len(cache) < CMD_CACHE_MAX_LEN
  /\ cache' = Append(cache, NextByte)
  /\ UNCHANGED <<flag, at, left, buf, ran, tails, cut>>

Dropped ==
  /\ cache' = <<>> /\ flag' \in BOOLEAN
  /\ UNCHANGED <<at, left, buf, ran, tails>>
  /\ IF IsEnd(NextByte)
     THEN /\ cut' = cut \cup {NextByte.item}
          /\ Len(cache) + EndLen(NextByte.item) + 1 > CMD_CACHE_MAX_LEN
     ELSE cut' = cut /\ Len(cache) >= CMD_CACHE_MAX_LEN

RanLine(p, l) ==
  /\ cache' = <<>> /\ flag' = FALSE /\ tails' \subseteq Items
  /\ \/ /\ UNCHANGED <<ran, at, left, buf>>
        /\ \A i \in Items : ~ (p = Start(i) /\ l = script[i].len)
     \/ \E i \in Items : p = Start(i) /\ l = script[i].len /\ Runs(i)

Ended ==
  /\ cut' = cut
  /\ \/ IsEnd(NextByte) /\ RanLine(Pos - Len(cache), Len(cache))
     \/ ~IsEnd(NextByte) /\ flag /\ RanLine(Pos, 1)

\* A line that is a part of the stream is a command if it lies where that does.
LEMMA RanLineOf ==
  ASSUME script \in Scripts, ran \in Seq(Items), tails \subseteq Items,
         NEW c, NEW l, LineOf(c, l), ParseCmd(c),
         NEW p \in Nat, p + l <= Len(Stream), \A n \in 1 .. l : c[n] = Stream[p + n]
  PROVE  RanLine(p, l)
<1>1. l \in Nat /\ Len(Stream) \in Nat
  BY StreamFacts, LenProperties DEF LineOf
<1>2. ASSUME NEW i \in Items
      PROVE  i \in Whole(c) <=> p = Start(i) /\ l = script[i].len
  <2>1. Place(i)
    BY PlaceOf
  <2>2. i \in Whole(c) <=> l = script[i].len /\ \A n \in 1 .. l : c[n] = Byte(i, "char", n)
    BY WholeFacts
  <2>3. ASSUME i \in Whole(c) PROVE p = Start(i)
    <3>1. l = script[i].len /\ 1 \in 1 .. l
      BY <1>1, <2>1, <2>2, <2>3 DEF Place
    <3>2. Stream[p + 1] = Byte(i, "char", 1) /\ p + 1 \in 1 .. Len(Stream)
      BY <1>1, <2>2, <2>3, <3>1
    <3>3. ByteIs(p + 1) /\ Stream[p + 1].item = i /\ Stream[p + 1].part = "char" /\ Stream[p + 1].n = 1
      BY <3>2, ByteAt DEF Byte
    <3>4. 1 = p + 1 - Start(i)
      <4> DEFINE x == p + 1
      <4>1. ByteIs(x) /\ Stream[x].item = i /\ Stream[x].part = "char" /\ Stream[x].n = 1
        BY <3>3
      <4> HIDE DEF x
      <4>2. 1 = x - Start(i)
        BY <4>1, ByteOf
      <4>3. QED
        BY <2>1, <4>2 DEF Place, x
    <3>5. QED
      BY <2>1, <3>4 DEF Place
  <2>4. ASSUME p = Start(i), l = script[i].len PROVE i \in Whole(c)
    BY <2>1, <2>2, <2>4 DEF Place
  <2>5. QED
    BY <2>2, <2>3, <2>4
<1>3. Whole(c) \subseteq Items
  BY WholeFacts
<1>4. /\ cache' = <<>> /\ flag' = FALSE /\ tails' \subseteq Items
      /\ \/ UNCHANGED <<ran, at, left, buf>> /\ Whole(c) = {}
         \/ \E i \in Whole(c) : Runs(i)
  BY ParseCmdFacts
<1>5. CASE \E i \in Whole(c) : Runs(i)
  BY <1>2, <1>3, <1>4, <1>5 DEF RanLine
<1>6. CASE UNCHANGED <<ran, at, left, buf>> /\ Whole(c) = {}
  BY <1>2, <1>4, <1>6 DEF RanLine
<1>7. QED
  BY <1>4, <1>5, <1>6

\* The places of a command: its text, its end and the bytes behind it.
LEMMA ItemFacts ==
  ASSUME script \in Scripts, NEW i \in Items
  PROVE  /\ Start(i) \in Nat /\ TextEnd(i) \in Nat /\ Stop(i) \in Nat /\ i \in Nat
         /\ script[i].len \in Nat \ {0} /\ EndLen(i) \in 1 .. 2 /\ script[i].data \in Nat
         /\ TextEnd(i) = Start(i) + script[i].len /\ TextEnd(i) > Start(i)
         /\ Stop(i) = TextEnd(i) + EndLen(i) + script[i].data
         /\ Stop(i) > TextEnd(i) /\ Stop(i) <= Len(Stream)
         /\ script[i].data > 0 => script[i].len > 1
<1>1. /\ Start(i) \in Nat /\ script[i].len \in Nat \ {0} /\ EndLen(i) \in 1 .. 2
      /\ script[i].data \in Nat /\ i \in Nat /\ Stop(i) <= Len(Stream)
  BY PlaceOf, StreamFacts DEF Place
<1>2. TextEnd(i) = Start(i) + script[i].len /\ TextEnd(i) \in Nat /\ TextEnd(i) > Start(i)
  BY <1>1 DEF TextEnd
<1>3. Stop(i) = TextEnd(i) + EndLen(i) + script[i].data
  BY DEF Stop
<1>4. Stop(i) \in Nat /\ Stop(i) > TextEnd(i)
  <2>1. EndLen(i) \in Nat /\ EndLen(i) >= 1 /\ script[i].data \in Nat /\ TextEnd(i) \in Nat
    BY <1>1, <1>2
  <2>2. QED
    BY <1>3, <2>1
<1>5. script[i].data > 0 => script[i].len > 1
  <2>1. i \in 1 .. Len(script)
    BY DEF Items
  <2>2. QED
    BY <2>1, CmdFacts
<1>6. QED
  BY <1>1, <1>2, <1>3, <1>4, <1>5

\* A place in the stream is of one command only.
LEMMA OneItem ==
  ASSUME script \in Scripts, NEW i \in Items, NEW l \in Items, NEW p \in Nat,
         p > Start(i), p <= Stop(i), p > Start(l), p <= Stop(l)
  PROVE  i = l
<1>1. /\ i \in Nat /\ l \in Nat
      /\ i < l => Stop(i) <= Start(l)
      /\ l < i => Stop(l) <= Start(i)
  BY StreamFacts
<1>2. Start(i) \in Nat /\ Start(l) \in Nat /\ Stop(i) \in Nat /\ Stop(l) \in Nat
  BY ItemFacts
<1>3. QED
  BY <1>1, <1>2

\* c is the cache, with the end of its line and whatever else is put behind it.
EndsLine(c) ==
  /\ c \in Seq(Bytes) /\ Len(cache) + 1 <= Len(c)
  /\ IsEnd(c[Len(cache) + 1])
  /\ \A n \in 1 .. Len(cache) : c[n] = cache[n]

\* The end put behind the cache.
LEMMA EndsLineFirst ==
  ASSUME cache \in Seq(Bytes), NEW b \in Bytes, IsEnd(b)
  PROVE  EndsLine(Append(cache, b))
<1>1. Len(cache) \in Nat
  BY LenProperties
<1> DEFINE c == Append(cache, b)
<1>2. /\ c \in Seq(Bytes) /\ Len(c) = Len(cache) + 1 /\ c[Len(cache) + 1] = b
      /\ \A n \in 1 .. Len(cache) : c[n] = cache[n]
  BY AppendProperties
<1> HIDE DEF c
<1>3. EndsLine(c)
  BY <1>1, <1>2 DEF EndsLine
<1>4. QED
  BY <1>3 DEF c

\* And whatever is put behind that.
LEMMA EndsLineMore ==
  ASSUME cache \in Seq(Bytes), NEW c, EndsLine(c), NEW b \in Bytes
  PROVE  EndsLine(Append(c, b))
<1>1. /\ Len(cache) \in Nat /\ c \in Seq(Bytes) /\ Len(c) \in Nat /\ Len(cache) + 1 <= Len(c)
      /\ IsEnd(c[Len(cache) + 1]) /\ \A n \in 1 .. Len(cache) : c[n] = cache[n]
  BY LenProperties DEF EndsLine
<1> DEFINE d == Append(c, b)
<1>2. d \in Seq(Bytes) /\ Len(d) = Len(c) + 1 /\ \A n \in 1 .. Len(c) : d[n] = c[n]
  BY <1>1, AppendProperties
<1> HIDE DEF d
<1>3. Len(cache) + 1 \in 1 .. Len(c) /\ \A n \in 1 .. Len(cache) : n \in 1 .. Len(c)
  BY <1>1
<1>4. EndsLine(d)
  <2>1. d[Len(cache) + 1] = c[Len(cache) + 1]
    BY <1>2, <1>3
  <2>2. \A n \in 1 .. Len(cache) : d[n] = cache[n]
    BY <1>1, <1>2, <1>3
  <2>3. QED
    BY <1>1, <1>2, <2>1, <2>2 DEF EndsLine
<1>5. QED
  BY <1>4 DEF d

\* The integers of a state.
LEMMA TakenFacts ==
  ASSUME ParserTypeOK, TakenInv
  PROVE  /\ Pos \in Nat /\ Len(Stream) \in Nat /\ Stream \in Seq(Bytes) /\ Pos <= Len(Stream)
         /\ Len(cache) \in Nat /\ Len(cache) <= Pos
         /\ CMD_CACHE_MAX_LEN \in Nat \ {0, 1} /\ WinSize \in Nat
         /\ \A n \in 1 .. Len(cache) : cache[n] = Stream[Pos - Len(cache) + n] /\ ~IsEnd(cache[n])
<1>1. script \in Scripts /\ OnStream(Stream, Pos, queue, wire) /\ Len(cache) <= Pos
  BY DEF TakenInv
<1>2. Stream \in Seq(Bytes) /\ Len(Stream) \in Nat
  BY <1>1, StreamFacts
<1>3. Len(cache) \in Nat /\ Len(queue) \in Nat /\ Len(wire) \in Nat
  BY LenProperties DEF ParserTypeOK
<1>4. Pos \in Nat /\ Pos + Len(queue) + Len(wire) = Len(Stream)
  BY <1>1 DEF OnStream
<1>5. CMD_CACHE_MAX_LEN \in Nat \ {0, 1} /\ WinSize \in Nat
  BY AtParserAssumption DEF AtParserAssumption
<1>6. Pos <= Len(Stream)
  <2> HIDE DEF Pos
  <2>1. QED
    BY <1>2, <1>3, <1>4
<1>7. \A n \in 1 .. Len(cache) : cache[n] = Stream[Pos - Len(cache) + n] /\ ~IsEnd(cache[n])
  BY DEF TakenInv
<1>8. QED
  BY <1>1, <1>2, <1>3, <1>4, <1>5, <1>6, <1>7

\* The line in the cache is run: it is what lies before the byte taken.
LEMMA RanCache ==
  ASSUME ParserTypeOK, TakenInv, NEW c, EndsLine(c), ParseCmd(c)
  PROVE  RanLine(Pos - Len(cache), Len(cache))
<1> DEFINE l == Len(cache)
           p == Pos - Len(cache)
<1>1. /\ l \in Nat /\ Pos \in Nat /\ l <= Pos /\ Pos <= Len(Stream) /\ Len(Stream) \in Nat
      /\ \A n \in 1 .. l : cache[n] = Stream[p + n] /\ ~IsEnd(cache[n])
  BY TakenFacts
<1>2. p \in Nat /\ p + l <= Len(Stream)
  <2> HIDE DEF Pos, l
  <2>1. QED
    BY <1>1 DEF l
<1>3. LineOf(c, l) /\ \A n \in 1 .. l : c[n] = Stream[p + n]
  <2>1. /\ c \in Seq(Bytes) /\ l + 1 <= Len(c) /\ IsEnd(c[l + 1])
        /\ \A n \in 1 .. l : c[n] = cache[n]
    BY DEF EndsLine
  <2>2. Len(c) \in Nat
    BY <2>1, LenProperties
  <2>3. l \in 0 .. Len(c)
    BY <1>1, <2>1, <2>2
  <2> HIDE DEF l, p
  <2>4. QED
    BY <1>1, <2>1, <2>3 DEF LineOf
<1> HIDE DEF l, p
<1>4. script \in Scripts /\ ran \in Seq(Items) /\ tails \subseteq Items
  BY DEF TakenInv, ParserTypeOK
<1>5. RanLine(p, l)
  BY <1>2, <1>3, <1>4, RanLineOf
<1>6. QED
  BY <1>5 DEF l, p

\* A line feed that is looked at behind a carriage return is of the same end.
LEMMA CrLf ==
  ASSUME script \in Scripts, NEW p \in Nat, p + 1 \in 1 .. Len(Stream), p + 2 \in 1 .. Len(Stream),
         Stream[p + 1].part = "cr", Stream[p + 2].part = "lf"
  PROVE  EndLen(Stream[p + 1].item) = 2
<1> DEFINE x == p + 1
           y == p + 2
           i == Stream[y].item
<1>1. x \in 1 .. Len(Stream) /\ y \in 1 .. Len(Stream) /\ Stream[x].part = "cr" /\ Stream[y].part = "lf"
  OBVIOUS
<1>2. y = x + 1 /\ x \in Nat /\ y \in Nat
  OBVIOUS
<1> HIDE DEF x, y
<1>3. /\ i \in Items
      /\ \/ script[i].end = "lf" /\ y = TextEnd(i) + 1
         \/ script[i].end = "crlf" /\ y = TextEnd(i) + 2
  <2>1. ByteIs(y)
    BY <1>1, ByteAt
  <2>2. QED
    BY <1>1, <2>1, ByteOf
<1> HIDE DEF i
<1>4. Place(i)
  BY <1>3, PlaceOf
<1>5. Start(i) \in Nat /\ script[i].len \in Nat \ {0} /\ TextEnd(i) = Start(i) + script[i].len
  BY <1>4 DEF Place, TextEnd
<1>6. CASE y = TextEnd(i) + 1
  <2>1. x = Start(i) + script[i].len
    BY <1>2, <1>5, <1>6
  <2>2. Stream[Start(i) + script[i].len] = Byte(i, "char", script[i].len)
    <3>1. script[i].len \in 1 .. script[i].len
      BY <1>5
    <3>2. QED
      BY <1>4, <3>1 DEF Place
  <2>3. QED
    BY <1>1, <2>1, <2>2 DEF Byte
<1>7. CASE script[i].end = "crlf" /\ y = TextEnd(i) + 2
  <2>1. x = TextEnd(i) + 1
    <3>1. TextEnd(i) \in Nat
      BY <1>5
    <3>2. QED
      BY <1>2, <1>7, <3>1
  <2>2. Stream[x] = Byte(i, "cr", 1)
    BY <1>4, <1>7, <2>1 DEF Place
  <2>3. Stream[x].item = i /\ EndLen(i) = 2
    BY <1>7, <2>2 DEF Byte, EndLen
  <2>4. QED
    BY <2>3 DEF x
<1>8. QED
  BY <1>3, <1>6, <1>7

\* The byte that a read gives is the next one.
LEMMA Took ==
  ASSUME ParserTypeOK, TakenInv, NEW r \in Reads(queue, wire), NEW b, Got(r, b)
  PROVE  /\ Pos + 1 \in 1 .. Len(Stream) /\ b = NextByte /\ b \in Bytes /\ b.item \in Items
         /\ Tail(r.queue) \in Seq(Bytes) /\ r.wire \in Seq(Bytes) /\ Len(Tail(r.queue)) <= WinSize
         /\ OnStream(Stream, Pos + 1, Tail(r.queue), r.wire)
<1>1. /\ Stream \in Seq(Bytes) /\ queue \in Seq(Bytes) /\ wire \in Seq(Bytes)
      /\ Len(queue) <= WinSize /\ OnStream(Stream, Pos, queue, wire)
  BY TakenFacts DEF ParserTypeOK, TakenInv
<1>2. /\ r.queue \in Seq(Bytes) /\ r.wire \in Seq(Bytes) /\ Len(r.queue) <= WinSize
      /\ OnStream(Stream, Pos, r.queue, r.wire)
  BY <1>1, ReadsFacts
<1>3. r.queue # <<>> /\ b = Head(r.queue)
  BY DEF Got
<1> HIDE DEF Pos
<1>4. /\ Pos + 1 \in 1 .. Len(Stream) /\ Head(r.queue) = Stream[Pos + 1]
      /\ Tail(r.queue) \in Seq(Bytes) /\ Len(Tail(r.queue)) <= WinSize
      /\ OnStream(Stream, Pos + 1, Tail(r.queue), r.wire)
  BY <1>1, <1>2, <1>3, TailFacts
<1>5. Stream[Pos + 1] \in Bytes
  BY <1>1, <1>4, ElementOfSeq
<1>6. Stream[Pos + 1].item \in Items
  BY <1>5 DEF Bytes
<1>7. QED
  BY <1>2, <1>3, <1>4, <1>5, <1>6 DEF NextByte

Outcome == Kept \/ Dropped \/ Ended

\* A byte of a line: kept, dropped with what is in the cache, or the first of
\* a line and run, for the flag was left set.
LEMMA ByteOutcome ==
  ASSUME ParserTypeOK, TakenInv, Pos + 1 \in 1 .. Len(Stream), NextByte \in Bytes, ~IsEnd(NextByte),
         Loop(Put(cache, NextByte, flag), NextByte)
  PROVE  Outcome
<1> DEFINE b == NextByte
           s == Put(cache, b, flag)
<1>1. /\ cut' = cut
      /\ IF s.go /\ s.flag THEN ParseCmd(s.cache) ELSE NoCmd(s)
  BY DEF Loop
<1>2. /\ Len(cache) \in Nat /\ CMD_CACHE_MAX_LEN \in Nat /\ Pos \in Nat
      /\ flag \in BOOLEAN /\ (flag => cache = <<>>)
  BY TakenFacts DEF ParserTypeOK
<1>3. CASE ~ (Len(cache) < CMD_CACHE_MAX_LEN)
  <2>1. s = Discarded(flag)
    BY <1>3 DEF Put
  <2>2. s.cache = <<>> /\ s.flag = flag /\ s.go = FALSE
    BY <2>1 DEF Discarded
  <2> HIDE DEF s
  <2>3. NoCmd(s)
    BY <1>1, <2>2
  <2>4. cache' = <<>> /\ flag' = flag /\ UNCHANGED <<at, left, buf, ran, tails>>
    BY <2>2, <2>3 DEF NoCmd
  <2>5. Len(cache) >= CMD_CACHE_MAX_LEN
    BY <1>2, <1>3
  <2>6. flag' \in BOOLEAN
    BY <1>2, <2>4
  <2>7. Dropped
    BY <1>1, <2>4, <2>5, <2>6, Zenon DEF Dropped
  <2>8. QED
    BY <2>7 DEF Outcome
<1>4. CASE Len(cache) < CMD_CACHE_MAX_LEN
  <2>1. s.cache = Append(cache, b) /\ s.flag = flag /\ s.go = TRUE
    BY <1>4 DEF Put
  <2> HIDE DEF s
  <2>2. CASE ~flag
    <3>1. NoCmd(s)
      BY <1>1, <2>1, <2>2
    <3>2. QED
      BY <1>1, <1>4, <2>1, <2>2, <3>1 DEF NoCmd, Kept, Outcome
  <2>3. CASE flag
    <3>1. ParseCmd(<<b>>)
      <4>1. Append(cache, b) = <<b>>
        BY <1>2, <2>3
      <4>2. QED
        BY <1>1, <2>1, <2>3, <4>1
    <3>2. LineOf(<<b>>, 1)
      <4>1. <<b>> \in Seq(Bytes) /\ Len(<<b>>) = 1 /\ <<b>>[1] = b
        OBVIOUS
      <4>2. 1 \in 0 .. 1 /\ \A n \in 1 .. 1 : n = 1
        OBVIOUS
      <4>3. QED
        BY <4>1, <4>2 DEF LineOf
    <3>3. /\ script \in Scripts /\ ran \in Seq(Items) /\ tails \subseteq Items
          /\ Pos + 1 <= Len(Stream) /\ Len(Stream) \in Nat
      BY <1>2, TakenFacts DEF TakenInv, ParserTypeOK
    <3>4. \A n \in 1 .. 1 : <<b>>[n] = Stream[Pos + n]
      <4>1. \A n \in 1 .. 1 : n = 1
        OBVIOUS
      <4>2. <<b>>[1] = Stream[Pos + 1]
        BY DEF NextByte
      <4>3. QED
        BY <4>1, <4>2
    <3> HIDE DEF Pos
    <3>5. RanLine(Pos, 1)
      BY <1>2, <3>1, <3>2, <3>3, <3>4, RanLineOf
    <3>6. QED
      BY <1>1, <2>3, <3>5 DEF Ended, Outcome
  <2>4. QED
    BY <1>2, <2>2, <2>3
<1>5. QED
  BY <1>2, <1>3, <1>4

\* The end of a line: the line is run, or dropped.
LEMMA EndOutcome ==
  ASSUME ParserTypeOK, TakenInv, Pos + 1 \in 1 .. Len(Stream), NextByte \in Bytes, IsEnd(NextByte),
         NEW s, Loop(s, NextByte),
         \/ s.go /\ s.flag /\ EndsLine(s.cache)
         \/ /\ s.cache = <<>> /\ s.flag \in BOOLEAN /\ s.go = FALSE
            /\ Len(cache) + EndLen(NextByte.item) + 1 > CMD_CACHE_MAX_LEN
  PROVE  Outcome
<1>1. /\ cut' = IF ~s.go THEN cut \cup {NextByte.item} ELSE cut
      /\ IF s.go /\ s.flag THEN ParseCmd(s.cache) ELSE NoCmd(s)
  BY DEF Loop
<1>2. CASE s.go /\ s.flag /\ EndsLine(s.cache)
  <2>1. RanLine(Pos - Len(cache), Len(cache))
    BY <1>1, <1>2, RanCache
  <2> HIDE DEF NextByte, Pos
  <2>2. QED
    BY <1>1, <1>2, <2>1 DEF Ended, Outcome
<1>3. CASE /\ s.cache = <<>> /\ s.flag \in BOOLEAN /\ s.go = FALSE
           /\ Len(cache) + EndLen(NextByte.item) + 1 > CMD_CACHE_MAX_LEN
  <2>1. NoCmd(s) /\ cut' = cut \cup {NextByte.item}
    BY <1>1, <1>3
  <2>2. cache' = <<>> /\ flag' \in BOOLEAN /\ UNCHANGED <<at, left, buf, ran, tails>>
    BY <1>3, <2>1 DEF NoCmd
  <2> HIDE DEF NextByte, Pos
  <2>3. QED
    BY <1>3, <2>1, <2>2 DEF Dropped, Outcome
<1>4. QED
  BY <1>2, <1>3

\* What PutLf makes of the cache, the end b behind it and another byte.
LEMMA PutEnds ==
  ASSUME ParserTypeOK, TakenInv, NEW b \in Bytes, NEW c, EndsLine(c), Len(c) \in Nat, NEW fl \in BOOLEAN
  PROVE  LET s == Put(c, b, fl)
         IN \/ s.cache = Append(c, b) /\ s.flag = fl /\ s.go = TRUE /\ EndsLine(Append(c, b))
            \/ s = Discarded(fl) /\ Len(c) >= CMD_CACHE_MAX_LEN
<1>1. CMD_CACHE_MAX_LEN \in Nat
  BY TakenFacts
<1>2. CASE Len(c) < CMD_CACHE_MAX_LEN
  <2>1. EndsLine(Append(c, b))
    BY EndsLineMore DEF ParserTypeOK
  <2>2. Put(c, b, fl) = [cache |-> Append(c, b), flag |-> fl, go |-> TRUE]
    BY <1>2 DEF Put
  <2>3. QED
    BY <1>2, <2>1, <2>2
<1>3. CASE ~ (Len(c) < CMD_CACHE_MAX_LEN)
  <2>1. Put(c, b, fl) = Discarded(fl)
    BY <1>3 DEF Put
  <2>2. Len(c) >= CMD_CACHE_MAX_LEN
    BY <1>1, <1>3
  <2>3. QED
    BY <2>1, <2>2
<1>4. QED
  BY <1>2, <1>3

\* What a step of at_parse that finds a byte comes to.
LEMMA ByteMoves ==
  ASSUME ParserTypeOK, TakenInv, ParseByte
  PROVE  Moved /\ Outcome /\ at = "parse" /\ wrote' = wrote
<1>1. PICK r \in Reads(queue, wire) : \E b \in ToSet(r.queue) :
        /\ Got(r, b) /\ ~IsEnd(b)
        /\ queue' = Tail(r.queue) /\ wire' = r.wire
        /\ Loop(Put(cache, b, flag), b)
  BY DEF ParseByte
<1>2. PICK b : /\ Got(r, b) /\ ~IsEnd(b)
               /\ queue' = Tail(r.queue) /\ wire' = r.wire
               /\ Loop(Put(cache, b, flag), b)
  BY <1>1
<1>3. /\ Pos + 1 \in 1 .. Len(Stream) /\ b = NextByte /\ b \in Bytes
      /\ Tail(r.queue) \in Seq(Bytes) /\ r.wire \in Seq(Bytes) /\ Len(Tail(r.queue)) <= WinSize
      /\ OnStream(Stream, Pos + 1, Tail(r.queue), r.wire)
  BY <1>2, Took
<1>4. at = "parse" /\ wrote' = wrote /\ script' = script
  BY <1>2 DEF ParseByte, Loop
<1> HIDE DEF Pos, NextByte
<1>5. Moved
  BY <1>2, <1>3, <1>4 DEF Moved
<1>6. Outcome
  BY <1>2, <1>3, ByteOutcome
<1>7. QED
  BY <1>4, <1>5, <1>6

\* The same of a line feed.
LEMMA LfMoves ==
  ASSUME ParserTypeOK, TakenInv, ParseLf
  PROVE  Moved /\ Outcome /\ at = "parse" /\ wrote' = wrote
<1>1. PICK r \in Reads(queue, wire) : \E b \in ToSet(r.queue) :
        /\ Got(r, b) /\ b.part = "lf"
        /\ queue' = Tail(r.queue) /\ wire' = r.wire
        /\ Loop(PutLf(cache, b, flag), b)
  BY DEF ParseLf
<1>2. PICK b : /\ Got(r, b) /\ b.part = "lf"
               /\ queue' = Tail(r.queue) /\ wire' = r.wire
               /\ Loop(PutLf(cache, b, flag), b)
  BY <1>1
<1>3. /\ Pos + 1 \in 1 .. Len(Stream) /\ b = NextByte /\ b \in Bytes /\ b.item \in Items
      /\ Tail(r.queue) \in Seq(Bytes) /\ r.wire \in Seq(Bytes) /\ Len(Tail(r.queue)) <= WinSize
      /\ OnStream(Stream, Pos + 1, Tail(r.queue), r.wire)
  BY <1>2, Took
<1>4. at = "parse" /\ wrote' = wrote /\ script' = script
  BY <1>2 DEF ParseLf, Loop
<1> HIDE DEF Pos, NextByte
<1>5. Moved
  BY <1>2, <1>3, <1>4 DEF Moved
<1>6. /\ Len(cache) \in Nat /\ CMD_CACHE_MAX_LEN \in Nat /\ IsEnd(b)
      /\ EndLen(b.item) \in Nat /\ EndLen(b.item) >= 1 /\ cache \in Seq(Bytes) /\ flag \in BOOLEAN
  BY <1>2, TakenFacts DEF IsEnd, EndLen, ParserTypeOK
<1> DEFINE s == PutLf(cache, b, flag)
           c == Append(cache, b)
<1>7. /\ EndsLine(c) /\ Len(c) = Len(cache) + 1 /\ Len(c) \in Nat
  BY <1>3, <1>6, EndsLineFirst, AppendProperties
<1>8. \/ s.go /\ s.flag /\ EndsLine(s.cache)
      \/ /\ s.cache = <<>> /\ s.flag \in BOOLEAN /\ s.go = FALSE
         /\ Len(cache) + EndLen(b.item) + 1 > CMD_CACHE_MAX_LEN
  <2>1. CASE ~ (Len(cache) < CMD_CACHE_MAX_LEN)
    <3>1. s = Discarded(flag)
      BY <2>1 DEF PutLf
    <3>2. Len(cache) + EndLen(b.item) + 1 > CMD_CACHE_MAX_LEN
      BY <1>6, <2>1
    <3>3. QED
      BY <1>6, <3>1, <3>2 DEF Discarded
  <2>2. CASE Len(cache) < CMD_CACHE_MAX_LEN
    <3>1. s = Put(c, b, TRUE)
      BY <2>2 DEF PutLf
    <3> HIDE DEF s, c
    <3>2. \/ s.cache = Append(c, b) /\ s.flag = TRUE /\ s.go = TRUE /\ EndsLine(Append(c, b))
          \/ s = Discarded(TRUE) /\ Len(c) >= CMD_CACHE_MAX_LEN
      BY <1>3, <1>7, <3>1, PutEnds
    <3>3. CASE s = Discarded(TRUE) /\ Len(c) >= CMD_CACHE_MAX_LEN
      <4>1. Len(cache) + EndLen(b.item) + 1 > CMD_CACHE_MAX_LEN
        BY <1>6, <1>7, <3>3
      <4>2. s.cache = <<>> /\ s.flag = TRUE /\ s.go = FALSE
        BY <3>3 DEF Discarded
      <4>3. QED
        BY <4>1, <4>2
    <3>4. QED
      BY <3>2, <3>3
  <2>3. QED
    BY <2>1, <2>2
<1> HIDE DEF s
<1>9. Outcome
  <2>1. Loop(s, b)
    BY <1>2 DEF s
  <2>2. QED
    BY <1>3, <1>6, <1>8, <2>1, EndOutcome
<1>10. QED
  BY <1>4, <1>5, <1>9

\* And of a carriage return, with the byte after it, or itself once more.
LEMMA CrMoves ==
  ASSUME ParserTypeOK, TakenInv, ParseCr
  PROVE  Moved /\ Outcome /\ at = "parse" /\ wrote' = wrote
<1>1. PICK r \in Reads(queue, wire) : \E b \in ToSet(r.queue) :
        /\ Got(r, b) /\ b.part = "cr"
        /\ \E p \in Reads(Tail(r.queue), r.wire) :
             /\ queue' = p.queue /\ wire' = p.wire
             /\ Loop(PutCr(cache, b, IF p.queue = <<>> THEN b ELSE Head(p.queue), flag), b)
  BY DEF ParseCr
<1>2. PICK b : /\ Got(r, b) /\ b.part = "cr"
               /\ \E p \in Reads(Tail(r.queue), r.wire) :
                    /\ queue' = p.queue /\ wire' = p.wire
                    /\ Loop(PutCr(cache, b, IF p.queue = <<>> THEN b ELSE Head(p.queue), flag), b)
  BY <1>1
<1>3. PICK p \in Reads(Tail(r.queue), r.wire) :
             /\ queue' = p.queue /\ wire' = p.wire
             /\ Loop(PutCr(cache, b, IF p.queue = <<>> THEN b ELSE Head(p.queue), flag), b)
  BY <1>2
<1>4. /\ Pos + 1 \in 1 .. Len(Stream) /\ b = NextByte /\ b \in Bytes /\ b.item \in Items
      /\ Tail(r.queue) \in Seq(Bytes) /\ r.wire \in Seq(Bytes) /\ Len(Tail(r.queue)) <= WinSize
      /\ OnStream(Stream, Pos + 1, Tail(r.queue), r.wire)
  BY <1>2, Took
<1>5. /\ Len(cache) \in Nat /\ CMD_CACHE_MAX_LEN \in Nat /\ IsEnd(b) /\ Pos \in Nat
      /\ EndLen(b.item) \in Nat /\ EndLen(b.item) >= 1 /\ cache \in Seq(Bytes) /\ flag \in BOOLEAN
      /\ Stream \in Seq(Bytes) /\ script \in Scripts
  BY <1>2, TakenFacts DEF IsEnd, EndLen, ParserTypeOK, TakenInv
<1> HIDE DEF Pos
<1>6. /\ p.queue \in Seq(Bytes) /\ p.wire \in Seq(Bytes) /\ Len(p.queue) <= WinSize
      /\ OnStream(Stream, Pos + 1, p.queue, p.wire)
  BY <1>4, <1>5, ReadsFacts
<1>7. at = "parse" /\ wrote' = wrote /\ script' = script
  BY <1>3 DEF ParseCr, Loop
<1>8. Moved
  BY <1>3, <1>4, <1>6, <1>7 DEF Moved
<1> DEFINE x == IF p.queue = <<>> THEN b ELSE Head(p.queue)
           s == PutCr(cache, b, x, flag)
           c == Append(cache, b)
<1>9. x \in Bytes /\ (x.part = "lf" => EndLen(b.item) = 2)
  <2>1. CASE p.queue = <<>>
    <3>1. x = b
      BY <2>1
    <3>2. QED
      BY <1>2, <1>4, <3>1
  <2>2. CASE p.queue # <<>>
    <3>1. Pos + 1 + 1 \in 1 .. Len(Stream) /\ Head(p.queue) = Stream[Pos + 1 + 1]
      BY <1>5, <1>6, <2>2, TailFacts
    <3>2. Pos + 1 + 1 = Pos + 2
      BY <1>5
    <3>3. x = Stream[Pos + 2] /\ Pos + 2 \in 1 .. Len(Stream)
      BY <2>2, <3>1, <3>2
    <3>4. x \in Bytes
      BY <1>5, <3>3, ElementOfSeq
    <3>5. b = Stream[Pos + 1]
      BY <1>4 DEF NextByte
    <3> HIDE DEF x
    <3>6. x.part = "lf" => EndLen(b.item) = 2
      BY <1>2, <1>4, <1>5, <3>3, <3>5, CrLf
    <3>7. QED
      BY <3>4, <3>6
  <2>3. QED
    BY <2>1, <2>2
<1>10. Loop(s, b)
  BY <1>3
<1> HIDE DEF x
<1>11. EndsLine(c) /\ Len(c) = Len(cache) + 1 /\ Len(c) \in Nat
  BY <1>4, <1>5, EndsLineFirst, AppendProperties
<1>12. \/ s.go /\ s.flag /\ EndsLine(s.cache)
       \/ /\ s.cache = <<>> /\ s.flag \in BOOLEAN /\ s.go = FALSE
          /\ Len(cache) + EndLen(b.item) + 1 > CMD_CACHE_MAX_LEN
  <2>1. CASE x.part # "lf"
    <3>1. s = Put(c, x, TRUE)
      BY <2>1 DEF PutCr
    <3> HIDE DEF s, c
    <3>2. \/ s.cache = Append(c, x) /\ s.flag = TRUE /\ s.go = TRUE /\ EndsLine(Append(c, x))
          \/ s = Discarded(TRUE) /\ Len(c) >= CMD_CACHE_MAX_LEN
      BY <1>9, <1>11, <3>1, PutEnds
    <3>3. CASE s = Discarded(TRUE) /\ Len(c) >= CMD_CACHE_MAX_LEN
      <4>1. Len(cache) + EndLen(b.item) + 1 > CMD_CACHE_MAX_LEN
        BY <1>5, <1>11, <3>3
      <4>2. s.cache = <<>> /\ s.flag = TRUE /\ s.go = FALSE
        BY <3>3 DEF Discarded
      <4>3. QED
        BY <4>1, <4>2
    <3>4. QED
      BY <3>2, <3>3
  <2>2. CASE x.part = "lf" /\ ~ (Len(c) < CMD_CACHE_MAX_LEN)
    <3>1. s = Discarded(flag)
      BY <2>2 DEF PutCr, PutLf
    <3>2. Len(cache) + EndLen(b.item) + 1 > CMD_CACHE_MAX_LEN
      BY <1>5, <1>11, <2>2
    <3>3. QED
      BY <1>5, <3>1, <3>2 DEF Discarded
  <2>3. CASE x.part = "lf" /\ Len(c) < CMD_CACHE_MAX_LEN
    <3> DEFINE d == Append(c, x)
    <3>1. s = Put(d, x, TRUE)
      BY <2>3 DEF PutCr, PutLf
    <3>2. EndsLine(d) /\ Len(d) = Len(c) + 1 /\ Len(d) \in Nat
      <4> HIDE DEF c
      <4>1. c \in Seq(Bytes)
        BY <1>11 DEF EndsLine
      <4>2. QED
        BY <1>5, <1>9, <1>11, <4>1, EndsLineMore, AppendProperties
    <3> HIDE DEF s, c, d
    <3>3. \/ s.cache = Append(d, x) /\ s.flag = TRUE /\ s.go = TRUE /\ EndsLine(Append(d, x))
          \/ s = Discarded(TRUE) /\ Len(d) >= CMD_CACHE_MAX_LEN
      BY <1>9, <3>1, <3>2, PutEnds
    <3>4. CASE s = Discarded(TRUE) /\ Len(d) >= CMD_CACHE_MAX_LEN
      <4>1. EndLen(b.item) = 2
        BY <1>9, <2>3
      <4>2. Len(cache) + EndLen(b.item) + 1 > CMD_CACHE_MAX_LEN
        BY <1>5, <1>11, <3>2, <3>4, <4>1
      <4>3. s.cache = <<>> /\ s.flag = TRUE /\ s.go = FALSE
        BY <3>4 DEF Discarded
      <4>4. QED
        BY <4>2, <4>3
    <3>5. QED
      BY <3>3, <3>4
  <2>4. QED
    BY <2>1, <2>2, <2>3
<1> HIDE DEF s, c
<1>13. Outcome
  BY <1>4, <1>5, <1>10, <1>12, EndOutcome
<1>14. QED
  BY <1>7, <1>8, <1>13

\* A step of at_parse takes one byte, and has one of three outcomes.
LEMMA ParseMoves ==
  ASSUME ParserTypeOK, TakenInv, ParseByte \/ ParseLf \/ ParseCr
  PROVE  Moved /\ Outcome /\ at = "parse" /\ wrote' = wrote
BY ByteMoves, LfMoves, CrMoves

-----------------------------------------------------------------------------
(* AtParser: the invariant.                                                *)

\* Commands are run in order, each not before its line is taken.
RanInv ==
  /\ \A m, n \in DOMAIN ran : m < n => ran[m] < ran[n]
  /\ \A m \in DOMAIN ran : TextEnd(ran[m]) <= Pos - Len(cache)

\* at_sockw is in the middle of the bytes behind the line of its command.
Handed == script[Last(ran)].data - left

Writing ==
  LET m     == Last(ran)
      first == TextEnd(m) + 1
  IN /\ ran # <<>> /\ Handed \in Nat
     /\ Pos = first + Handed + Len(buf)
     /\ \A n \in 1 .. Len(buf) : buf[n] = Stream[first + Handed + n]
     /\ Len(wrote[m]) = Handed
     /\ \A n \in 1 .. Handed : wrote[m][n] = Stream[first + n]

WroteInv ==
  /\ \A i \in Items : i \notin ToSet(ran) => wrote[i] = <<>>
  /\ at = "write" => Writing
  /\ DataWritten

\* A command whose line fits, behind a line that came to its end.
Good(i) == Fits(i) /\ (i > 1 => script[i - 1].data = 0 /\ i - 1 \notin cut)

\* Until its line ends, the line is what is in the cache; then it was run.
AgainInv ==
  \A i \in Items : Good(i) =>
    /\ Pos \in Start(i) .. TextEnd(i) => at = "parse" /\ ~flag /\ Len(cache) = Pos - Start(i)
    /\ Pos > TextEnd(i) => i \in ToSet(ran)

ParserInv == ParserTypeOK /\ TakenInv /\ RanInv /\ WroteInv /\ AgainInv

\* What does not change, as the script does not.
LEMMA Fixed ==
  ASSUME script' = script
  PROVE  /\ Stream' = Stream /\ Items' = Items /\ Bytes' = Bytes
         /\ \A i : Start(i)' = Start(i) /\ TextEnd(i)' = TextEnd(i)
         /\ \A i : Fits(i)' <=> Fits(i)
<1>1. Stream' = Stream /\ Items' = Items
  BY DEF Stream, Items
<1>2. Bytes' = Bytes
  BY <1>1 DEF Bytes
<1>3. ASSUME NEW i PROVE Start(i)' = Start(i)
  BY DEF Start
<1>4. ASSUME NEW i PROVE TextEnd(i)' = TextEnd(i)
  BY <1>3 DEF TextEnd
<1>5. ASSUME NEW i PROVE Fits(i)' <=> Fits(i)
  BY DEF Fits
<1>6. QED
  BY <1>1, <1>2, <1>3, <1>4, <1>5

\* The place moves on by one.
LEMMA MovedPos ==
  ASSUME ParserTypeOK, TakenInv, Moved
  PROVE  Pos' = Pos + 1 /\ Pos' \in Nat /\ OnStream(Stream, Pos', queue', wire')
<1> DEFINE p == Pos
<1>1. /\ p \in Nat /\ Stream' = Stream /\ Len(Stream) \in Nat
      /\ OnStream(Stream, p + 1, queue', wire')
      /\ Len(queue') \in Nat /\ Len(wire') \in Nat
  BY TakenFacts, Fixed, LenProperties DEF Moved
<1>2. Pos' = Len(Stream) - Len(queue') - Len(wire')
  BY <1>1 DEF Pos
<1> HIDE DEF p
<1>3. p + 1 + Len(queue') + Len(wire') = Len(Stream)
  BY <1>1 DEF OnStream
<1>4. Pos' = p + 1
  BY <1>1, <1>2, <1>3
<1>5. QED
  BY <1>1, <1>4 DEF p


\* A line that is run lies before the bytes taken, behind those run before.
LEMMA RunFactsOf ==
  ASSUME ParserTypeOK, TakenInv, RanInv, NEW i \in Items, NEW p, NEW l,
         \/ p = Pos - Len(cache) /\ l = Len(cache)
         \/ p = Pos /\ l = 1 /\ flag,
         p = Start(i), l = script[i].len
  PROVE  /\ \A m \in DOMAIN ran : ran[m] < i
         /\ i \notin ToSet(ran)
         /\ \/ TextEnd(i) = Pos
            \/ TextEnd(i) = Pos + 1 /\ script[i].data = 0
<1>1. /\ Pos \in Nat /\ Len(cache) \in Nat /\ Len(cache) <= Pos /\ script \in Scripts
      /\ ran \in Seq(Items) /\ (flag => Len(cache) = 0)
  BY TakenFacts DEF TakenInv, ParserTypeOK
<1>2. Start(i) \in Nat /\ script[i].len \in Nat \ {0} /\ TextEnd(i) = Start(i) + script[i].len
  BY <1>1, PlaceOf DEF Place, TextEnd
<1> HIDE DEF Pos
<1>3. Pos - Len(cache) <= Start(i)
  BY <1>1, <1>2
<1>4. \/ TextEnd(i) = Pos
      \/ TextEnd(i) = Pos + 1 /\ script[i].data = 0
  <2>1. CASE p = Pos - Len(cache) /\ l = Len(cache)
    <3>1. Pos - Len(cache) + Len(cache) = Pos
      BY <1>1
    <3>2. QED
      BY <1>2, <2>1, <3>1
  <2>2. CASE p = Pos /\ l = 1 /\ flag
    <3>1. script[i].data = 0
      <4>1. i \in 1 .. Len(script)
        BY DEF Items
      <4>2. script[i].data \in Nat /\ (script[i].data > 0 => script[i].len > 1)
        BY <1>1, <4>1, CmdFacts
      <4>3. ~ (script[i].len > 1)
        BY <2>2
      <4>4. QED
        BY <4>2, <4>3
    <3>2. QED
      BY <1>2, <2>2, <3>1
  <2>3. QED
    BY <2>1, <2>2
<1>5. ASSUME NEW m \in DOMAIN ran PROVE ran[m] < i
  <2>1. ran[m] \in Items
    BY <1>1
  <2> DEFINE J == ran[m]
  <2>2. J \in Items /\ TextEnd(J) <= Pos - Len(cache)
    BY <2>1 DEF RanInv
  <2> HIDE DEF J
  <2>3. /\ Start(J) \in Nat /\ script[J].len \in Nat \ {0} /\ TextEnd(J) = Start(J) + script[J].len
    BY <1>1, <2>2, PlaceOf DEF Place, TextEnd
  <2>4. TextEnd(J) <= Start(i)
    BY <1>1, <1>2, <1>3, <2>2, <2>3
  <2>5. i \in Nat /\ J \in Nat /\ (i < J => Stop(i) <= Start(J))
    BY <1>1, <2>2, StreamFacts
  <2>6. Stop(i) > TextEnd(i) /\ Stop(i) \in Nat /\ TextEnd(i) \in Nat
    BY <1>1, ItemFacts
  <2>7. i # J
    BY <1>2, <2>3, <2>4
  <2>8. ~ (i < J)
    BY <1>2, <2>3, <2>4, <2>5, <2>6, SMTT(30)
  <2>9. J < i
    BY <2>5, <2>7, <2>8
  <2>10. QED
    BY <2>9 DEF J
<1>6. i \notin ToSet(ran)
  <2>1. SUFFICES ASSUME i \in ToSet(ran) PROVE FALSE
    OBVIOUS
  <2>2. PICK m \in DOMAIN ran : ran[m] = i
    BY <2>1 DEF ToSet
  <2>3. i < i /\ i \in Nat
    BY <1>1, <1>5, <2>2, StreamFacts
  <2>4. QED
    BY <2>3
<1>7. QED
  BY <1>4, <1>5, <1>6

\* A step that comes to the end of a line runs no command, or one.
LEMMA EndedFacts ==
  ASSUME ParserTypeOK, TakenInv, RanInv, Ended
  PROVE  /\ cache' = <<>> /\ flag' = FALSE /\ tails' \subseteq Items /\ cut' = cut
         /\ \/ UNCHANGED <<ran, at, left, buf>>
            \/ \E i \in Items :
                 /\ Runs(i) /\ i \notin ToSet(ran)
                 /\ \A m \in DOMAIN ran : ran[m] < i
                 /\ \/ TextEnd(i) = Pos
                    \/ TextEnd(i) = Pos + 1 /\ script[i].data = 0
<1>1. PICK p, l : /\ RanLine(p, l) /\ cut' = cut
                  /\ \/ p = Pos - Len(cache) /\ l = Len(cache)
                     \/ p = Pos /\ l = 1 /\ flag
  <2> HIDE DEF Pos
  <2>1. QED
    BY DEF Ended
<1>2. cache' = <<>> /\ flag' = FALSE /\ tails' \subseteq Items
  BY <1>1 DEF RanLine
<1>3. CASE UNCHANGED <<ran, at, left, buf>>
  BY <1>1, <1>2, <1>3
<1>4. CASE \E i \in Items : p = Start(i) /\ l = script[i].len /\ Runs(i)
  <2>1. PICK i \in Items : p = Start(i) /\ l = script[i].len /\ Runs(i)
    BY <1>4
  <2> HIDE DEF Pos
  <2>2. /\ \A m \in DOMAIN ran : ran[m] < i
        /\ i \notin ToSet(ran)
        /\ \/ TextEnd(i) = Pos
           \/ TextEnd(i) = Pos + 1 /\ script[i].data = 0
    BY <1>1, <2>1, RunFactsOf
  <2>3. QED
    BY <1>1, <1>2, <2>1, <2>2
<1>5. QED
  BY <1>1, <1>3, <1>4 DEF RanLine

\* A step of at_parse that takes a byte.
Parsed == Moved /\ Outcome /\ at = "parse" /\ wrote' = wrote

\* The byte taken is one.
LEMMA NextType ==
  ASSUME ParserTypeOK, TakenInv, Parsed
  PROVE  NextByte \in Bytes
<1>1. Pos + 1 \in 1 .. Len(Stream) /\ Stream \in Seq(Bytes)
  BY TakenFacts DEF Parsed, Moved
<1> HIDE DEF Pos
<1>2. Stream[Pos + 1] \in Bytes
  BY <1>1, ElementOfSeq
<1>3. QED
  BY <1>2 DEF NextByte

\* What every such step does, whatever it comes to.
LEMMA ParsedFacts ==
  ASSUME ParserTypeOK, TakenInv, RanInv, Parsed
  PROVE  /\ \/ UNCHANGED <<ran, at, left, buf>>
            \/ \E i \in Items :
                 /\ Runs(i) /\ i \notin ToSet(ran)
                 /\ \A m \in DOMAIN ran : ran[m] < i
                 /\ \/ TextEnd(i) = Pos
                    \/ TextEnd(i) = Pos + 1 /\ script[i].data = 0
                 /\ cache' = <<>>
         /\ tails' \subseteq Items /\ cut \subseteq cut' /\ cut' \subseteq Items
         /\ \/ Kept \/ cache' = <<>>
<1>1. tails \subseteq Items /\ cut \subseteq Items
  BY DEF ParserTypeOK
<1>2. CASE Kept
  BY <1>1, <1>2 DEF Kept
<1>3. CASE Dropped
  <2>1. NextByte.item \in Items
    BY NextType DEF Bytes
  <2> HIDE DEF NextByte
  <2>2. QED
    BY <1>1, <1>3, <2>1 DEF Dropped
<1>4. CASE Ended
  <2>1. /\ cache' = <<>> /\ tails' \subseteq Items /\ cut' = cut
        /\ \/ UNCHANGED <<ran, at, left, buf>>
           \/ \E i \in Items :
                /\ Runs(i) /\ i \notin ToSet(ran)
                /\ \A m \in DOMAIN ran : ran[m] < i
                /\ \/ TextEnd(i) = Pos
                   \/ TextEnd(i) = Pos + 1 /\ script[i].data = 0
    BY <1>4, EndedFacts
  <2> HIDE DEF Pos
  <2>2. QED
    BY <1>1, <2>1
<1>5. QED
  BY <1>2, <1>3, <1>4 DEF Parsed, Outcome

\* Such a step keeps the types: the cache and the buffer hold what they may.
LEMMA ParsedType ==
  ASSUME ParserTypeOK, TakenInv, RanInv, Parsed
  PROVE  ParserTypeOK'
<1>1. script' = script /\ script \in Scripts
  BY DEF Parsed, Moved, TakenInv
<1>2. Items' = Items /\ Bytes' = Bytes
  BY <1>1, Fixed
<1>3. queue' \in Seq(Bytes) /\ wire' \in Seq(Bytes) /\ Len(queue') <= WinSize
  BY DEF Parsed, Moved
<1>4. /\ CMD_CACHE_MAX_LEN \in Nat /\ BufferSize \in Nat /\ Len(cache) \in Nat /\ cache \in Seq(Bytes)
      /\ left \in Nat /\ buf \in Seq(Bytes) /\ Len(buf) <= Chunk /\ ran \in Seq(Items)
      /\ at = "parse" /\ left = 0 /\ flag \in BOOLEAN /\ (flag => cache = <<>>)
      /\ wrote \in [Items -> Seq(Bytes)]
  BY TakenFacts, AtParserAssumption DEF ParserTypeOK, AtParserAssumption, Parsed
<1>5. cache' \in Seq(Bytes) /\ Len(cache') <= CMD_CACHE_MAX_LEN
  <2>1. CASE cache' = <<>>
    <3>1. <<>> \in Seq(Bytes) /\ Len(<<>>) = 0
      OBVIOUS
    <3>2. QED
      BY <1>4, <2>1, <3>1
  <2>2. CASE Kept
    <3>1. NextByte \in Bytes
      BY NextType
    <3>2. cache' = Append(cache, NextByte) /\ Len(cache) < CMD_CACHE_MAX_LEN
      BY <2>2 DEF Kept
    <3> HIDE DEF NextByte
    <3>3. cache' \in Seq(Bytes) /\ Len(cache') = Len(cache) + 1
      BY <1>4, <3>1, <3>2, AppendProperties
    <3>4. QED
      BY <1>4, <3>2, <3>3
  <2>3. QED
    BY <2>1, <2>2, ParsedFacts
<1>6. flag' \in BOOLEAN /\ (flag' => cache' = <<>>)
  <2>1. CASE Kept
    BY <1>4, <2>1 DEF Kept
  <2>2. CASE Dropped
    BY <2>2 DEF Dropped
  <2>3. CASE Ended
    BY <2>3, EndedFacts
  <2>4. QED
    BY <2>1, <2>2, <2>3 DEF Parsed, Outcome
<1>7. /\ at' \in {"parse", "write"} /\ (at' = "write" <=> left' > 0)
      /\ left' \in Nat /\ buf' \in Seq(Bytes) /\ Len(buf') <= Chunk'
      /\ ran' \in Seq(Items)
  <2>1. CASE UNCHANGED <<ran, at, left, buf>>
    <3>1. Chunk' = Chunk
      BY <2>1 DEF Chunk
    <3>2. ~ (0 > 0)
      OBVIOUS
    <3>3. QED
      BY <1>4, <2>1, <3>1, <3>2
  <2>2. ASSUME NEW i \in Items, Runs(i)
        PROVE  /\ at' \in {"parse", "write"} /\ (at' = "write" <=> left' > 0)
               /\ left' \in Nat /\ buf' \in Seq(Bytes) /\ Len(buf') <= Chunk'
               /\ ran' \in Seq(Items)
    <3>1. ran' \in Seq(Items)
      BY <1>4, <2>2, AppendProperties DEF Runs
    <3>2. script[i].data \in Nat
      BY <1>1, ItemFacts
    <3>3. CASE script[i].data > 0
      <4>1. at' = "write" /\ buf' = <<>> /\ left' = script[i].data
        BY <2>2, <3>3 DEF Runs
      <4>2. Chunk' \in Nat
        BY <1>4, <3>2, <4>1 DEF Chunk
      <4>3. buf' \in Seq(Bytes) /\ Len(buf') = 0
        BY <4>1
      <4>4. QED
        BY <3>1, <3>2, <3>3, <4>1, <4>2, <4>3
    <3>4. CASE ~ (script[i].data > 0)
      <4>1. UNCHANGED <<at, left, buf>>
        BY <2>2, <3>4 DEF Runs
      <4>2. Chunk' = Chunk
        BY <4>1 DEF Chunk
      <4>3. ~ (0 > 0)
        OBVIOUS
      <4>4. QED
        BY <1>4, <3>1, <4>1, <4>2, <4>3
    <3>5. QED
      BY <3>3, <3>4
  <2>3. \/ UNCHANGED <<ran, at, left, buf>>
        \/ \E i \in Items : Runs(i)
    <3> HIDE DEF Pos
    <3>1. QED
      BY ParsedFacts
  <2>4. QED
    BY <2>1, <2>2, <2>3
<1>8. tails' \subseteq Items /\ cut' \subseteq Items
  BY ParsedFacts
<1>9. wrote' = wrote
  BY DEF Parsed
<1>10. QED
  BY <1>2, <1>3, <1>4, <1>5, <1>6, <1>7, <1>8, <1>9 DEF ParserTypeOK

\* It keeps the cache the last of the bytes taken.
LEMMA ParsedTaken ==
  ASSUME ParserTypeOK, TakenInv, RanInv, Parsed
  PROVE  TakenInv'
<1>1. /\ script' = script /\ script \in Scripts /\ Stream' = Stream
      /\ Pos' = Pos + 1 /\ Pos' \in Nat /\ OnStream(Stream, Pos', queue', wire')
  BY MovedPos, Fixed DEF Parsed, Moved, TakenInv
<1>2. /\ Pos \in Nat /\ Len(cache) \in Nat /\ Len(cache) <= Pos /\ cache \in Seq(Bytes)
      /\ \A n \in 1 .. Len(cache) : cache[n] = Stream[Pos - Len(cache) + n] /\ ~IsEnd(cache[n])
  BY TakenFacts DEF ParserTypeOK
<1>3. CASE cache' = <<>>
  <2>1. Len(cache') = 0 /\ \A n \in 1 .. 0 : FALSE
    BY <1>3
  <2>2. Len(cache') <= Pos'
    BY <1>1, <2>1
  <2> HIDE DEF Pos
  <2>3. QED
    BY <1>1, <1>3, <2>1, <2>2 DEF TakenInv
<1>4. CASE Kept
  <2>1. cache' = Append(cache, NextByte) /\ ~IsEnd(NextByte) /\ at' = at /\ at = "parse"
    BY <1>4 DEF Kept, Parsed
  <2>2. NextByte \in Bytes
    BY NextType
  <2>3. NextByte = Stream[Pos + 1]
    BY DEF NextByte
  <2> DEFINE d == cache'
  <2> HIDE DEF NextByte
  <2>4. /\ Len(d) = Len(cache) + 1 /\ d[Len(cache) + 1] = NextByte
        /\ \A n \in 1 .. Len(cache) : d[n] = cache[n]
    BY <1>2, <2>1, <2>2, AppendProperties
  <2> HIDE DEF d
  <2> DEFINE P == Pos
             P1 == Pos'
  <2>5. P1 = P + 1 /\ P \in Nat /\ Len(cache) \in Nat /\ Len(cache) <= P
    BY <1>1, <1>2
  <2>6. /\ \A n \in 1 .. Len(cache) : cache[n] = Stream[P - Len(cache) + n] /\ ~IsEnd(cache[n])
        /\ NextByte = Stream[P + 1]
    BY <1>2, <2>3
  <2> HIDE DEF P, P1
  <2>7. Len(d) <= P1
    BY <2>4, <2>5
  <2>8. ASSUME NEW n \in 1 .. Len(d) PROVE d[n] = Stream[P1 - Len(d) + n] /\ ~IsEnd(d[n])
    <3>1. CASE n = Len(cache) + 1
      <4>1. P1 - Len(d) + n = P + 1
        BY <2>4, <2>5, <3>1
      <4>2. QED
        BY <2>1, <2>4, <2>6, <3>1, <4>1
    <3>2. CASE n # Len(cache) + 1
      <4>1. n \in 1 .. Len(cache) /\ P1 - Len(d) + n = P - Len(cache) + n
        BY <2>4, <2>5, <3>2
      <4>2. QED
        BY <2>4, <2>6, <4>1
    <3>3. QED
      BY <3>1, <3>2
  <2>9. at' # "write"
    BY <2>1
  <2>10. QED
    BY <1>1, <2>7, <2>8, <2>9 DEF TakenInv, d, P1
<1>5. QED
  BY <1>3, <1>4, ParsedFacts

\* One command more was run.
LEMMA AppendRan ==
  ASSUME ran \in Seq(Items), NEW i \in Items, ran' = Append(ran, i)
  PROVE  /\ Len(ran) \in Nat /\ Len(ran') = Len(ran) + 1 /\ ran' # <<>>
         /\ DOMAIN ran = 1 .. Len(ran) /\ DOMAIN ran' = 1 .. Len(ran) + 1
         /\ \A m \in 1 .. Len(ran) : ran'[m] = ran[m]
         /\ ran'[Len(ran) + 1] = i /\ Last(ran') = i
         /\ ToSet(ran') = ToSet(ran) \cup {i}
<1> DEFINE r == ran'
<1>1. /\ Len(ran) \in Nat /\ DOMAIN ran = 1 .. Len(ran)
      /\ r \in Seq(Items) /\ Len(r) = Len(ran) + 1
      /\ \A m \in 1 .. Len(ran) : r[m] = ran[m]
      /\ r[Len(ran) + 1] = i
  BY LenProperties, AppendProperties
<1> HIDE DEF r
<1>2. DOMAIN r = 1 .. Len(ran) + 1 /\ r # <<>> /\ Last(r) = i
  BY <1>1, LenProperties, EmptySeq DEF Last
<1>3. ToSet(r) = ToSet(ran) \cup {i}
  <2>1. ASSUME NEW x \in ToSet(r) PROVE x \in ToSet(ran) \cup {i}
    <3>1. PICK m \in 1 .. Len(ran) + 1 : x = r[m]
      BY <1>2, <2>1 DEF ToSet
    <3>2. CASE m = Len(ran) + 1
      BY <1>1, <3>1, <3>2
    <3>3. CASE m # Len(ran) + 1
      <4>1. m \in 1 .. Len(ran)
        BY <1>1, <3>3
      <4>2. QED
        BY <1>1, <3>1, <4>1 DEF ToSet
    <3>4. QED
      BY <3>2, <3>3
  <2>2. i \in ToSet(r)
    <3>1. Len(ran) + 1 \in DOMAIN r
      BY <1>1, <1>2
    <3>2. QED
      BY <1>1, <3>1 DEF ToSet
  <2>3. ASSUME NEW x \in ToSet(ran) PROVE x \in ToSet(r)
    <3>1. PICK m \in 1 .. Len(ran) : x = ran[m]
      BY <1>1, <2>3 DEF ToSet
    <3>2. m \in DOMAIN r /\ r[m] = x
      BY <1>1, <1>2, <3>1
    <3>3. QED
      BY <3>2 DEF ToSet
  <2>4. QED
    BY <2>1, <2>2, <2>3
<1>4. QED
  BY <1>1, <1>2, <1>3 DEF r

\* RanInv, when no command is run and when one is.
LEMMA RanSame ==
  ASSUME ParserTypeOK, RanInv, ran' = ran, script' = script,
         NEW P \in Nat, P <= Pos' - Len(cache'), Pos - Len(cache) <= P,
         Pos - Len(cache) \in Nat, Pos' - Len(cache') \in Nat, script \in Scripts
  PROVE  RanInv'
<1> DEFINE x == Pos - Len(cache)
           y == Pos' - Len(cache')
<1>1. /\ x \in Nat /\ y \in Nat /\ x <= P /\ P <= y
      /\ \A m \in DOMAIN ran : TextEnd(ran[m]) <= x
      /\ \A m, n \in DOMAIN ran : m < n => ran[m] < ran[n]
  BY DEF RanInv
<1>2. ran \in Seq(Items)
  BY DEF ParserTypeOK
<1> HIDE DEF x, y
<1>3. ASSUME NEW m \in DOMAIN ran PROVE TextEnd(ran[m]) <= y
  <2>1. ran[m] \in Items
    BY <1>2
  <2>2. TextEnd(ran[m]) \in Nat
    BY <2>1, ItemFacts
  <2>3. TextEnd(ran[m]) <= x
    BY <1>1
  <2>4. QED
    BY <1>1, <2>2, <2>3
<1>4. \A i : TextEnd(i)' = TextEnd(i)
  BY Fixed
<1>5. QED
  BY <1>1, <1>3, <1>4 DEF RanInv, y

\* It runs commands in order: the line run lies behind those run before.
LEMMA ParsedRan ==
  ASSUME ParserTypeOK, TakenInv, RanInv, Parsed
  PROVE  RanInv'
<1>1. /\ script' = script /\ script \in Scripts
      /\ Pos' = Pos + 1 /\ Pos' \in Nat
      /\ Pos \in Nat /\ Len(cache) \in Nat /\ Len(cache) <= Pos
      /\ ran \in Seq(Items) /\ cache \in Seq(Bytes)
  BY MovedPos, TakenFacts DEF Parsed, Moved, TakenInv, ParserTypeOK
<1>2. Pos - Len(cache) <= Pos' - Len(cache') /\ Pos' - Len(cache') \in Nat
  <2>1. CASE Kept
    <3>1. NextByte \in Bytes
      BY NextType
    <3>2. cache' = Append(cache, NextByte)
      BY <2>1 DEF Kept
    <3> HIDE DEF NextByte
    <3>3. Len(cache') = Len(cache) + 1
      BY <1>1, <3>1, <3>2, AppendProperties
    <3> HIDE DEF Pos
    <3>4. QED
      BY <1>1, <3>3
  <2>2. CASE cache' = <<>>
    <3>1. Len(cache') = 0
      BY <2>2
    <3> HIDE DEF Pos
    <3>2. QED
      BY <1>1, <3>1
  <2>3. QED
    BY <2>1, <2>2, ParsedFacts
<1>3. Pos - Len(cache) \in Nat
  <2> HIDE DEF Pos
  <2>1. QED
    BY <1>1
<1> HIDE DEF Pos
<1>4. CASE UNCHANGED <<ran, at, left, buf>>
  <2>1. Pos - Len(cache) <= Pos - Len(cache)
    BY <1>3
  <2>2. QED
    BY <1>1, <1>2, <1>3, <1>4, <2>1, RanSame
<1>5. ASSUME NEW i \in Items, Runs(i), \A m \in DOMAIN ran : ran[m] < i, cache' = <<>>,
             TextEnd(i) = Pos \/ TextEnd(i) = Pos + 1
      PROVE  RanInv'
  <2>1. /\ Len(ran) \in Nat
        /\ DOMAIN ran = 1 .. Len(ran) /\ DOMAIN ran' = 1 .. Len(ran) + 1
        /\ \A m \in 1 .. Len(ran) : ran'[m] = ran[m]
        /\ ran'[Len(ran) + 1] = i
    BY <1>1, <1>5, AppendRan DEF Runs
  <2> DEFINE r == ran'
             y == Pos' - Len(cache')
             x == Pos - Len(cache)
  <2>2. y = Pos + 1 /\ x \in Nat /\ y \in Nat /\ x <= y
    <3>1. Len(cache') = 0
      BY <1>5
    <3>2. QED
      BY <1>1, <1>2, <3>1
  <2>3. TextEnd(i) <= y
    BY <1>1, <1>5, <2>2
  <2>4. \A m \in 1 .. Len(ran) : TextEnd(ran[m]) <= x /\ ran[m] \in Items
    BY <1>1, <2>1 DEF RanInv
  <2> HIDE DEF r, x, y
  <2>5. ASSUME NEW m \in DOMAIN r PROVE TextEnd(r[m]) <= y
    <3>1. CASE m = Len(ran) + 1
      BY <2>1, <2>3, <3>1 DEF r
    <3>2. CASE m # Len(ran) + 1
      <4>1. m \in 1 .. Len(ran) /\ r[m] = ran[m]
        BY <2>1, <3>2 DEF r
      <4>2. TextEnd(ran[m]) \in Nat /\ TextEnd(ran[m]) <= x
        BY <1>1, <2>4, <4>1, ItemFacts
      <4>3. QED
        BY <2>2, <4>1, <4>2
    <3>3. QED
      BY <3>1, <3>2
  <2>6. ASSUME NEW m \in DOMAIN r, NEW n \in DOMAIN r, m < n PROVE r[m] < r[n]
    <3>1. m \in 1 .. Len(ran) /\ r[m] = ran[m]
      BY <2>1, <2>6 DEF r
    <3>2. CASE n = Len(ran) + 1
      BY <1>5, <2>1, <3>1, <3>2 DEF r
    <3>3. CASE n # Len(ran) + 1
      <4>1. n \in 1 .. Len(ran) /\ r[n] = ran[n]
        BY <2>1, <3>3 DEF r
      <4>2. QED
        BY <2>1, <2>6, <3>1, <4>1 DEF RanInv
    <3>4. QED
      BY <3>2, <3>3
  <2>7. \A l : TextEnd(l)' = TextEnd(l)
    BY <1>1, Fixed
  <2>8. QED
    BY <2>5, <2>6, <2>7 DEF RanInv, r, y
<1>6. QED
  BY <1>4, <1>5, ParsedFacts

\* Nothing is written by at_parse; a command that has bytes behind its line
\* finds them next.
LEMMA ParsedWrite ==
  ASSUME ParserTypeOK, TakenInv, RanInv, WroteInv, Parsed
  PROVE  WroteInv'
<1>1. /\ script' = script /\ script \in Scripts /\ Items' = Items
      /\ Pos' = Pos + 1 /\ Pos \in Nat /\ wrote' = wrote /\ at = "parse" /\ ran \in Seq(Items)
      /\ \A i : TextEnd(i)' = TextEnd(i)
  BY MovedPos, TakenFacts, Fixed DEF Parsed, Moved, TakenInv, ParserTypeOK
<1>2. DataWritten'
  BY <1>1 DEF WroteInv, DataWritten
<1> HIDE DEF Pos
<1>3. CASE UNCHANGED <<ran, at, left, buf>>
  BY <1>1, <1>2, <1>3 DEF WroteInv
<1>4. ASSUME NEW i \in Items, Runs(i), i \notin ToSet(ran),
             \/ TextEnd(i) = Pos
             \/ TextEnd(i) = Pos + 1 /\ script[i].data = 0
      PROVE  WroteInv'
  <2>1. ran' # <<>> /\ Last(ran') = i /\ ToSet(ran') = ToSet(ran) \cup {i}
    BY <1>1, <1>4, AppendRan DEF Runs
  <2>2. \A l \in Items' : l \notin ToSet(ran)' => wrote'[l] = <<>>
    BY <1>1, <2>1 DEF WroteInv
  <2>3. ASSUME at' = "write" PROVE Writing'
    <3>1. script[i].data > 0 /\ buf' = <<>> /\ left' = script[i].data
      BY <1>1, <1>4, <2>3 DEF Runs
    <3>2. script[i].data \in Nat /\ TextEnd(i) \in Nat /\ TextEnd(i) = Pos
      <4>1. script[i].data \in Nat /\ TextEnd(i) \in Nat
        BY <1>1, ItemFacts
      <4>2. QED
        BY <1>4, <3>1, <4>1
    <3>3. Handed' = 0
      BY <1>1, <2>1, <3>1, <3>2 DEF Handed
    <3>4. Pos' = TextEnd(i) + 1 + 0 + Len(buf') /\ \A n \in 1 .. Len(buf') : FALSE
      <4>1. Len(buf') = 0
        BY <3>1
      <4>2. QED
        BY <1>1, <3>2, <4>1
    <3>5. wrote'[i] = <<>>
      BY <1>1, <1>4 DEF WroteInv
    <3>6. Len(wrote'[i]) = 0 /\ \A n \in 1 .. 0 : FALSE
      BY <3>5
    <3>7. TextEnd(Last(ran))' = TextEnd(i)
      <4>1. TextEnd(Last(ran))' = Starts(script')[Last(ran')] + script'[Last(ran')].len
        BY DEF TextEnd, Start
      <4>2. QED
        BY <1>1, <2>1, <4>1 DEF TextEnd, Start
    <3>8. QED
      BY <2>1, <3>3, <3>4, <3>6, <3>7 DEF Writing
  <2>4. QED
    BY <1>2, <2>2, <2>3 DEF WroteInv
<1>5. QED
  BY <1>3, <1>4, ParsedFacts

\* The byte at which the next command's line would begin is the last of the end
\* of the one before, if nothing follows that.
LEMMA LastOfEnd ==
  ASSUME ParserTypeOK, TakenInv, NEW i \in Items, i > 1, script[i - 1].data = 0,
         Pos + 1 = Start(i)
  PROVE  /\ i - 1 \in Items /\ IsEnd(NextByte) /\ NextByte.item = i - 1
         /\ Pos + 1 = Stop(i - 1) /\ Pos + 1 > Start(i - 1)
<1> DEFINE l == i - 1
           P == Pos
<1>1. script \in Scripts /\ P \in Nat /\ l \in Items /\ Start(i) = Stop(l) /\ script[l].data = 0
  BY TakenFacts, StreamFacts DEF TakenInv
<1>2. P + 1 = Stop(l) /\ NextByte = Stream[P + 1]
  BY <1>1 DEF NextByte
<1> HIDE DEF l, P
<1>3. /\ TextEnd(l) \in Nat /\ Start(l) \in Nat /\ TextEnd(l) > Start(l) /\ EndLen(l) \in 1 .. 2
      /\ Stop(l) = TextEnd(l) + EndLen(l) + 0
  BY <1>1, ItemFacts
<1>4. Place(l)
  BY <1>1, PlaceOf
<1>5. IsEnd(Stream[P + 1]) /\ Stream[P + 1].item = l
  <2>1. CASE EndLen(l) = 1
    <3>1. P + 1 = TextEnd(l) + 1
      BY <1>2, <1>3, <2>1
    <3>2. Stream[P + 1] = Byte(l, IF script[l].end = "lf" THEN "lf" ELSE "cr", 1)
      BY <1>4, <3>1 DEF Place
    <3>3. QED
      BY <3>2 DEF Byte, IsEnd
  <2>2. CASE EndLen(l) = 2
    <3>1. P + 1 = TextEnd(l) + 2
      BY <1>2, <1>3, <2>2
    <3>2. Stream[P + 1] = Byte(l, "lf", 2)
      BY <1>4, <2>2, <3>1 DEF Place
    <3>3. QED
      BY <3>2 DEF Byte, IsEnd
  <2>3. QED
    BY <1>3, <2>1, <2>2
<1>6. P + 1 > Start(l)
  BY <1>2, <1>3
<1>7. QED
  BY <1>1, <1>2, <1>5, <1>6 DEF l, P

\* The byte behind a text is the end of its line, and none in it is.
LEMMA TextBytes ==
  ASSUME ParserTypeOK, TakenInv, NEW i \in Items, Pos \in Start(i) .. TextEnd(i)
  PROVE  /\ Pos = TextEnd(i) => IsEnd(NextByte) /\ NextByte.item = i
         /\ Pos # TextEnd(i) => ~IsEnd(NextByte)
<1> DEFINE P == Pos
<1>1. /\ script \in Scripts /\ P \in Nat /\ NextByte = Stream[P + 1]
      /\ P \in Start(i) .. TextEnd(i)
  BY TakenFacts DEF TakenInv, NextByte
<1> HIDE DEF P
<1>2. /\ TextEnd(i) \in Nat /\ Start(i) \in Nat /\ TextEnd(i) = Start(i) + script[i].len
      /\ script[i].len \in Nat
  BY <1>1, ItemFacts
<1>3. Place(i)
  BY <1>1, PlaceOf
<1>4. CASE P = TextEnd(i)
  <2>1. Stream[P + 1] = Byte(i, IF script[i].end = "lf" THEN "lf" ELSE "cr", 1)
    BY <1>3, <1>4 DEF Place
  <2>2. QED
    BY <1>1, <1>4, <2>1 DEF Byte, IsEnd, P
<1>5. CASE P # TextEnd(i)
  <2>1. P + 1 - Start(i) \in 1 .. script[i].len /\ Start(i) + (P + 1 - Start(i)) = P + 1
    BY <1>1, <1>2, <1>5
  <2>2. Stream[P + 1] = Byte(i, "char", P + 1 - Start(i))
    <3>1. Stream[Start(i) + (P + 1 - Start(i))] = Byte(i, "char", P + 1 - Start(i))
      BY <1>3, <2>1 DEF Place
    <3>2. QED
      BY <2>1, <3>1
  <2>3. QED
    BY <1>1, <1>5, <2>2 DEF Byte, IsEnd, P
<1>6. QED
  BY <1>4, <1>5

\* What fits, does.
LEMMA FitsFacts ==
  ASSUME script \in Scripts, NEW i \in Items, Fits(i)
  PROVE  script[i].len + EndLen(i) + 1 <= CMD_CACHE_MAX_LEN
<1>1. i \in 1 .. Len(script) /\ script \in Seq(Cmds)
  BY CmdFacts DEF Items
<1>2. script[i] \in Cmds
  BY <1>1, ElementOfSeq
<1>3. Len(End(i, script[i])) = EndLen(i)
  BY <1>2, EndFacts DEF EndLen
<1>4. QED
  BY <1>3 DEF Fits

\* At the end of the line of a command that fits, that command is run.
LEMMA RunsAtEnd ==
  ASSUME ParserTypeOK, TakenInv, RanInv, Parsed, NEW i \in Items, Fits(i),
         Pos = TextEnd(i), ~flag, Len(cache) = Pos - Start(i)
  PROVE  i \in ToSet(ran')
<1> DEFINE P == Pos
<1>1. /\ script \in Scripts /\ P \in Nat /\ P = TextEnd(i) /\ Len(cache) \in Nat
      /\ CMD_CACHE_MAX_LEN \in Nat /\ Len(cache) = P - Start(i) /\ ran \in Seq(Items)
  BY TakenFacts DEF TakenInv, ParserTypeOK
<1>2. /\ TextEnd(i) \in Nat /\ Start(i) \in Nat /\ script[i].len \in Nat \ {0} /\ EndLen(i) \in Nat
      /\ TextEnd(i) = Start(i) + script[i].len /\ Stop(i) > TextEnd(i) /\ Stop(i) \in Nat
  BY <1>1, ItemFacts
<1>3. IsEnd(NextByte) /\ NextByte.item = i
  <2>1. P \in Start(i) .. TextEnd(i)
    <3> HIDE DEF P
    <3>1. QED
      BY <1>1, <1>2
  <2>2. QED
    BY <1>1, <2>1, TextBytes
<1> HIDE DEF P
<1>4. Len(cache) = script[i].len /\ P - Len(cache) = Start(i)
  BY <1>1, <1>2
<1>5. ~ Kept
  BY <1>3 DEF Kept
<1>6. ~ Dropped
  <2>1. SUFFICES ASSUME Dropped PROVE FALSE
    OBVIOUS
  <2>2. Len(cache) + EndLen(NextByte.item) + 1 > CMD_CACHE_MAX_LEN
    BY <1>3, <2>1 DEF Dropped
  <2>3. script[i].len + EndLen(i) + 1 <= CMD_CACHE_MAX_LEN
    BY <1>1, FitsFacts
  <2>4. script[i].len + EndLen(i) + 1 > CMD_CACHE_MAX_LEN
    BY <1>3, <1>4, <2>2
  <2> DEFINE x == script[i].len + EndLen(i) + 1
  <2>5. x \in Nat
    BY <1>2
  <2>6. x <= CMD_CACHE_MAX_LEN /\ x > CMD_CACHE_MAX_LEN
    BY <2>3, <2>4, Zenon
  <2> HIDE DEF x
  <2>7. QED
    BY <1>1, <2>5, <2>6
<1>7. RanLine(P - Len(cache), Len(cache))
  <2>1. Ended
    BY <1>5, <1>6 DEF Parsed, Outcome
  <2>2. QED
    BY <1>3, <2>1 DEF Ended, P
<1>8. PICK J \in Items : P - Len(cache) = Start(J) /\ Len(cache) = script[J].len /\ Runs(J)
  BY <1>4, <1>7 DEF RanLine
<1>9. J = i
  <2>1. /\ Start(J) = Start(i) /\ TextEnd(J) \in Nat /\ Stop(J) \in Nat /\ Stop(J) > TextEnd(J)
        /\ TextEnd(J) > Start(J) /\ Stop(i) > TextEnd(i) /\ TextEnd(i) > Start(i)
    BY <1>1, <1>4, <1>8, ItemFacts
  <2> DEFINE p == Start(i) + 1
  <2>2. p \in Nat /\ p > Start(i) /\ p <= Stop(i) /\ p > Start(J) /\ p <= Stop(J)
    BY <1>2, <2>1
  <2> HIDE DEF p
  <2>3. QED
    BY <1>1, <2>2, OneItem
<1>10. QED
  BY <1>1, <1>8, <1>9, AppendRan DEF Runs

\* A command that has bytes behind its line is run with its end, not before.
LEMMA ParsedAgain ==
  ASSUME ParserTypeOK, TakenInv, RanInv, AgainInv, Parsed
  PROVE  AgainInv'
<1> DEFINE P == Pos
           P1 == Pos'
<1>1. /\ script' = script /\ script \in Scripts /\ Items' = Items
      /\ P1 = P + 1 /\ P \in Nat /\ at = "parse" /\ ran \in Seq(Items)
      /\ Len(cache) \in Nat /\ CMD_CACHE_MAX_LEN \in Nat /\ cache \in Seq(Bytes)
      /\ cut \subseteq cut' /\ flag \in BOOLEAN
  <2>1. Items' = Items /\ script' = script
    BY Fixed DEF Parsed, Moved
  <2>2. cut \subseteq cut'
    <3> HIDE DEF P, P1
    <3>1. QED
      BY ParsedFacts
  <2>3. P1 = P + 1 /\ P \in Nat /\ Len(cache) \in Nat /\ CMD_CACHE_MAX_LEN \in Nat
    BY MovedPos, TakenFacts DEF Parsed
  <2> HIDE DEF P, P1
  <2>4. /\ script \in Scripts /\ at = "parse" /\ ran \in Seq(Items) /\ cache \in Seq(Bytes)
        /\ flag \in BOOLEAN
    BY DEF Parsed, TakenInv, ParserTypeOK
  <2>5. QED
    BY <2>1, <2>2, <2>3, <2>4
<1>2. \A i : Start(i)' = Start(i) /\ TextEnd(i)' = TextEnd(i) /\ (Fits(i)' <=> Fits(i))
  BY <1>1, Fixed
<1>3. ToSet(ran) \subseteq ToSet(ran')
  <2>1. CASE UNCHANGED <<ran, at, left, buf>>
    BY <2>1
  <2>2. ASSUME NEW i \in Items, Runs(i) PROVE ToSet(ran) \subseteq ToSet(ran')
    BY <1>1, <2>2, AppendRan DEF Runs
  <2> HIDE DEF P
  <2>3. \/ UNCHANGED <<ran, at, left, buf>>
        \/ \E i \in Items : Runs(i)
    BY ParsedFacts
  <2>4. QED
    BY <2>1, <2>2, <2>3
<1>4. ASSUME NEW i \in Items, Good(i)'
      PROVE  /\ P1 \in Start(i) .. TextEnd(i) => at' = "parse" /\ ~flag' /\ Len(cache') = P1 - Start(i)
             /\ P1 > TextEnd(i) => i \in ToSet(ran')
  <2>1. /\ Fits(i) /\ (i > 1 => script[i - 1].data = 0 /\ i - 1 \notin cut')
    BY <1>1, <1>2, <1>4 DEF Good
  <2>2. Good(i)
    BY <1>1, <2>1 DEF Good
  <2>3. /\ P \in Start(i) .. TextEnd(i) => at = "parse" /\ ~flag /\ Len(cache) = P - Start(i)
        /\ P > TextEnd(i) => i \in ToSet(ran)
    BY <2>2 DEF AgainInv
  <2>4. /\ Start(i) \in Nat /\ TextEnd(i) \in Nat /\ TextEnd(i) = Start(i) + script[i].len
        /\ script[i].len \in Nat /\ EndLen(i) \in Nat /\ i \in Nat
    BY <1>1, ItemFacts
  <2>5. ASSUME P1 > TextEnd(i) PROVE i \in ToSet(ran')
    <3>1. CASE P > TextEnd(i)
      BY <1>3, <2>3, <3>1
    <3>2. CASE ~ (P > TextEnd(i))
      <4>1. P = TextEnd(i) /\ P \in Start(i) .. TextEnd(i)
        <5> HIDE DEF P, P1
        <5>1. QED
          BY <1>1, <2>4, <2>5, <3>2
      <4>2. ~flag /\ Len(cache) = P - Start(i)
        BY <2>3, <4>1
      <4>3. QED
        BY <2>1, <4>1, <4>2, RunsAtEnd
    <3>3. QED
      BY <3>1, <3>2
  <2>6. ASSUME P1 \in Start(i) .. TextEnd(i), P >= Start(i)
        PROVE  at' = "parse" /\ ~flag' /\ Len(cache') = P1 - Start(i)
    <3>1. P \in Start(i) .. TextEnd(i) /\ P # TextEnd(i)
      <4> HIDE DEF P, P1
      <4>1. QED
        BY <1>1, <2>4, <2>6
    <3>2. ~flag /\ Len(cache) = P - Start(i)
      BY <2>3, <3>1
    <3>3. ~IsEnd(NextByte)
      BY <3>1, TextBytes
    <3> HIDE DEF NextByte
    <3>4. ~ Dropped
      <4>1. SUFFICES ASSUME Dropped PROVE FALSE
        OBVIOUS
      <4>2. Len(cache) >= CMD_CACHE_MAX_LEN
        BY <3>3, <4>1 DEF Dropped
      <4>3. script[i].len + EndLen(i) + 1 <= CMD_CACHE_MAX_LEN
        BY <1>1, <2>1, FitsFacts
      <4> HIDE DEF P, P1
      <4>4. Len(cache) < script[i].len
        BY <1>1, <2>4, <3>1, <3>2
      <4>5. QED
        BY <1>1, <2>4, <4>2, <4>3, <4>4
    <3>5. ~ Ended
      BY <3>2, <3>3 DEF Ended
    <3>6. Kept
      BY <3>4, <3>5 DEF Parsed, Outcome
    <3>7. at' = "parse" /\ ~flag' /\ cache' = Append(cache, NextByte)
      BY <1>1, <3>2, <3>6 DEF Kept
    <3>8. Len(cache') = Len(cache) + 1
      <4>1. Len(Append(cache, NextByte)) = Len(cache) + 1
        BY <1>1
      <4>2. QED
        BY <3>7, <4>1
    <3>9. Len(cache') = P1 - Start(i)
      <4> HIDE DEF P, P1
      <4>1. QED
        BY <1>1, <2>4, <3>2, <3>8
    <3>10. QED
      BY <3>7, <3>9
  <2>7. ASSUME P1 \in Start(i) .. TextEnd(i), ~ (P >= Start(i))
        PROVE  at' = "parse" /\ ~flag' /\ Len(cache') = P1 - Start(i)
    <3>1. P + 1 = Start(i) /\ P1 = Start(i)
      <4> HIDE DEF P, P1
      <4>1. QED
        BY <1>1, <2>4, <2>7
    <3>2. i > 1
      <4>1. i # 1
        <5>1. i = 1 => Start(i) = 0
          BY <1>1, StreamFacts
        <5> HIDE DEF P, P1
        <5>2. QED
          BY <1>1, <3>1, <5>1
      <4>2. i >= 1
        BY <1>1, StreamFacts
      <4>3. QED
        BY <2>4, <4>1, <4>2
    <3>3. /\ i - 1 \in Items /\ IsEnd(NextByte) /\ NextByte.item = i - 1
          /\ P + 1 = Stop(i - 1) /\ P + 1 > Start(i - 1) /\ script[i - 1].data = 0
          /\ i - 1 \notin cut'
      BY <2>1, <3>1, <3>2, LastOfEnd
    <3> HIDE DEF NextByte
    <3>4. ~ Kept
      BY <3>3 DEF Kept
    <3>5. ~ Dropped
      BY <3>3 DEF Dropped
    <3>6. Ended
      BY <3>4, <3>5 DEF Parsed, Outcome
    <3>7. /\ cache' = <<>> /\ flag' = FALSE
          /\ \/ UNCHANGED <<ran, at, left, buf>>
             \/ \E l \in Items :
                  /\ Runs(l)
                  /\ \/ TextEnd(l) = P
                     \/ TextEnd(l) = P + 1 /\ script[l].data = 0
      BY <3>6, EndedFacts
    <3>8. at' = "parse"
      <4>1. CASE UNCHANGED <<ran, at, left, buf>>
        BY <1>1, <4>1
      <4>2. ASSUME NEW l \in Items, Runs(l),
                   \/ TextEnd(l) = P
                   \/ TextEnd(l) = P + 1 /\ script[l].data = 0
            PROVE  at' = "parse"
        <5>1. CASE script[l].data > 0
          <6>1. /\ TextEnd(l) \in Nat /\ Stop(l) \in Nat /\ Stop(l) > TextEnd(l) /\ TextEnd(l) > Start(l)
                /\ Start(l) \in Nat /\ Start(i - 1) \in Nat /\ Stop(i - 1) \in Nat
            BY <1>1, <3>3, ItemFacts
          <6>2. TextEnd(l) = P
            BY <4>2, <5>1
          <6> DEFINE p == P + 1
          <6>3. p \in Nat /\ p > Start(l) /\ p <= Stop(l) /\ p > Start(i - 1) /\ p <= Stop(i - 1)
            <7>1. p > Start(i - 1) /\ p = Stop(i - 1)
              BY <3>3
            <7> HIDE DEF P
            <7>2. QED
              BY <1>1, <6>1, <6>2, <7>1
          <6> HIDE DEF p
          <6>4. l = i - 1
            BY <1>1, <3>3, <6>3, OneItem
          <6>5. QED
            BY <3>3, <5>1, <6>4
        <5>2. CASE ~ (script[l].data > 0)
          BY <1>1, <4>2, <5>2 DEF Runs
        <5>3. QED
          BY <5>1, <5>2
      <4> HIDE DEF P
      <4>3. QED
        BY <3>7, <4>1, <4>2
    <3>9. Len(cache') = P1 - Start(i)
      <4>1. Len(cache') = 0
        BY <3>7
      <4> HIDE DEF P, P1
      <4>2. QED
        BY <2>4, <3>1, <4>1
    <3>10. QED
      BY <3>7, <3>8, <3>9
  <2>8. QED
    BY <2>5, <2>6, <2>7
<1> HIDE DEF P, P1
<1>5. QED
  BY <1>1, <1>2, <1>4 DEF AgainInv, P1

\* Nothing of what the invariant tells apart changes, but the flag may be
\* cleared and tails may grow.
LEMMA SameStep ==
  ASSUME ParserInv, UNCHANGED <<script, wire, queue, cache, at, left, buf, ran, cut, wrote>>,
         flag' \in BOOLEAN, flag' => flag, tails' \subseteq Items
  PROVE  ParserInv'
<1>1. Items' = Items /\ Bytes' = Bytes /\ Stream' = Stream
      /\ \A i : Start(i)' = Start(i) /\ TextEnd(i)' = TextEnd(i) /\ (Fits(i)' <=> Fits(i))
  BY Fixed
<1>2. Pos' = Pos /\ Chunk' = Chunk
  BY <1>1 DEF Pos, Chunk
<1>3. ParserTypeOK'
  BY <1>1, <1>2 DEF ParserInv, ParserTypeOK
<1> HIDE DEF Pos
<1>4. TakenInv'
  BY <1>1, <1>2 DEF ParserInv, TakenInv
<1>5. RanInv'
  BY <1>1, <1>2 DEF ParserInv, RanInv
<1>6. WroteInv'
  <2>1. Handed' = Handed
    BY DEF Handed
  <2>2. Writing' <=> Writing
    <3>1. TextEnd(Last(ran))' = TextEnd(Last(ran))
      BY DEF TextEnd, Start
    <3> HIDE DEF Handed, Stream
    <3>2. QED
      BY <1>1, <1>2, <2>1, <3>1 DEF Writing
  <2>3. DataWritten' <=> DataWritten
    BY <1>1 DEF DataWritten
  <2>4. QED
    BY <1>1, <2>2, <2>3 DEF ParserInv, WroteInv
<1>7. AgainInv'
  <2>1. ASSUME NEW i \in Items PROVE Good(i)' <=> Good(i)
    BY <1>1 DEF Good
  <2>2. QED
    BY <1>1, <1>2, <2>1 DEF ParserInv, AgainInv
<1>8. QED
  BY <1>3, <1>4, <1>5, <1>6, <1>7 DEF ParserInv

\* A flag left set finds an empty cache: nothing is run.
LEMMA NoneStep ==
  ASSUME ParserInv, ParseNone
  PROVE  ParserInv'
<1>1. /\ at = "parse" /\ flag /\ ParseCmd(cache)
      /\ UNCHANGED <<script, wire, queue, cut, wrote>>
  BY DEF ParseNone
<1>2. /\ cache = <<>> /\ script \in Scripts /\ ran \in Seq(Items) /\ tails \subseteq Items
  BY <1>1 DEF ParserInv, ParserTypeOK, TakenInv
<1>3. LineOf(cache, 0)
  <2>1. cache \in Seq(Bytes) /\ Len(cache) = 0 /\ 0 \in 0 .. 0 /\ \A n \in 1 .. 0 : FALSE
    BY <1>2
  <2>2. QED
    BY <2>1 DEF LineOf
<1>4. /\ cache' = <<>> /\ flag' = FALSE /\ tails' \subseteq Items
      /\ \/ UNCHANGED <<ran, at, left, buf>> /\ Whole(cache) = {}
         \/ \E i \in Whole(cache) : Runs(i)
  BY <1>1, <1>2, <1>3, ParseCmdFacts
<1>5. Whole(cache) = {}
  <2>1. SUFFICES ASSUME NEW i \in Whole(cache) PROVE FALSE
    OBVIOUS
  <2>2. i \in Items /\ 0 = script[i].len
    BY <1>2, <1>3, WholeFacts
  <2>3. script[i].len \in Nat \ {0}
    BY <1>2, <2>2, ItemFacts
  <2>4. QED
    BY <2>2, <2>3
<1>6. UNCHANGED <<ran, at, left, buf>>
  BY <1>4, <1>5
<1>7. QED
  BY <1>1, <1>2, <1>4, <1>6, SameStep

\* Where at_sockw is.
LEMMA WritingFacts ==
  ASSUME ParserInv, at = "write"
  PROVE  LET m == Last(ran)
         IN /\ m \in Items /\ m \in ToSet(ran) /\ Writing
            /\ left \in Nat /\ left > 0 /\ Handed \in Nat /\ Handed + left = script[m].data
            /\ Len(buf) \in Nat /\ Len(buf) <= Chunk /\ Chunk \in Nat /\ Chunk <= left
            /\ buf \in Seq(Bytes) /\ wrote[m] \in Seq(Bytes) /\ Len(wrote[m]) = Handed
<1> DEFINE m == Last(ran)
<1>1. Writing /\ ran # <<>> /\ Handed \in Nat /\ Len(wrote[m]) = Handed
  BY DEF ParserInv, WroteInv, Writing
<1>2. /\ ran \in Seq(Items) /\ left \in Nat /\ left > 0 /\ buf \in Seq(Bytes) /\ Len(buf) <= Chunk
      /\ wrote \in [Items -> Seq(Bytes)] /\ script \in Scripts
  BY DEF ParserInv, ParserTypeOK, TakenInv
<1>3. m \in Items /\ m \in ToSet(ran)
  <2>1. Len(ran) \in DOMAIN ran /\ m = ran[Len(ran)] /\ Len(ran) \in 1 .. Len(ran)
    BY <1>1, <1>2, LenProperties, EmptySeq DEF Last
  <2>2. QED
    BY <1>2, <2>1, ElementOfSeq DEF ToSet
<1>4. script[m].data \in Nat
  BY <1>2, <1>3, ItemFacts
<1>5. Handed = script[m].data - left
  BY DEF Handed
<1> HIDE DEF m
<1>6. Handed + left = script[m].data
  BY <1>2, <1>4, <1>5
<1>7. Len(buf) \in Nat /\ Chunk \in Nat /\ Chunk <= left
  <2>1. BufferSize \in Nat
    BY AtParserAssumption DEF AtParserAssumption
  <2>2. QED
    BY <1>2, <2>1, LenProperties DEF Chunk
<1>8. QED
  BY <1>1, <1>2, <1>3, <1>6, <1>7 DEF m

\* No line is in the cache when at_sockw is at work.
LEMMA WriteByteStep ==
  ASSUME ParserInv, WriteByte
  PROVE  ParserInv'
<1>1. PICK r \in Reads(queue, wire) :
        /\ r.queue # <<>>
        /\ queue' = Tail(r.queue) /\ wire' = r.wire
        /\ buf' = Append(buf, Head(r.queue))
  BY DEF WriteByte
<1>2. /\ at = "write" /\ Len(buf) < Chunk
      /\ UNCHANGED <<script, cache, flag, at, left, ran, tails, cut, wrote>>
  BY DEF WriteByte
<1> DEFINE b == Head(r.queue)
           P == Pos
           P1 == Pos'
           m == Last(ran)
<1>3. ParserTypeOK /\ TakenInv /\ RanInv /\ WroteInv /\ AgainInv
  BY DEF ParserInv
<1>4. Moved /\ b = Stream[P + 1] /\ b \in Bytes
  <2>1. Got(r, b)
    BY <1>1 DEF Got
  <2>2. /\ Pos + 1 \in 1 .. Len(Stream) /\ b = NextByte /\ b \in Bytes
        /\ Tail(r.queue) \in Seq(Bytes) /\ r.wire \in Seq(Bytes) /\ Len(Tail(r.queue)) <= WinSize
        /\ OnStream(Stream, Pos + 1, Tail(r.queue), r.wire)
    BY <1>3, <2>1, Took
  <2> HIDE DEF b
  <2>3. b = Stream[P + 1]
    BY <2>2 DEF NextByte
  <2> HIDE DEF Pos
  <2>4. QED
    BY <1>1, <1>2, <2>2, <2>3 DEF Moved
<1>5. /\ P1 = P + 1 /\ P \in Nat /\ OnStream(Stream, P1, queue', wire') /\ script \in Scripts
      /\ Len(cache) \in Nat /\ cache = <<>> /\ Len(cache) = 0
  BY <1>2, <1>3, <1>4, MovedPos, TakenFacts DEF TakenInv
<1>6. /\ m \in Items /\ m \in ToSet(ran) /\ Writing
      /\ left \in Nat /\ left > 0 /\ Handed \in Nat /\ Handed + left = script[m].data
      /\ Len(buf) \in Nat /\ Chunk \in Nat /\ Chunk <= left /\ buf \in Seq(Bytes)
  BY <1>2, WritingFacts
<1>7. /\ Items' = Items /\ Bytes' = Bytes /\ Stream' = Stream
      /\ \A i : Start(i)' = Start(i) /\ TextEnd(i)' = TextEnd(i) /\ (Fits(i)' <=> Fits(i))
  BY <1>2, Fixed
<1> DEFINE c == buf'
<1>8. /\ c \in Seq(Bytes) /\ Len(c) = Len(buf) + 1 /\ c[Len(buf) + 1] = b
      /\ \A n \in 1 .. Len(buf) : c[n] = buf[n]
  BY <1>1, <1>4, <1>6, AppendProperties
<1> HIDE DEF b, c
<1>9. ParserTypeOK'
  <2>1. Chunk' = Chunk
    BY <1>2 DEF Chunk
  <2>2. Len(c) <= Chunk
    BY <1>2, <1>6, <1>8
  <2>3. queue' \in Seq(Bytes) /\ wire' \in Seq(Bytes) /\ Len(queue') <= WinSize
    BY <1>4 DEF Moved
  <2> HIDE DEF P, P1
  <2>4. QED
    BY <1>2, <1>3, <1>7, <1>8, <2>1, <2>2, <2>3 DEF ParserTypeOK, c
<1>10. TakenInv'
  <2>1. Len(cache) <= P1 /\ \A n \in 1 .. 0 : FALSE
    <3> HIDE DEF P, P1
    <3>1. QED
      BY <1>5
  <2>2. \A n \in 1 .. Len(cache) : FALSE
    BY <1>5, <2>1
  <2> HIDE DEF P
  <2>3. QED
    BY <1>2, <1>5, <1>7, <2>1, <2>2 DEF TakenInv
<1>11. RanInv'
  <2>1. /\ \A x, y \in DOMAIN ran : x < y => ran[x] < ran[y]
        /\ \A x \in DOMAIN ran : TextEnd(ran[x]) <= P - Len(cache)
    BY <1>3 DEF RanInv
  <2>2. ran \in Seq(Items)
    BY <1>3 DEF ParserTypeOK
  <2> HIDE DEF P, P1
  <2>3. ASSUME NEW x \in DOMAIN ran PROVE TextEnd(ran[x]) <= P1 - Len(cache)
    <3>1. ran[x] \in Items
      BY <2>2
    <3>2. TextEnd(ran[x]) \in Nat /\ TextEnd(ran[x]) <= P - Len(cache)
      BY <1>5, <2>1, <3>1, ItemFacts
    <3>3. QED
      BY <1>5, <3>2
  <2>4. QED
    BY <1>2, <1>7, <2>1, <2>3 DEF RanInv, P1
<1> DEFINE first == TextEnd(m) + 1
<1>12. /\ first \in Nat /\ P = first + Handed + Len(buf)
       /\ \A n \in 1 .. Len(buf) : buf[n] = Stream[first + Handed + n]
       /\ Len(wrote[m]) = Handed
       /\ \A n \in 1 .. Handed : wrote[m][n] = Stream[first + n]
  <2>1. TextEnd(m) \in Nat
    BY <1>5, <1>6, ItemFacts
  <2>2. first \in Nat
    BY <2>1
  <2> HIDE DEF P1, P, m
  <2>3. QED
    BY <1>6, <2>2 DEF Writing, m, P
<1>13. WroteInv'
  <2>1. Handed' = Handed /\ TextEnd(Last(ran))' = TextEnd(m)
    BY <1>2 DEF Handed, TextEnd, Start
  <2>2. P1 = first + Handed + Len(c)
    <3> HIDE DEF P, P1, first
    <3>1. QED
      BY <1>5, <1>6, <1>8, <1>12
  <2>3. ASSUME NEW n \in 1 .. Len(c) PROVE c[n] = Stream[first + Handed + n]
    <3>1. CASE n = Len(buf) + 1
      <4>1. first + Handed + n = P + 1
        <5> HIDE DEF P, P1, first
        <5>1. QED
          BY <1>6, <1>12, <3>1
      <4>2. QED
        BY <1>4, <1>8, <3>1, <4>1
    <3>2. CASE n # Len(buf) + 1
      <4>1. n \in 1 .. Len(buf)
        BY <1>6, <1>8, <3>2
      <4>2. QED
        BY <1>8, <1>12, <4>1
    <3>3. QED
      BY <3>1, <3>2
  <2>4. Writing'
    <3>1. /\ ran' # <<>> /\ Handed' \in Nat /\ wrote' = wrote /\ Last(ran)' = m
      BY <1>2, <1>6, <2>1 DEF Writing
    <3> HIDE DEF P, m, first
    <3>2. QED
      BY <1>7, <1>12, <2>1, <2>2, <2>3, <3>1 DEF Writing, P1, c, first
  <2>5. DataWritten'
    BY <1>2, <1>3, <1>7 DEF WroteInv, DataWritten
  <2> HIDE DEF P, P1, m, first
  <2>6. QED
    BY <1>2, <1>3, <1>7, <2>4, <2>5 DEF WroteInv
<1>14. AgainInv'
  <2>1. ASSUME NEW i \in Items, Good(i)'
        PROVE  /\ P1 \in Start(i) .. TextEnd(i) => FALSE
               /\ P1 > TextEnd(i) => i \in ToSet(ran)
    <3>1. Fits(i) /\ (i > 1 => script[i - 1].data = 0)
      BY <1>2, <1>7, <2>1 DEF Good
    <3>2. Good(i)
      BY <1>2, <1>7, <2>1 DEF Good
    <3>3. /\ ~ (P \in Start(i) .. TextEnd(i))
          /\ P > TextEnd(i) => i \in ToSet(ran)
      BY <1>2, <1>3, <3>2 DEF AgainInv
    <3>4. Start(i) \in Nat /\ TextEnd(i) \in Nat /\ TextEnd(i) > Start(i) /\ i \in Nat
      BY <1>5, ItemFacts
    <3>5. P + 1 # Start(i)
      <4>1. SUFFICES ASSUME P + 1 = Start(i) PROVE FALSE
        OBVIOUS
      <4>2. i > 1
        <5>1. (i = 1 => Start(i) = 0) /\ i >= 1
          BY <1>5, StreamFacts
        <5> HIDE DEF P, P1
        <5>2. i # 1
          BY <1>5, <4>1, <5>1
        <5>3. QED
          BY <3>4, <5>1, <5>2
      <4>3. i - 1 \in Items /\ P + 1 = Stop(i - 1) /\ P + 1 > Start(i - 1) /\ script[i - 1].data = 0
        BY <1>3, <3>1, <4>1, <4>2, LastOfEnd
      <4> DEFINE p == P + 1
      <4>4. /\ EndLen(m) \in Nat /\ EndLen(m) >= 1 /\ TextEnd(m) \in Nat /\ Start(m) \in Nat
            /\ TextEnd(m) > Start(m)
            /\ Stop(m) = TextEnd(m) + EndLen(m) + script[m].data /\ script[m].data \in Nat
        <5>1. EndLen(m) \in 1 .. 2
          BY <1>5, <1>6, ItemFacts
        <5>2. EndLen(m) \in Nat /\ EndLen(m) >= 1
          BY <5>1
        <5>3. QED
          BY <1>5, <1>6, <5>2, ItemFacts
      <4>5. p = TextEnd(m) + 1 + Handed + Len(buf) + 1 /\ Handed + Len(buf) + 1 <= script[m].data
        <5> HIDE DEF P, P1, m
        <5>1. QED
          BY <1>2, <1>6, <1>12, <4>4
      <4>6. p \in Nat /\ p > Start(m) /\ p <= Stop(m) /\ Start(i - 1) \in Nat /\ Stop(i - 1) \in Nat
        <5>1. Start(i - 1) \in Nat /\ Stop(i - 1) \in Nat
          BY <1>5, <4>3, ItemFacts
        <5> HIDE DEF p, m
        <5>2. QED
          BY <1>6, <4>4, <4>5, <5>1, SMTT(30)
      <4>7. p > Start(i - 1) /\ p <= Stop(i - 1)
        BY <4>3, <4>6
      <4> HIDE DEF p
      <4>8. m = i - 1
        <5> HIDE DEF m
        <5>1. QED
          BY <1>5, <1>6, <4>3, <4>6, <4>7, OneItem
      <4>9. QED
        <5>1. script[m].data = 0
          BY <4>3, <4>8
        <5> HIDE DEF m
        <5>2. QED
          BY <1>6, <5>1
    <3> HIDE DEF P, P1
    <3>6. QED
      BY <1>5, <3>3, <3>4, <3>5
  <2> HIDE DEF P, P1
  <2>2. QED
    BY <1>2, <1>7, <2>1 DEF AgainInv, P1
<1>15. QED
  BY <1>9, <1>10, <1>11, <1>13, <1>14 DEF ParserInv

\* The first k elements of a sequence.
LEMMA FirstPart ==
  ASSUME NEW S, NEW t \in Seq(S), NEW l \in Nat, l <= Len(t)
  PROVE  /\ SubSeq(t, 1, l) \in Seq(S) /\ Len(SubSeq(t, 1, l)) = l
         /\ \A n \in 1 .. l : SubSeq(t, 1, l)[n] = t[n]
<1>1. Len(t) \in Nat /\ 1 \in Int /\ l \in Int /\ \A n \in 1 .. l : t[n] \in S
  <2>1. Len(t) \in Nat
    BY LenProperties
  <2>2. \A n \in 1 .. l : n \in 1 .. Len(t)
    BY <2>1
  <2>3. QED
    BY <2>1, <2>2, ElementOfSeq
<1> DEFINE u == SubSeq(t, 1, l)
<1>2. /\ u \in Seq(S) /\ Len(u) = (IF 1 <= l THEN l - 1 + 1 ELSE 0)
      /\ \A n \in 1 .. l - 1 + 1 : u[n] = t[1 + n - 1]
  BY <1>1, SubSeqProperties
<1> HIDE DEF u
<1>3. u \in Seq(S) /\ Len(u) = l /\ \A n \in 1 .. l : u[n] = t[n]
  BY <1>2
<1>4. QED
  BY <1>3 DEF u

\* What IsPrefix asks.
LEMMA PrefixOf ==
  ASSUME NEW S, NEW s \in Seq(S), NEW t \in Seq(S), Len(s) <= Len(t),
         \A n \in 1 .. Len(s) : s[n] = t[n]
  PROVE  IsPrefix(s, t)
<1>1. Len(s) \in Nat /\ Len(s) <= Len(s)
  BY LenProperties
<1> DEFINE u == SubSeq(s, 1, Len(s))
           v == SubSeq(t, 1, Len(s))
<1>2. u \in Seq(S) /\ Len(u) = Len(s) /\ \A n \in 1 .. Len(s) : u[n] = s[n]
  BY <1>1, FirstPart
<1>3. v \in Seq(S) /\ Len(v) = Len(s) /\ \A n \in 1 .. Len(s) : v[n] = t[n]
  BY <1>1, FirstPart
<1> HIDE DEF u, v
<1>4. u = v
  BY <1>2, <1>3, SeqEqual
<1>5. QED
  BY <1>4 DEF IsPrefix, u, v

\* The part of the invariant that neither end of a chunk touches.
LEMMA WriteEnds ==
  ASSUME ParserInv, at = "write", UNCHANGED <<script, wire, queue, cache, flag, ran, tails, cut>>,
         buf' = <<>>, left' \in Nat, at' \in {"parse", "write"}, at' = "write" <=> left' > 0,
         wrote' \in [Items -> Seq(Bytes)]
  PROVE  /\ ParserTypeOK' /\ TakenInv' /\ RanInv' /\ AgainInv'
         /\ Items' = Items /\ Bytes' = Bytes /\ Stream' = Stream /\ Pos' = Pos
         /\ \A i : Start(i)' = Start(i) /\ TextEnd(i)' = TextEnd(i)
<1>1. Items' = Items /\ Bytes' = Bytes /\ Stream' = Stream
      /\ \A i : Start(i)' = Start(i) /\ TextEnd(i)' = TextEnd(i) /\ (Fits(i)' <=> Fits(i))
  BY Fixed
<1>2. Pos' = Pos
  BY <1>1 DEF Pos
<1>3. ParserTypeOK'
  <2>1. Chunk' \in Nat
    BY AtParserAssumption DEF AtParserAssumption, Chunk
  <2>2. buf' \in Seq(Bytes) /\ Len(buf') = 0
    OBVIOUS
  <2>3. Len(buf') <= Chunk'
    BY <2>1, <2>2
  <2>4. ParserTypeOK
    BY DEF ParserInv
  <2>5. at' \in {"parse", "write"} /\ (at' = "write" <=> left' > 0)
    OBVIOUS
  <2>6. QED
    BY <1>1, <2>2, <2>3, <2>4, <2>5 DEF ParserTypeOK
<1>4. TakenInv'
  <2>1. cache = <<>> /\ TakenInv
    BY DEF ParserInv, TakenInv
  <2>2. cache' = <<>>
    BY <2>1
  <2> HIDE DEF Pos
  <2>3. QED
    BY <1>1, <1>2, <2>1, <2>2 DEF TakenInv
<1> HIDE DEF Pos
<1>5. RanInv'
  BY <1>1, <1>2 DEF ParserInv, RanInv
<1>6. AgainInv'
  <2>1. ASSUME NEW i \in Items PROVE Good(i)' <=> Good(i)
    BY <1>1 DEF Good
  <2>2. ASSUME NEW i \in Items, Good(i)
        PROVE  ~ (Pos \in Start(i) .. TextEnd(i)) /\ (Pos > TextEnd(i) => i \in ToSet(ran))
    BY <2>2 DEF ParserInv, AgainInv
  <2>3. QED
    BY <1>1, <1>2, <2>1, <2>2 DEF AgainInv
<1>7. QED
  BY <1>1, <1>2, <1>3, <1>4, <1>5, <1>6

\* A write that fails leaves what was written as it was.
LEMMA FailsStep ==
  ASSUME ParserInv, SockwFails
  PROVE  ParserInv'
<1>1. /\ at = "write" /\ at' = "parse" /\ left' = 0 /\ buf' = <<>>
      /\ UNCHANGED <<script, wire, queue, cache, flag, ran, tails, cut, wrote>>
  BY DEF SockwFails
<1>2. wrote' \in [Items -> Seq(Bytes)] /\ (at' = "write" <=> left' > 0) /\ left' \in Nat
      /\ at' \in {"parse", "write"}
  BY <1>1 DEF ParserInv, ParserTypeOK
<1>3. ParserTypeOK' /\ TakenInv' /\ RanInv' /\ AgainInv' /\ Items' = Items
  <2> HIDE DEF Pos
  <2>1. QED
    BY <1>1, <1>2, WriteEnds
<1>4. WroteInv'
  <2>1. DataWritten'
    BY <1>1, <1>3 DEF ParserInv, WroteInv, DataWritten
  <2>2. at' # "write"
    BY <1>1
  <2>3. QED
    BY <1>1, <1>3, <2>1, <2>2 DEF ParserInv, WroteInv
<1>5. QED
  BY <1>3, <1>4 DEF ParserInv

\* A chunk is written behind those before, and no more than the line asks for.
LEMMA ChunkStep ==
  ASSUME ParserInv, WriteChunk
  PROVE  ParserInv'
<1> DEFINE m == Last(ran)
           n0 == Handed
           first == TextEnd(m) + 1
           P == Pos
<1>1. /\ at = "write" /\ Len(buf) = Chunk
      /\ wrote' = [wrote EXCEPT ![m] = wrote[m] \o buf]
      /\ left' = left - Len(buf) /\ buf' = <<>>
      /\ at' = IF left' = 0 THEN "parse" ELSE "write"
      /\ UNCHANGED <<script, wire, queue, cache, flag, ran, tails, cut>>
  BY DEF WriteChunk
<1>2. /\ m \in Items /\ m \in ToSet(ran) /\ Writing
      /\ left \in Nat /\ left > 0 /\ n0 \in Nat /\ n0 + left = script[m].data
      /\ Len(buf) \in Nat /\ Chunk \in Nat /\ Chunk <= left /\ buf \in Seq(Bytes)
      /\ wrote[m] \in Seq(Bytes) /\ Len(wrote[m]) = n0
  BY <1>1, WritingFacts
<1>3. wrote \in [Items -> Seq(Bytes)] /\ script \in Scripts /\ DataWritten /\ WroteInv
      /\ Stream \in Seq(Bytes)
  BY TakenFacts DEF ParserInv, ParserTypeOK, TakenInv, WroteInv
<1> DEFINE v == wrote[m] \o buf
<1>4. /\ v \in Seq(Bytes) /\ Len(v) = n0 + Len(buf)
      /\ \A n \in 1 .. n0 : v[n] = wrote[m][n]
      /\ \A n \in 1 .. Len(buf) : v[n0 + n] = buf[n]
  <2>1. /\ v \in Seq(Bytes) /\ Len(v) = Len(wrote[m]) + Len(buf)
        /\ \A n \in 1 .. Len(wrote[m]) + Len(buf) :
              v[n] = IF n <= Len(wrote[m]) THEN wrote[m][n] ELSE buf[n - Len(wrote[m])]
    BY <1>2, ConcatProperties
  <2> HIDE DEF v, n0
  <2>2. ASSUME NEW n \in 1 .. n0 PROVE v[n] = wrote[m][n]
    <3>1. n \in 1 .. n0 + Len(buf) /\ n <= n0
      BY <1>2
    <3>2. QED
      BY <1>2, <2>1, <3>1
  <2>3. ASSUME NEW n \in 1 .. Len(buf) PROVE v[n0 + n] = buf[n]
    <3>1. n0 + n \in 1 .. n0 + Len(buf) /\ ~ (n0 + n <= n0) /\ n0 + n - n0 = n
      BY <1>2
    <3>2. QED
      BY <1>2, <2>1, <3>1
  <2>4. QED
    BY <1>2, <2>1, <2>2, <2>3
<1> HIDE DEF v, m
<1>5. /\ \A i \in Items : wrote'[i] = IF i = m THEN v ELSE wrote[i]
      /\ wrote' \in [Items -> Seq(Bytes)]
  BY <1>1, <1>2, <1>3, <1>4 DEF v
<1>6. /\ left' \in Nat /\ at' \in {"parse", "write"} /\ (at' = "write" <=> left' > 0)
  <2>1. left' \in Nat
    BY <1>1, <1>2
  <2>2. QED
    BY <1>1, <2>1
<1>7. /\ ParserTypeOK' /\ TakenInv' /\ RanInv' /\ AgainInv'
      /\ Items' = Items /\ Stream' = Stream /\ Pos' = P
      /\ \A i : TextEnd(i)' = TextEnd(i)
  BY <1>1, <1>5, <1>6, WriteEnds
<1>8. /\ P = first + n0 + Len(buf) /\ first \in Nat
      /\ \A n \in 1 .. Len(buf) : buf[n] = Stream[first + n0 + n]
      /\ \A n \in 1 .. n0 : wrote[m][n] = Stream[first + n]
  <2>1. TextEnd(m) \in Nat
    BY <1>2, <1>3, ItemFacts
  <2>2. first \in Nat
    BY <2>1
  <2> HIDE DEF P, n0
  <2>3. QED
    BY <1>2, <2>2 DEF Writing, m, P, n0
<1>9. ASSUME NEW n \in 1 .. Len(v) PROVE v[n] = Stream[first + n]
  <2> HIDE DEF P, n0, first
  <2>1. CASE n <= n0
    <3>1. n \in 1 .. n0
      BY <1>2, <2>1
    <3>2. QED
      BY <1>4, <1>8, <3>1
  <2>2. CASE ~ (n <= n0)
    <3>1. n - n0 \in 1 .. Len(buf) /\ n0 + (n - n0) = n /\ first + n0 + (n - n0) = first + n
      BY <1>2, <1>4, <1>8, <2>2
    <3>2. v[n0 + (n - n0)] = buf[n - n0] /\ buf[n - n0] = Stream[first + n0 + (n - n0)]
      BY <1>4, <1>8, <3>1
    <3>3. QED
      BY <3>1, <3>2
  <2>3. QED
    BY <2>1, <2>2
<1>10. DataWritten'
  <2>1. ASSUME script[m].end # "crlf" PROVE IsPrefix(v, Data(m, script[m]))
    <3> DEFINE d == Data(m, script[m])
               l == script[m].data
    <3>1. l \in Nat /\ EndLen(m) = 1
      BY <1>2, <1>3, <2>1, ItemFacts DEF EndLen
    <3>2. d \in Seq(Bytes) /\ Len(d) = l /\ \A n \in 1 .. l : d[n] = Byte(m, "data", n)
      <4>1. \A n \in 1 .. l : Byte(m, "data", n) \in Bytes
        BY <1>2, <3>1 DEF Byte, Bytes
      <4> HIDE DEF l
      <4>2. QED
        BY <3>1, <4>1, RunFacts DEF Data, l
    <3>3. \A n \in 1 .. l : Stream[TextEnd(m) + EndLen(m) + n] = Byte(m, "data", n)
      <4>1. Place(m)
        BY <1>2, <1>3, PlaceOf
      <4>2. QED
        BY <4>1 DEF Place
    <3>4. Len(v) <= l /\ Len(v) \in Nat
      <4> HIDE DEF n0
      <4>1. QED
        BY <1>1, <1>2, <1>4
    <3> HIDE DEF d, l
    <3>5. ASSUME NEW n \in 1 .. Len(v) PROVE v[n] = d[n]
      <4>1. n \in 1 .. l
        BY <3>1, <3>4
      <4>2. v[n] = Stream[TextEnd(m) + 1 + n]
        BY <1>9
      <4>3. Stream[TextEnd(m) + 1 + n] = Byte(m, "data", n)
        BY <3>1, <3>3, <4>1
      <4>4. QED
        BY <3>2, <4>1, <4>2, <4>3
    <3>6. IsPrefix(v, d)
      BY <1>4, <3>2, <3>4, <3>5, PrefixOf
    <3>7. QED
      BY <3>6 DEF d
  <2>2. ASSUME NEW i \in Items, script[i].end # "crlf"
        PROVE  IsPrefix(wrote'[i], Data(i, script[i]))
    <3>1. CASE i = m
      BY <1>5, <2>1, <2>2, <3>1
    <3>2. CASE i # m
      BY <1>3, <1>5, <2>2, <3>2 DEF DataWritten
    <3>3. QED
      BY <3>1, <3>2
  <2>3. QED
    BY <1>1, <1>7, <2>2 DEF DataWritten
<1>11. \A i \in Items : i \notin ToSet(ran) => wrote'[i] = <<>>
  BY <1>2, <1>3, <1>5 DEF WroteInv
<1>12. ASSUME at' = "write" PROVE Writing'
  <2>1. Handed' = n0 + Len(buf)
    <3>1. Handed' = script[m].data - left'
      BY <1>1 DEF Handed, m
    <3>2. script[m].data - left' = script[m].data - (left - Len(buf)) /\ script[m].data \in Nat
      BY <1>1, <1>2, <1>3, ItemFacts
    <3> HIDE DEF n0
    <3>3. QED
      BY <1>2, <3>1, <3>2
  <2>2. TextEnd(Last(ran))' = TextEnd(m) /\ Last(ran)' = m /\ ran' # <<>>
    BY <1>1, <1>2 DEF TextEnd, Start, m, Writing
  <2>3. Len(buf') = 0 /\ \A n \in 1 .. 0 : FALSE
    BY <1>1
  <2>4. n0 + Len(buf) \in Nat /\ P = first + (n0 + Len(buf)) + 0
    <3> HIDE DEF P, n0, first
    <3>1. QED
      BY <1>2, <1>8
  <2>5. wrote'[m] = v
    BY <1>2, <1>5
  <2> HIDE DEF P, n0
  <2>6. QED
    BY <1>4, <1>7, <1>9, <2>1, <2>2, <2>3, <2>4, <2>5 DEF Writing
<1>13. WroteInv'
  <2> HIDE DEF P, n0, first
  <2>1. QED
    BY <1>1, <1>7, <1>10, <1>11, <1>12 DEF WroteInv
<1>14. QED
  BY <1>7, <1>13 DEF ParserInv

\* The invariant holds at the start.
LEMMA ParserStart == ParserInit => ParserInv
<1> SUFFICES ASSUME ParserInit PROVE ParserInv
  OBVIOUS
<1>1. /\ script \in Scripts /\ wire = Stream
      /\ queue = <<>> /\ cache = <<>> /\ flag = FALSE
      /\ at = "parse" /\ left = 0 /\ buf = <<>>
      /\ ran = <<>> /\ tails = {} /\ cut = {}
      /\ wrote = [i \in Items |-> <<>>]
  BY DEF ParserInit, Stream
<1>2. /\ Stream \in Seq(Bytes) /\ Len(Stream) \in Nat
      /\ WinSize \in Nat /\ CMD_CACHE_MAX_LEN \in Nat /\ BufferSize \in Nat
  BY <1>1, StreamFacts, AtParserAssumption DEF AtParserAssumption
<1>3. Len(queue) = 0 /\ Len(cache) = 0 /\ Len(buf) = 0 /\ DOMAIN ran = {} /\ ToSet(ran) = {}
      /\ \A n \in 1 .. 0 : FALSE
  BY <1>1 DEF ToSet
<1>4. Pos = 0
  <2>1. Pos = Len(Stream) - 0 - Len(Stream)
    BY <1>1, <1>3 DEF Pos
  <2>2. QED
    BY <1>2, <2>1
<1> HIDE DEF Stream
<1>5. ParserTypeOK
  <2>1. <<>> \in Seq(Bytes) /\ <<>> \in Seq(Items)
    OBVIOUS
  <2>2. Chunk \in Nat
    BY <1>1, <1>2 DEF Chunk
  <2>3. wrote \in [Items -> Seq(Bytes)]
    BY <1>1, <2>1
  <2>4. ~ (0 > 0) /\ 0 \in Nat /\ FALSE \in BOOLEAN
    OBVIOUS
  <2>5. Len(queue) <= WinSize /\ Len(cache) <= CMD_CACHE_MAX_LEN /\ Len(buf) <= Chunk
    BY <1>2, <1>3, <2>2
  <2>6. QED
    BY <1>1, <1>2, <2>1, <2>3, <2>4, <2>5 DEF ParserTypeOK
<1> HIDE DEF Pos
<1>6. TakenInv
  <2>1. OnStream(Stream, Pos, queue, wire)
    <3>1. /\ 0 + 0 + Len(wire) = Len(Stream) /\ 0 \in Nat
          /\ \A n \in 1 .. Len(wire) : wire[n] = Stream[0 + 0 + n]
      BY <1>1, <1>2
    <3>2. QED
      BY <1>3, <1>4, <3>1 DEF OnStream
  <2>2. Len(cache) <= Pos /\ \A n \in 1 .. Len(cache) : FALSE
    BY <1>3, <1>4
  <2>3. QED
    BY <1>1, <2>1, <2>2 DEF TakenInv
<1>7. RanInv
  BY <1>3 DEF RanInv
<1>8. WroteInv
  <2>1. \A i \in Items : wrote[i] = <<>>
    BY <1>1
  <2>2. DataWritten
    <3>1. ASSUME NEW i \in Items PROVE IsPrefix(wrote[i], Data(i, script[i]))
      <4>1. script[i].data \in Nat
        BY <1>1, ItemFacts
      <4>2. \A n \in 1 .. script[i].data : Byte(i, "data", n) \in Bytes
        BY DEF Byte, Bytes
      <4>3. Data(i, script[i]) \in Seq(Bytes) /\ Len(Data(i, script[i])) = script[i].data
        BY <4>1, <4>2, RunFacts DEF Data
      <4>4. <<>> \in Seq(Bytes) /\ Len(<<>>) = 0 /\ \A n \in 1 .. 0 : FALSE
        OBVIOUS
      <4> DEFINE d == Data(i, script[i])
      <4> HIDE DEF d
      <4>5. IsPrefix(<<>>, d)
        <5>1. d \in Seq(Bytes) /\ Len(<<>>) <= Len(d)
          BY <4>1, <4>3, <4>4 DEF d
        <5>2. QED
          BY <4>4, <5>1, PrefixOf
      <4>6. QED
        BY <2>1, <4>5 DEF d
    <3>2. QED
      BY <3>1 DEF DataWritten
  <2>3. QED
    BY <1>1, <2>1, <2>2 DEF WroteInv
<1>9. AgainInv
  <2>1. ASSUME NEW i \in Items
        PROVE  /\ Pos \in Start(i) .. TextEnd(i) => Len(cache) = Pos - Start(i)
               /\ ~ (Pos > TextEnd(i))
    <3>1. Start(i) \in Nat /\ TextEnd(i) \in Nat
      BY <1>1, ItemFacts
    <3>2. QED
      BY <1>3, <1>4, <3>1
  <2>2. QED
    BY <1>1, <2>1 DEF AgainInv
<1>10. QED
  BY <1>5, <1>6, <1>7, <1>8, <1>9 DEF ParserInv

\* Every step keeps it.
LEMMA ParserStep == ParserInv /\ [ParserNext]_parser => ParserInv'
<1> SUFFICES ASSUME ParserInv, [ParserNext]_parser PROVE ParserInv'
  OBVIOUS
<1>1. CASE ParseByte \/ ParseLf \/ ParseCr
  <2>1. ParserTypeOK /\ TakenInv /\ RanInv /\ WroteInv /\ AgainInv
    BY DEF ParserInv
  <2>2. Parsed
    BY <1>1, <2>1, ParseMoves DEF Parsed
  <2>3. QED
    BY <2>1, <2>2, ParsedType, ParsedTaken, ParsedRan, ParsedWrite, ParsedAgain DEF ParserInv
<1>2. CASE ParseNone
  BY <1>2, NoneStep
<1>3. CASE WriteByte
  BY <1>3, WriteByteStep
<1>4. CASE WriteChunk
  BY <1>4, ChunkStep
<1>5. CASE SockwFails
  BY <1>5, FailsStep
<1>6. CASE UNCHANGED parser
  <2>1. flag' \in BOOLEAN /\ (flag' => flag) /\ tails' \subseteq Items
    BY <1>6 DEF ParserInv, ParserTypeOK, parser
  <2>2. QED
    BY <1>6, <2>1, SameStep DEF parser
<1>7. QED
  BY <1>1, <1>2, <1>3, <1>4, <1>5, <1>6 DEF ParserNext

\* The command that a reader would look for is the one behind the bytes taken.
LEMMA AgainImplies == ParserInv => RunAgain
<1> SUFFICES ASSUME ParserInv PROVE RunAgain
  OBVIOUS
<1>1. \A J, l \in DOMAIN ran : J < l => ran[J] < ran[l]
  BY DEF ParserInv, RanInv
<1>2. ASSUME NEW i \in Items, Fits(i), Read(i),
             i > 1 => script[i - 1].data = 0 /\ i - 1 \notin cut
      PROVE  i \in ToSet(ran)
  <2>1. Good(i)
    BY <1>2 DEF Good
  <2>2. Pos > TextEnd(i) => i \in ToSet(ran)
    BY <2>1 DEF ParserInv, AgainInv
  <2>3. /\ Pos \in Nat /\ script \in Scripts /\ Pos + Len(queue) + Len(wire) = Len(Stream)
        /\ queue \in Seq(Bytes) /\ wire \in Seq(Bytes)
        /\ \A n \in 1 .. Len(queue) : queue[n] = Stream[Pos + n]
        /\ \A n \in 1 .. Len(wire) : wire[n] = Stream[Pos + Len(queue) + n]
    BY TakenFacts DEF ParserInv, TakenInv, OnStream, ParserTypeOK
  <2>4. /\ TextEnd(i) \in Nat /\ Stop(i) \in Nat /\ Stop(i) > TextEnd(i) /\ Stop(i) <= Len(Stream)
    BY <2>3, ItemFacts
  <2>5. Len(queue) \in Nat /\ Len(wire) \in Nat /\ Len(Stream) \in Nat
        /\ DOMAIN queue = 1 .. Len(queue) /\ DOMAIN wire = 1 .. Len(wire)
    BY <2>3, LenProperties, StreamFacts
  <2> DEFINE b == Stream[TextEnd(i) + 1]
  <2>6. b.item = i /\ b.part # "data"
    <3>1. b = Byte(i, IF script[i].end = "lf" THEN "lf" ELSE "cr", 1)
      BY <2>3, PlaceOf DEF Place
    <3>2. QED
      BY <3>1 DEF Byte
  <2> DEFINE P == Pos
  <2>7. ASSUME ~ (P > TextEnd(i)) PROVE FALSE
    <3> DEFINE x == TextEnd(i) + 1 - P
    <3>1. x \in Nat /\ x >= 1 /\ x <= Len(queue) + Len(wire) /\ P + x = TextEnd(i) + 1
      <4>1. P \in Nat /\ P + Len(queue) + Len(wire) = Len(Stream)
        BY <2>3
      <4> HIDE DEF P
      <4>2. QED
        BY <2>4, <2>5, <2>7, <4>1
    <3> HIDE DEF x
    <3>2. CASE x <= Len(queue)
      <4>1. x \in DOMAIN queue /\ queue[x] = b
        BY <2>3, <2>5, <3>1, <3>2
      <4>2. b \in ToSet(queue)
        BY <4>1 DEF ToSet
      <4> HIDE DEF b
      <4>3. QED
        BY <1>2, <2>6, <4>2 DEF Read
    <3>3. CASE ~ (x <= Len(queue))
      <4> DEFINE y == x - Len(queue)
      <4>1. y \in 1 .. Len(wire) /\ Pos + Len(queue) + y = TextEnd(i) + 1
        <5>1. P \in Nat
          BY <2>3
        <5> HIDE DEF P
        <5>2. y \in 1 .. Len(wire) /\ P + Len(queue) + y = TextEnd(i) + 1
          BY <2>5, <3>1, <3>3, <5>1
        <5>3. QED
          BY <5>2 DEF P
      <4> HIDE DEF y
      <4>2. y \in DOMAIN wire /\ wire[y] = b
        BY <2>3, <2>5, <4>1
      <4>3. b \in ToSet(wire)
        BY <4>2 DEF ToSet
      <4> HIDE DEF b
      <4>4. QED
        BY <1>2, <2>6, <4>3 DEF Read
    <3>4. QED
      BY <3>2, <3>3
  <2>8. QED
    BY <2>2, <2>7
<1>3. QED
  BY <1>1, <1>2 DEF RunAgain

\* So it holds in every state.
LEMMA ParserAlways == ParserSpec => []ParserInv
BY ParserStart, ParserStep, PTL DEF ParserSpec

(* The reader keeps its types: at_parse writes nothing behind its cache,    *)
(* at_sockw nothing behind its buffer, whatever the host sends.             *)
THEOREM ParserTypeCorrect == ParserSpec => []ParserTypeOK
<1>1. ParserInv => ParserTypeOK
  BY DEF ParserInv
<1>2. QED
  BY <1>1, ParserAlways, PTL

(* Commands are run in the order they were sent and once, and one bad line  *)
(* costs the next one at most.                                              *)
THEOREM RunAgainCorrect == ParserSpec => []RunAgain
BY AgainImplies, ParserAlways, PTL

(* SOCKW hands over the bytes behind its line, in order, in whatever chunks *)
(* they are taken.                                                          *)
THEOREM DataWrittenCorrect == ParserSpec => []DataWritten
<1>1. ParserInv => DataWritten
  BY DEF ParserInv, WroteInv
<1>2. QED
  BY <1>1, ParserAlways, PTL

-----------------------------------------------------------------------------
(* AtDemo: what the loop of main reads and does.                           *)

Octets == 0 .. 255
Msgs   == [topic : {"serial", "MOISTURE", "BATTERY", "LWT", "config_status", "config_moisture",
                    "config_battery"},
           payload : {"ON", "OFF", "5", "50", "95", "boot", "wifi function ok"}]

\* With the types, those of the bytes on their way and of what is published.
DemoInv ==
  /\ DemoTypeOK
  /\ line \in Seq(Octets)
  /\ cached \in Seq(Seq(Octets))
  /\ broker \in Seq(Msgs) /\ done \in Seq(Msgs)

LEMMA DemoConstants ==
  /\ BufLen \in Nat /\ RecSize \in Nat \ {0} /\ RecSize + 5 <= BufLen
  /\ Cap \in Nat \ {0} /\ MaxFrames \in Nat
  /\ \A f \in Frames : f \in Seq(Octets)
BY AtDemoAssumption DEF AtDemoAssumption, Octets

\* A data unit asks for one message at most, and for none of the boot.
LEMMA UnitForm ==
  ASSUME NEW a, NEW b, NEW c, NEW d
  PROVE  \/ Unit(a, b, c, d) = <<>>
         \/ \E p \in Msgs : Unit(a, b, c, d) = <<p>> /\ p.payload # "boot"
<1>1. Unit(a, b, c, d) \in {<<>>, <<Pub("MOISTURE", "ON")>>, <<Pub("MOISTURE", "OFF")>>,
                           <<Pub("BATTERY", "5")>>, <<Pub("BATTERY", "50")>>,
                           <<Pub("BATTERY", "95")>>}
  BY DEF Unit
<1>2. \A v \in {"ON", "OFF", "5", "50", "95"}, t \in {"MOISTURE", "BATTERY"} :
        Pub(t, v) \in Msgs /\ Pub(t, v).payload # "boot"
  BY DEF Pub, Msgs
<1>3. QED
  BY <1>1, <1>2

\* The first n of a sequence of bytes, and the rest.
LEMMA CutFacts ==
  ASSUME NEW w \in Seq(Octets), NEW n \in 0 .. Len(w)
  PROVE  /\ SubSeq(w, 1, n) \in Seq(Octets) /\ Len(SubSeq(w, 1, n)) = n
         /\ SubSeq(w, n + 1, Len(w)) \in Seq(Octets)
<1>1. Len(w) \in Nat /\ \A i \in 1 .. Len(w) : w[i] \in Octets
  BY ElementOfSeq, LenProperties
<1>2. SubSeq(w, 1, n) \in Seq(Octets) /\ Len(SubSeq(w, 1, n)) = n
  BY <1>1, SubSeqProperties
<1>3. SubSeq(w, n + 1, Len(w)) \in Seq(Octets)
  BY <1>1, SubSeqProperties
<1>4. QED
  BY <1>2, <1>3

\* What the handler takes off the line is a record.
LEMMA CutRecord ==
  ASSUME DemoInv, line # <<>>
  PROVE  Cut \in 1 .. RecSize /\ Cut <= Len(line)
<1>1. Len(line) \in Nat \ {0}
  BY EmptySeq, LenProperties DEF DemoInv
<1>2. QED
  BY <1>1, DemoConstants DEF Cut

\* Where the scanner looks is inside queue_buf, and holds bytes.
LEMMA LooksAtOctets ==
  ASSUME DemoInv, j < dcnt
  PROVE  \A i \in 0 .. 5 : qbuf[j + i] \in Octets
BY DemoConstants, SMTT(30) DEF DemoInv, DemoTypeOK, Octets

\* A step of the boot is none of the loop, and goes to the next step.
BootActs == BootWlan \/ BootConnect \/ BootSerial \/ BootTellMcu \/ BootPublish

LEMMA BootStep ==
  ASSUME step \in 1 .. Len(Boot), BootActs
  PROVE  step \in 1 .. 10 /\ step' = step + 1 /\ Boot[step] # "loop"
<1>1. Len(Boot) = 11 /\ Boot[11] = "loop"
  BY DEF Boot
<1>2. Boot[step] # "loop" /\ step' = step + 1
  BY DEF BootActs, BootWlan, BootConnect, BootSerial, BootTellMcu, BootPublish, At
<1>3. QED
  BY <1>1, <1>2

LEMMA DemoTypeStep == DemoInv /\ [DemoNext]_demo => DemoInv'
<1> SUFFICES ASSUME DemoInv, [DemoNext]_demo PROVE DemoInv'
  OBVIOUS
<1> USE DEF DemoInv
<1> DEFINE Elsewhere == UNCHANGED <<frames, line, cached, lost, polling>>
           Still     == UNCHANGED <<qbuf, dcnt, mode, j, k>>
<1>0. Len(Boot) = 11
  BY DEF Boot
<1>1. CASE LinkChanges
  BY <1>1 DEF LinkChanges, DemoTypeOK, mcu, rx, scanner
<1>2. CASE McuSend
  <2>1. PICK f \in Frames : frames' = Append(frames, f) /\ line' = line \o f
    BY <1>2 DEF McuSend
  <2>2. line' \in Seq(Octets)
    BY <2>1, DemoConstants, ConcatProperties
  <2>3. frames' \in Seq(Frames) /\ Len(frames') <= MaxFrames
    <3>1. Len(frames) < MaxFrames /\ frames \in Seq(Frames)
      BY <1>2 DEF McuSend, DemoTypeOK
    <3>2. Len(frames') = Len(frames) + 1 /\ frames' \in Seq(Frames) /\ Len(frames) \in Nat
      BY <2>1, <3>1, AppendProperties, LenProperties
    <3>3. QED
      BY <3>1, <3>2, DemoConstants
  <2>4. QED
    BY <1>2, <2>2, <2>3 DEF McuSend, DemoTypeOK, network, rx, scanner
<1>3. CASE Receive
  <2>1. line # <<>> /\ Cut \in 1 .. RecSize /\ Cut <= Len(line) /\ Len(line) \in Nat
    BY <1>3, CutRecord, LenProperties DEF Receive
  <2>2. Cut \in 0 .. Len(line)
    BY <2>1, DemoConstants
  <2> DEFINE r == SubSeq(line, 1, Cut)
  <2>3. r \in Seq(Octets) /\ Len(r) \in 1 .. RecSize /\ line' \in Seq(Octets)
    BY <1>3, <2>1, <2>2, CutFacts DEF Receive
  <2> HIDE DEF r
  <2>4. /\ cached' \in Seq(Seq(Octets)) /\ Len(cached') <= Cap
        /\ \A i \in 1 .. Len(cached') : Len(cached'[i]) \in 1 .. RecSize
    <3>1. CASE UNCHANGED cached
      BY <3>1 DEF DemoTypeOK
    <3>2. CASE Len(cached) < Cap /\ cached' = Append(cached, r)
      <4>1. /\ Len(cached') = Len(cached) + 1 /\ cached' \in Seq(Seq(Octets)) /\ Len(cached) \in Nat
            /\ \A i \in 1 .. Len(cached) : cached'[i] = cached[i]
            /\ cached'[Len(cached) + 1] = r
        BY <2>3, <3>2, AppendProperties, LenProperties
      <4>2. QED
        BY <2>3, <3>2, <4>1, DemoConstants DEF DemoTypeOK
    <3>3. QED
      BY <1>3, <3>1, <3>2 DEF Receive, r
  <2>5. lost' \in BOOLEAN /\ polling' \in BOOLEAN
    BY <1>3 DEF Receive, DemoTypeOK
  <2>6. QED
    BY <1>3, <2>3, <2>4, <2>5 DEF Receive, DemoTypeOK, network, scanner
<1>4. CASE BootActs
  <2>1. step \in 1 .. 10 /\ step' = step + 1
    BY <1>4, BootStep DEF DemoTypeOK
  <2>2. Elsewhere /\ Still /\ UNCHANGED <<link, done>>
    BY <1>4 DEF BootActs, BootWlan, BootConnect, BootSerial, BootTellMcu, BootPublish, mcu, rx,
                scanner, network
  <2>3. session' \in BOOLEAN
    BY <1>4 DEF BootActs, BootWlan, BootConnect, BootSerial, BootTellMcu, BootPublish, network,
                DemoTypeOK
  <2>4. broker' \in Seq(Msgs)
    <3>1. CASE BootPublish
      <4>1. PICK s \in {"LWT", "config_status", "config_moisture", "config_battery"} :
              Publish(Pub(s, "boot"))
        BY <3>1 DEF BootPublish
      <4>2. Pub(s, "boot") \in Msgs
        BY DEF Pub, Msgs
      <4>3. QED
        BY <4>1, <4>2, AppendProperties DEF Publish
    <3>2. CASE ~ BootPublish
      BY <1>4, <3>2 DEF BootActs, BootWlan, BootConnect, BootSerial, BootTellMcu, network
    <3>3. QED
      BY <3>1, <3>2
  <2>5. step' \in 1 .. Len(Boot)
    BY <1>0, <2>1
  <2>6. UNCHANGED <<link, frames, cached, lost, polling, qbuf, dcnt, mode, j, k, line, done>>
    BY <2>2
  <2>7. QED
    BY ONLY DemoInv, <2>3, <2>4, <2>5, <2>6 DEF DemoTypeOK, DemoInv
<1>5. CASE ReadRecord
  <2>1. /\ cached # <<>> /\ cached' = Tail(cached) /\ dcnt' = Len(Head(cached))
        /\ qbuf' = [i \in DOMAIN qbuf |-> IF i < dcnt' THEN Head(cached)[i + 1] ELSE qbuf[i]]
        /\ mode' = "scan" /\ j' = 0
    BY <1>5 DEF ReadRecord
  <2>2. /\ Len(cached) \in Nat \ {0} /\ Head(cached) = cached[1] /\ cached[1] \in Seq(Octets)
        /\ cached' \in Seq(Seq(Octets)) /\ Len(cached') = Len(cached) - 1
        /\ \A i \in 1 .. Len(cached') : cached'[i] = cached[i + 1]
    <3>1. Len(cached) \in Nat \ {0} /\ Head(cached) = cached[1]
      BY <2>1, EmptySeq, LenProperties
    <3>2. cached[1] \in Seq(Octets)
      BY <3>1, ElementOfSeq
    <3>3. /\ cached' \in Seq(Seq(Octets)) /\ Len(cached') = Len(cached) - 1
          /\ \A i \in 1 .. Len(cached') : cached'[i] = cached[i + 1]
      BY <2>1, HeadTailProperties
    <3>4. QED
      BY <3>1, <3>2, <3>3
  <2>3. dcnt' \in 1 .. RecSize /\ dcnt' = Len(cached[1])
    BY <2>1, <2>2 DEF DemoTypeOK
  <2>4. qbuf' \in [0 .. BufLen - 1 -> 0 .. 255]
    <3>1. \A i \in 1 .. Len(cached[1]) : cached[1][i] \in 0 .. 255
      BY <2>2, ElementOfSeq DEF Octets
    <3>2. ASSUME NEW i \in 0 .. BufLen - 1, i < dcnt' PROVE cached[1][i + 1] \in 0 .. 255
      <4>1. dcnt' = Len(cached[1]) /\ dcnt' \in Nat
        BY <2>3, DemoConstants
      <4>2. i + 1 \in 1 .. Len(cached[1])
        BY <3>2, <4>1, DemoConstants
      <4>3. QED
        BY <3>1, <4>2
    <3>3. QED
      BY <2>1, <2>2, <3>2, ZenonT(40) DEF DemoTypeOK
  <2>5. Len(cached') <= Cap /\ \A i \in 1 .. Len(cached') : Len(cached'[i]) \in 1 .. RecSize
    <3>1. Len(cached) <= Cap /\ \A i \in 1 .. Len(cached) : Len(cached[i]) \in 1 .. RecSize
      BY DEF DemoTypeOK
    <3>2. \A i \in 1 .. Len(cached') : i + 1 \in 1 .. Len(cached)
      BY <2>2
    <3>3. Len(cached') <= Cap
      BY <2>2, <3>1, DemoConstants
    <3>4. QED
      BY <2>2, <3>1, <3>2, <3>3
  <2>6. UNCHANGED <<step, link, session, broker, done, frames, line, lost, polling, k>>
    BY <1>5 DEF ReadRecord, network, mcu
  <2>7. QED
    BY <2>1, <2>2, <2>3, <2>4, <2>5, <2>6, DemoConstants DEF DemoTypeOK
<1>6. CASE ReadNothing \/ ScanEnd \/ ScanSkip \/ ScanReport \/ ScanWifiFunc \/ ScanOther
           \/ ReportUnit \/ ReportEnd
  <2>1. Elsewhere /\ UNCHANGED <<step, link, session, qbuf>>
    BY <1>6 DEF ReadNothing, ScanEnd, ScanSkip, ScanReport, ScanWifiFunc, ScanOther, ReportUnit,
                ReportEnd, mcu, rx, network
  <2>2. dcnt' \in 0 .. RecSize /\ mode' \in {"read", "scan", "units"} /\ j' \in Nat
    <3>0. dcnt \in 0 .. RecSize /\ mode \in {"read", "scan", "units"} /\ j \in Nat /\ RecSize \in Nat
      BY DemoConstants DEF DemoTypeOK
    <3>1. CASE ReadNothing
      BY <3>0, <3>1 DEF ReadNothing
    <3>2. CASE ScanEnd
      BY <3>0, <3>2 DEF ScanEnd
    <3>3. CASE ScanSkip
      <4>1. Matched \in 0 .. 3
        BY DEF Matched
      <4>2. QED
        BY <3>0, <3>3, <4>1 DEF ScanSkip
    <3>4. CASE ScanReport
      BY <3>0, <3>4 DEF ScanReport
    <3>5. CASE ScanWifiFunc
      BY <3>0, <3>5 DEF ScanWifiFunc
    <3>6. CASE ScanOther
      BY <3>0, <3>6 DEF ScanOther
    <3>7. CASE ReportUnit
      BY <3>0, <3>7 DEF ReportUnit
    <3>8. CASE ReportEnd
      BY <3>0, <3>8 DEF ReportEnd
    <3>9. QED
      BY <1>6, <3>1, <3>2, <3>3, <3>4, <3>5, <3>6, <3>7, <3>8
  <2>4. k' \in Nat
    <3>1. CASE ScanReport
      <4>1. j < dcnt /\ k' = j + 6 + Word(qbuf[j + 4], qbuf[j + 5]) /\ j \in Nat
        BY <3>1 DEF ScanReport, DemoTypeOK
      <4>2. qbuf[j + 4] \in Nat /\ qbuf[j + 5] \in Nat
        <5>1. 4 \in 0 .. 5 /\ 5 \in 0 .. 5 /\ Octets \subseteq Nat
          BY DEF Octets
        <5>2. QED
          BY <4>1, <5>1, LooksAtOctets
      <4>3. QED
        BY <4>1, <4>2, SMTT(30) DEF Word
    <3>2. CASE ~ ScanReport
      BY <1>6, <3>2 DEF ReadNothing, ScanEnd, ScanSkip, ScanWifiFunc, ScanOther, ReportUnit,
                        ReportEnd, DemoTypeOK
    <3>3. QED
      BY <3>1, <3>2
  <2>5. broker' \in Seq(Msgs) /\ done' \in Seq(Msgs)
    <3>1. CASE ReportUnit
      <4>1. PICK u : /\ u = Unit(qbuf[j], qbuf[j + 1], Word(qbuf[j + 2], qbuf[j + 3]), qbuf[j + 4])
                     /\ done' = done \o u
                     /\ IF u = <<>> THEN UNCHANGED broker ELSE Publish(u[1])
        BY <3>1 DEF ReportUnit
      <4>2. CASE u = <<>>
        BY <4>1, <4>2, ConcatEmptySeq
      <4>3. CASE u # <<>>
        <5>1. PICK p \in Msgs : u = <<p>>
          BY <4>1, <4>3, UnitForm
        <5>2. u[1] = p /\ u \in Seq(Msgs)
          BY <5>1
        <5>3. done' \in Seq(Msgs)
          BY <4>1, <5>2, ConcatProperties
        <5>4. broker' \in Seq(Msgs)
          <6>1. Publish(p)
            BY <4>1, <4>3, <5>2
          <6>2. QED
            BY <6>1, AppendProperties DEF Publish
        <5>5. QED
          BY <5>3, <5>4
      <4>4. QED
        BY <4>2, <4>3
    <3>2. CASE ScanWifiFunc
      <4>1. WifiFunc \in Msgs
        BY DEF WifiFunc, Pub, Msgs
      <4>2. QED
        BY <3>2, <4>1, AppendProperties DEF ScanWifiFunc, network
    <3>3. CASE ReadNothing \/ ScanEnd \/ ScanSkip \/ ScanReport \/ ScanOther \/ ReportEnd
      BY <3>3 DEF ReadNothing, ScanEnd, ScanSkip, ScanReport, ScanOther, ReportEnd, network
    <3>4. QED
      BY <1>6, <3>1, <3>2, <3>3
  <2>6. QED
    BY <2>1, <2>2, <2>4, <2>5 DEF DemoTypeOK
<1>7. CASE UNCHANGED demo
  BY <1>7 DEF demo, network, mcu, rx, scanner, DemoTypeOK
<1>8. QED
  BY <1>1, <1>2, <1>3, <1>4, <1>5, <1>6, <1>7 DEF DemoNext, Main, BootActs

\* Before main runs every fact of the invariant holds.
LEMMA DemoStart == DemoInit => DemoInv
<1> SUFFICES ASSUME DemoInit PROVE DemoInv
  OBVIOUS
<1>1. Len(Boot) = 11 /\ Len(<<>>) = 0
  BY DEF Boot
<1>2. link \in BOOLEAN
  BY DEF DemoInit
<1>3. /\ line \in Seq(Octets) /\ cached \in Seq(Seq(Octets)) /\ frames \in Seq(Frames)
      /\ broker \in Seq(Msgs) /\ done \in Seq(Msgs)
  BY DEF DemoInit
<1>4. qbuf \in [0 .. BufLen - 1 -> 0 .. 255] /\ dcnt \in 0 .. RecSize
  BY DemoConstants DEF DemoInit
<1>5. step \in 1 .. Len(Boot)
  BY <1>1 DEF DemoInit
<1>6. Len(frames) <= MaxFrames /\ Len(cached) <= Cap /\ 1 .. Len(cached) = {}
  BY <1>1, DemoConstants DEF DemoInit
<1>7. QED
  BY <1>2, <1>3, <1>4, <1>5, <1>6 DEF DemoInit, DemoInv, DemoTypeOK

\* main reads and writes inside queue_buf, the cache holds Cap records of
\* RecSize bytes at most, for every frame the MCU may send.
THEOREM DemoTypeCorrect == DemoSpec => []DemoTypeOK
<1>1. DemoInv => DemoTypeOK
  BY DEF DemoInv
<1>2. QED
  BY <1>1, DemoStart, DemoTypeStep, PTL DEF DemoSpec

-----------------------------------------------------------------------------
(* AtDemo: what the broker accepted.                                       *)

Boots(s) == {i \in DOMAIN s : s[i].payload = "boot"}

\* s is messages of the boot, and then those of d at the indices of sel.
Picks(s, d, sel) ==
  /\ sel \in SUBSET DOMAIN d
  /\ Cardinality(Boots(s)) + Cardinality(sel) = Len(s)
  /\ \A m \in sel : s[Cardinality(Boots(s)) + Cardinality({x \in sel : x <= m})] = d[m]

InOrder(s, d) == \E sel : Picks(s, d, sel)

\* A set of indices is finite, and so are the parts of it.
LEMMA PickFinite ==
  ASSUME NEW d \in Seq(Msgs), NEW sel \in SUBSET DOMAIN d
  PROVE  /\ IsFiniteSet(sel) /\ Cardinality(sel) \in Nat /\ sel \subseteq 1 .. Len(d)
         /\ \A m : Cardinality({x \in sel : x <= m}) \in 0 .. Cardinality(sel)
<1>1. DOMAIN d = 1 .. Len(d) /\ Len(d) \in Nat
  BY LenProperties
<1>2. IsFiniteSet(sel) /\ Cardinality(sel) \in Nat
  <2>1. 1 \in Int /\ Len(d) \in Int
    BY <1>1
  <2>2. IsFiniteSet(1 .. Len(d)) /\ sel \in SUBSET (1 .. Len(d))
    BY <1>1, <2>1, FS_Interval
  <2>3. QED
    BY <2>2, FS_Subset, FS_CardinalityType
<1>3. ASSUME NEW m PROVE Cardinality({x \in sel : x <= m}) \in 0 .. Cardinality(sel)
  <2>1. {x \in sel : x <= m} \subseteq sel
    OBVIOUS
  <2> DEFINE T == {x \in sel : x <= m}
  <2>2. T \subseteq sel
    BY <2>1
  <2> HIDE DEF T
  <2>3. IsFiniteSet(T) /\ Cardinality(T) <= Cardinality(sel) /\ Cardinality(T) \in Nat
    BY <1>2, <2>2, FS_Subset, FS_CardinalityType
  <2>4. Cardinality(T) \in 0 .. Cardinality(sel)
    BY <1>2, <2>3
  <2>5. QED
    BY <2>4 DEF T
<1>4. QED
  BY <1>1, <1>2, <1>3

\* The messages of the boot among those of s are finitely many.
LEMMA BootsFinite ==
  ASSUME NEW s \in Seq(Msgs)
  PROVE  IsFiniteSet(Boots(s)) /\ Cardinality(Boots(s)) \in Nat
<1>1. DOMAIN s = 1 .. Len(s) /\ Len(s) \in Nat
  BY LenProperties
<1>2. Boots(s) \subseteq 1 .. Len(s)
  BY <1>1 DEF Boots
<1>3. 1 \in Int /\ Len(s) \in Int
  BY <1>1
<1>4. IsFiniteSet(1 .. Len(s)) /\ Boots(s) \in SUBSET (1 .. Len(s))
  BY <1>2, <1>3, FS_Interval
<1>5. QED
  BY <1>4, FS_Subset, FS_CardinalityType

\* A message that is lost changes nothing of what was accepted.
LEMMA PickLost ==
  ASSUME NEW s, NEW d \in Seq(Msgs), NEW p \in Msgs, InOrder(s, d)
  PROVE  InOrder(s, Append(d, p))
<1>1. PICK sel : Picks(s, d, sel)
  BY DEF InOrder
<1>2. /\ DOMAIN d = 1 .. Len(d) /\ Len(d) \in Nat
      /\ DOMAIN Append(d, p) = 1 .. Len(d) + 1
      /\ \A m \in 1 .. Len(d) : Append(d, p)[m] = d[m]
  BY AppendProperties, LenProperties
<1>3. sel \in SUBSET DOMAIN Append(d, p) /\ \A m \in sel : Append(d, p)[m] = d[m]
  BY <1>1, <1>2 DEF Picks
<1>4. Picks(s, Append(d, p), sel)
  BY <1>1, <1>3 DEF Picks
<1>5. QED
  BY <1>4 DEF InOrder

\* A message of the loop that is accepted comes after all others.
LEMMA PickAccepted ==
  ASSUME NEW s \in Seq(Msgs), NEW d \in Seq(Msgs), NEW p \in Msgs,
         p.payload # "boot", InOrder(s, d)
  PROVE  InOrder(Append(s, p), Append(d, p))
<1>1. PICK sel : Picks(s, d, sel)
  BY DEF InOrder
<1> DEFINE n == Len(d) + 1
           all == sel \cup {n}
           t == Append(s, p)
           e == Append(d, p)
           b == Cardinality(Boots(s))
<1>2. /\ DOMAIN d = 1 .. Len(d) /\ Len(d) \in Nat
      /\ DOMAIN e = 1 .. n /\ e[n] = p
      /\ \A m \in 1 .. Len(d) : e[m] = d[m]
  BY AppendProperties, LenProperties
<1>3. /\ DOMAIN s = 1 .. Len(s) /\ Len(s) \in Nat
      /\ DOMAIN t = 1 .. Len(s) + 1 /\ Len(t) = Len(s) + 1 /\ t[Len(s) + 1] = p
      /\ \A m \in 1 .. Len(s) : t[m] = s[m]
  BY AppendProperties, LenProperties
<1>4. Boots(t) = Boots(s)
  BY <1>3 DEF Boots
<1>5. sel \in SUBSET DOMAIN d
  BY <1>1 DEF Picks
<1>6. /\ IsFiniteSet(sel) /\ Cardinality(sel) \in Nat /\ sel \subseteq 1 .. Len(d)
      /\ \A m : Cardinality({x \in sel : x <= m}) \in 0 .. Cardinality(sel)
  BY <1>5, PickFinite
<1>7. b \in Nat /\ b + Cardinality(sel) = Len(s)
  BY <1>1, BootsFinite DEF Picks
<1>8. Cardinality(all) = Cardinality(sel) + 1
  <2>1. n \notin sel
    BY <1>2, <1>6
  <2>2. QED
    BY <1>6, <2>1, FS_AddElement
<1>9. all \in SUBSET DOMAIN e
  <2>1. 1 .. Len(d) \subseteq 1 .. n /\ n \in 1 .. n
    BY <1>2
  <2>2. QED
    BY <1>2, <1>6, <2>1
<1>10. ASSUME NEW m \in sel PROVE t[b + Cardinality({x \in all : x <= m})] = e[m]
  <2>1. {x \in all : x <= m} = {x \in sel : x <= m}
    BY <1>2, <1>6
  <2>2. Cardinality({x \in sel : x <= m}) \in 1 .. Cardinality(sel)
    <3> DEFINE T == {x \in sel : x <= m}
    <3>1. Cardinality(T) \in 0 .. Cardinality(sel)
      BY <1>6
    <3>2. T \subseteq sel /\ m \in T
      BY <1>6
    <3> HIDE DEF T
    <3>3. Cardinality(T) # 0
      BY <1>6, <3>2, FS_Subset, FS_EmptySet
    <3>4. Cardinality(T) \in 1 .. Cardinality(sel)
      BY <1>6, <3>1, <3>3
    <3>5. QED
      BY <3>4 DEF T
  <2>3. s[b + Cardinality({x \in sel : x <= m})] = d[m]
    BY <1>1 DEF Picks
  <2> DEFINE c == Cardinality({x \in sel : x <= m})
  <2>4. c \in 1 .. Cardinality(sel) /\ s[b + c] = d[m]
    BY <2>2, <2>3
  <2>5. Cardinality({x \in all : x <= m}) = c
    BY <2>1
  <2> HIDE DEF c, t, e, all, b
  <2>6. b + c \in 1 .. Len(s)
    BY <1>6, <1>7, <2>4, <1>3
  <2>7. t[b + c] = s[b + c] /\ e[m] = d[m]
    BY <1>2, <1>3, <1>6, <2>6
  <2>8. QED
    BY <2>4, <2>5, <2>7
<1>11. t[b + Cardinality({x \in all : x <= n})] = e[n]
  <2>0. n <= n /\ \A x \in 1 .. Len(d) : x <= n
    BY <1>2
  <2>1. {x \in all : x <= n} = all
    BY <1>6, <2>0
  <2>2. b + Cardinality(all) = Len(s) + 1
    BY <1>6, <1>7, <1>8, <1>3
  <2> HIDE DEF all, b, t, e
  <2>3. QED
    BY <1>2, <1>3, <2>1, <2>2
<1>12. b + Cardinality(all) = Len(t)
  BY <1>3, <1>6, <1>7, <1>8
<1>13. \A m \in all : t[b + Cardinality({x \in all : x <= m})] = e[m]
  BY <1>10, <1>11
<1>14. Picks(t, e, all)
  <2> HIDE DEF all, t, e
  <2>1. QED
    BY <1>4, <1>9, <1>12, <1>13 DEF Picks
<1>15. QED
  BY <1>14 DEF InOrder

\* While main boots, the broker accepts messages of the boot only.
LEMMA PickBoot ==
  ASSUME NEW s \in Seq(Msgs), \A i \in 1 .. Len(s) : s[i].payload = "boot"
  PROVE  InOrder(s, <<>>)
<1>1. Boots(s) = 1 .. Len(s) /\ Len(s) \in Nat
  BY LenProperties DEF Boots
<1>2. Cardinality(Boots(s)) = Len(s)
  <2>1. 1 \in Int /\ Len(s) \in Int
    BY <1>1
  <2>2. Cardinality(1 .. Len(s)) = IF 1 > Len(s) THEN 0 ELSE Len(s) - 1 + 1
    BY <2>1, FS_Interval
  <2>3. QED
    BY <1>1, <2>2
<1>3. Cardinality({}) = 0
  BY FS_EmptySet
<1>4. Picks(s, <<>>, {})
  BY <1>1, <1>2, <1>3 DEF Picks
<1>5. QED
  BY <1>4 DEF InOrder

\* main publishes nothing of the loop before the boot is over.
BootOnly == /\ done = <<>>
            /\ \A i \in 1 .. Len(broker) : broker[i].payload = "boot"

OrderInv == DemoInv /\ (Boot[step] # "loop" => BootOnly) /\ InOrder(broker, done)

LEMMA OrderStep == OrderInv /\ [DemoNext]_demo => OrderInv'
<1> SUFFICES ASSUME OrderInv, [DemoNext]_demo PROVE OrderInv'
  OBVIOUS
<1>1. DemoInv /\ DemoInv' /\ InOrder(broker, done)
  BY DemoTypeStep DEF OrderInv
<1>2. broker \in Seq(Msgs) /\ done \in Seq(Msgs) /\ broker' \in Seq(Msgs)
  BY <1>1 DEF DemoInv
<1>3. CASE BootActs
  <2>1. Boot[step] # "loop" /\ BootOnly
    BY <1>1, <1>3, BootStep DEF DemoInv, DemoTypeOK, OrderInv
  <2>2. done' = <<>>
    BY <1>3, <2>1 DEF BootActs, BootWlan, BootConnect, BootSerial, BootTellMcu, BootPublish,
                      BootOnly
  <2>3. \A i \in 1 .. Len(broker') : broker'[i].payload = "boot"
    <3>1. CASE UNCHANGED broker
      BY <2>1, <3>1 DEF BootOnly
    <3>2. CASE broker' # broker
      <4>1. PICK c : broker' = Append(broker, Pub(c, "boot"))
        BY <1>3, <3>2 DEF BootActs, BootWlan, BootConnect, BootSerial, BootTellMcu, BootPublish,
                          Publish, network
      <4>2. /\ Len(broker) \in Nat /\ Len(broker') = Len(broker) + 1
            /\ \A i \in 1 .. Len(broker) : broker'[i] = broker[i]
            /\ broker'[Len(broker) + 1] = Pub(c, "boot")
        <5>1. broker \in Seq(Msgs \cup {Pub(c, "boot")})
          BY <1>2, ElementOfSeq, LenProperties, IsASeq
        <5>2. QED
          BY <4>1, <5>1, AppendProperties, LenProperties
      <4>3. Pub(c, "boot").payload = "boot"
        BY DEF Pub
      <4>4. QED
        BY <2>1, <4>2, <4>3 DEF BootOnly
    <3>3. QED
      BY <3>1, <3>2
  <2>4. InOrder(broker', done')
    BY <1>2, <2>2, <2>3, PickBoot
  <2>5. QED
    BY <1>1, <2>2, <2>3, <2>4 DEF OrderInv, BootOnly
<1>4. CASE ReportUnit
  <2>1. Boot[step'] = "loop"
    BY <1>4 DEF ReportUnit, In, At
  <2>2. PICK u : /\ u = Unit(qbuf[j], qbuf[j + 1], Word(qbuf[j + 2], qbuf[j + 3]), qbuf[j + 4])
                 /\ done' = done \o u
                 /\ IF u = <<>> THEN UNCHANGED broker ELSE Publish(u[1])
    BY <1>4 DEF ReportUnit
  <2>3. CASE u = <<>>
    BY <1>1, <1>2, <2>1, <2>2, <2>3, ConcatEmptySeq DEF OrderInv
  <2>4. CASE u # <<>>
    <3>1. PICK p \in Msgs : u = <<p>> /\ p.payload # "boot"
      BY <2>2, <2>4, UnitForm
    <3>2. u[1] = p /\ done \o u = Append(done, p)
      BY <1>2, <3>1
    <3>3. done' = Append(done, p) /\ Publish(p)
      BY <2>2, <2>4, <3>2
    <3>4. InOrder(broker', done')
      BY <1>1, <1>2, <3>1, <3>3, PickLost, PickAccepted DEF Publish
    <3>5. QED
      BY <1>1, <2>1, <3>4 DEF OrderInv
  <2>5. QED
    BY <2>3, <2>4
<1>5. CASE ScanWifiFunc
  <2>1. Boot[step'] = "loop" /\ done' = Append(done, WifiFunc) /\ broker' = broker
    BY <1>5 DEF ScanWifiFunc, In, At, network
  <2>2. WifiFunc \in Msgs
    BY DEF WifiFunc, Pub, Msgs
  <2>3. InOrder(broker', done')
    BY <1>1, <1>2, <2>1, <2>2, PickLost
  <2>4. QED
    BY <1>1, <2>1, <2>3 DEF OrderInv
<1>6. CASE \/ LinkChanges \/ McuSend \/ Receive \/ ReadRecord \/ ReadNothing
           \/ ScanEnd \/ ScanSkip \/ ScanReport \/ ScanOther \/ ReportEnd \/ UNCHANGED demo
  <2>1. UNCHANGED <<step, broker, done>>
    BY <1>6 DEF LinkChanges, McuSend, Receive, ReadRecord, ReadNothing, ScanEnd, ScanSkip,
                ScanReport, ScanOther, ReportEnd, demo, network
  <2>2. QED
    BY <1>1, <2>1 DEF OrderInv, BootOnly
<1>7. QED
  BY <1>3, <1>4, <1>5, <1>6 DEF DemoNext, Main, BootActs

\* What the broker accepted is what main published, in its order and nothing
\* twice, the messages of the boot before all others, whatever the network does.
THEOREM AcceptedCorrect == DemoSpec => []AcceptedInOrder
<1>1. DemoInit => OrderInv
  <2> SUFFICES ASSUME DemoInit PROVE OrderInv
    OBVIOUS
  <2>0. Len(broker) = 0 /\ broker = <<>> /\ done = <<>>
    BY DEF DemoInit
  <2>1. DemoInv /\ BootOnly
    BY <2>0, DemoStart DEF BootOnly
  <2>2. InOrder(broker, done)
    BY <2>1, PickBoot DEF DemoInv, BootOnly
  <2>3. QED
    BY <2>1, <2>2 DEF OrderInv
<1>2. OrderInv => AcceptedInOrder
  BY DEF OrderInv, InOrder, Picks, Boots, AcceptedInOrder
<1>3. QED
  BY <1>1, <1>2, OrderStep, PTL DEF DemoSpec

-----------------------------------------------------------------------------
(* AtDemo: what the frames ask for.                                        *)

\* A unit of the data d begins at p; where the next one does; and what the
\* units ask for from there on, with g what they ask for behind it.
UnitAt(d, p)   == Unit(d[p], d[p + 1], Word(d[p + 2], d[p + 3]), d[p + 4])
NextUnit(d, p) == p + 4 + Word(d[p + 2], d[p + 3])
FromAt(d, g, p) ==
  IF p + 4 > Len(d) THEN <<>>
  ELSE UnitAt(d, p) \o (IF NextUnit(d, p) > Len(d) THEN <<>> ELSE g[NextUnit(d, p)])

IsFrom(d, g) == g = [p \in 1 .. Len(d) + 1 |-> FromAt(d, g, p)]

From(d) == CHOOSE g : IsFrom(d, g)

LEMMA WordNat ==
  ASSUME NEW x \in Octets, NEW y \in Octets
  PROVE  Word(x, y) \in Nat
BY DEF Word, Octets

\* A unit asks for a sequence of messages, and the next one is behind it.
LEMMA UnitFacts ==
  ASSUME NEW d \in Seq(Octets), NEW p \in 1 .. Len(d), p + 4 <= Len(d)
  PROVE  UnitAt(d, p) \in Seq(Msgs) /\ NextUnit(d, p) \in Nat /\ NextUnit(d, p) > p
<1>1. UnitAt(d, p) \in Seq(Msgs)
  <2>1. CASE UnitAt(d, p) = <<>>
    BY <2>1
  <2>2. CASE UnitAt(d, p) # <<>>
    <3>1. PICK v \in Msgs : UnitAt(d, p) = <<v>>
      BY <2>2, UnitForm DEF UnitAt
    <3>2. QED
      BY <3>1
  <2>3. QED
    BY <2>1, <2>2
<1>2. Len(d) \in Nat /\ \A i \in 1 .. Len(d) : d[i] \in Octets
  BY ElementOfSeq, LenProperties
<1>3. p + 2 \in 1 .. Len(d) /\ p + 3 \in 1 .. Len(d)
  BY <1>2
<1>4. Word(d[p + 2], d[p + 3]) \in Nat
  BY <1>2, <1>3, WordNat
<1>5. QED
  BY <1>1, <1>4 DEF NextUnit

\* What is asked for from p on is settled by what is asked for behind it.
LEMMA FromFacts ==
  ASSUME NEW d \in Seq(Octets), NEW p \in 1 .. Len(d) + 1, NEW g,
         \A q \in p + 1 .. Len(d) + 1 : g[q] \in Seq(Msgs)
  PROVE  /\ FromAt(d, g, p) \in Seq(Msgs)
         /\ \A h : (\A q \in p + 1 .. Len(d) + 1 : h[q] = g[q]) => FromAt(d, h, p) = FromAt(d, g, p)
<1>0. Len(d) \in Nat
  BY LenProperties
<1>1. CASE p + 4 > Len(d)
  BY <1>1 DEF FromAt
<1>2. CASE ~ (p + 4 > Len(d))
  <2>1. p \in 1 .. Len(d) /\ p + 4 <= Len(d)
    BY <1>0, <1>2
  <2>2. UnitAt(d, p) \in Seq(Msgs) /\ NextUnit(d, p) \in Nat /\ NextUnit(d, p) > p
    BY <2>1, UnitFacts
  <2> DEFINE m == NextUnit(d, p)
  <2>3. m > Len(d) \/ m \in p + 1 .. Len(d) + 1
    BY <1>0, <2>2
  <2>4. \A h : FromAt(d, h, p) = UnitAt(d, p) \o (IF m > Len(d) THEN <<>> ELSE h[m])
    BY <1>2 DEF FromAt
  <2> HIDE DEF m
  <2> DEFINE r == IF m > Len(d) THEN <<>> ELSE g[m]
  <2>5. r \in Seq(Msgs) /\ FromAt(d, g, p) = UnitAt(d, p) \o r
    BY <2>3, <2>4
  <2> HIDE DEF r
  <2>6. FromAt(d, g, p) \in Seq(Msgs)
    BY <2>2, <2>5, ConcatProperties
  <2>7. ASSUME NEW h, \A q \in p + 1 .. Len(d) + 1 : h[q] = g[q]
        PROVE  FromAt(d, h, p) = FromAt(d, g, p)
    BY <2>3, <2>4, <2>7
  <2>8. QED
    BY <2>6, <2>7
<1>3. QED
  BY <1>1, <1>2

\* There is a function of what is asked for from each place on.
LEMMA FromExists ==
  ASSUME NEW d \in Seq(Octets)
  PROVE  \E g \in [1 .. Len(d) + 1 -> Seq(Msgs)] : IsFrom(d, g)
<1> DEFINE n == Len(d) + 1
           Right(m, g) == \A p \in n - m .. n : g[p] = FromAt(d, g, p)
           Bad == {m \in 0 .. Len(d) : ~ \E g \in [n - m .. n -> Seq(Msgs)] : Right(m, g)}
<1>1. n \in Nat \ {0} /\ Len(d) \in Nat
  BY LenProperties
<1>2. ASSUME Bad # {} PROVE FALSE
  <2>1. Bad \in SUBSET Nat
    BY <1>1
  <2>2. PICK m \in Bad : \A i \in Bad : m <= i
    <3> HIDE DEF Bad
    <3>1. QED
      BY <1>2, <2>1, LeastNatural
  <2>3. m \in 0 .. Len(d) /\ m \in Nat /\ n - m \in 1 .. n
    BY <1>1
  <2>4. PICK g \in [n - m + 1 .. n -> Seq(Msgs)] : \A p \in n - m + 1 .. n : g[p] = FromAt(d, g, p)
    <3>1. CASE m = 0
      <4> DEFINE g == [p \in n - m + 1 .. n |-> <<>>]
      <4>1. n - m + 1 .. n = {}
        BY <1>1, <2>3, <3>1
      <4>2. g \in [n - m + 1 .. n -> Seq(Msgs)]
        BY <4>1
      <4>3. \A p \in n - m + 1 .. n : g[p] = FromAt(d, g, p)
        BY <4>1
      <4> HIDE DEF g, n
      <4>4. QED
        BY <4>2, <4>3
    <3>2. CASE m # 0
      <4>1. m - 1 \in 0 .. Len(d) /\ ~ (m <= m - 1) /\ n - (m - 1) = n - m + 1
        BY <1>1, <2>3, <3>2
      <4>2. m - 1 \notin Bad
        BY <2>2, <4>1
      <4>3. PICK g \in [n - (m - 1) .. n -> Seq(Msgs)] : Right(m - 1, g)
        BY <4>1, <4>2
      <4> HIDE DEF n
      <4>4. QED
        BY <4>1, <4>3
    <3>3. QED
      BY <3>1, <3>2
  <2> DEFINE a == n - m
             h == [p \in a .. n |-> IF p = a THEN FromAt(d, g, a) ELSE g[p]]
  <2>5. a \in 1 .. Len(d) + 1 /\ a \in Int /\ n \in Int /\ a <= n
    BY <1>1, <2>3
  <2>6. \A q \in a + 1 .. n : q \in a .. n /\ q # a /\ h[q] = g[q] /\ g[q] \in Seq(Msgs)
    BY <2>5
  <2>7. a \in a .. n /\ h[a] = FromAt(d, g, a)
    BY <2>5
  <2>8. FromAt(d, g, a) \in Seq(Msgs) /\ FromAt(d, h, a) = FromAt(d, g, a)
    <3> HIDE DEF h, a
    <3>1. QED
      BY <2>5, <2>6, FromFacts
  <2>9. h \in [a .. n -> Seq(Msgs)]
    <3>1. \A p \in a .. n : p # a => p \in a + 1 .. n
      BY <2>5
    <3> HIDE DEF a
    <3>2. QED
      BY <2>6, <2>8, <3>1
  <2>10. ASSUME NEW p \in a .. n PROVE h[p] = FromAt(d, h, p)
    <3>1. CASE p = a
      BY <2>7, <2>8, <3>1
    <3>2. CASE p # a
      <4>1. p \in a + 1 .. n /\ p \in 1 .. Len(d) + 1
        BY <2>5, <3>2
      <4>2. \A q \in p + 1 .. Len(d) + 1 : q \in a + 1 .. n
        BY <2>5, <4>1
      <4>3. h[p] = g[p] /\ g[p] = FromAt(d, g, p)
        BY <2>4, <2>6, <4>1
      <4>4. FromAt(d, h, p) = FromAt(d, g, p)
        <5> HIDE DEF h, a, n
        <5>1. QED
          BY <2>6, <4>1, <4>2, FromFacts
      <4>5. QED
        BY <4>3, <4>4
    <3>3. QED
      BY <3>1, <3>2
  <2>11. QED
    <3> HIDE DEF h, n
    <3>1. Right(m, h)
      BY <2>10
    <3>2. QED
      BY <2>2, <2>9, <3>1
<1>3. PICK g \in [n - Len(d) .. n -> Seq(Msgs)] : Right(Len(d), g)
  <2>1. Len(d) \in 0 .. Len(d) /\ Len(d) \notin Bad
    BY <1>1, <1>2
  <2>2. QED
    BY <2>1
<1>4. n - Len(d) = 1
  BY <1>1
<1>5. IsFrom(d, g)
  BY <1>3, <1>4 DEF IsFrom
<1>6. QED
  BY <1>3, <1>4, <1>5

\* What the units of d ask for, from one place on.
LEMMA FromType ==
  ASSUME NEW d \in Seq(Octets)
  PROVE  \A p \in 1 .. Len(d) + 1 : From(d)[p] = FromAt(d, From(d), p) /\ From(d)[p] \in Seq(Msgs)
<1>1. IsFrom(d, From(d))
  BY FromExists DEF From
<1> DEFINE g == From(d)
           n == Len(d) + 1
           Bad == {m \in 0 .. Len(d) : g[n - m] \notin Seq(Msgs)}
<1>2. n \in Nat \ {0} /\ Len(d) \in Nat
  BY LenProperties
<1>3. \A p \in 1 .. n : g[p] = FromAt(d, g, p)
  <2> HIDE DEF g
  <2>1. QED
    BY <1>1 DEF IsFrom, g
<1> HIDE DEF g
<1>4. ASSUME Bad # {} PROVE FALSE
  <2>1. Bad \in SUBSET Nat
    BY <1>2
  <2>2. PICK m \in Bad : \A i \in Bad : m <= i
    <3> HIDE DEF Bad
    <3>1. QED
      BY <1>4, <2>1, LeastNatural
  <2>3. m \in 0 .. Len(d) /\ m \in Nat /\ n - m \in 1 .. n /\ g[n - m] \notin Seq(Msgs)
    BY <1>2
  <2>4. ASSUME NEW q \in n - m + 1 .. n PROVE g[q] \in Seq(Msgs)
    <3>1. n - q \in 0 .. Len(d) /\ ~ (m <= n - q) /\ n - (n - q) = q
      BY <1>2, <2>3
    <3>2. n - q \notin Bad
      BY <2>2, <3>1
    <3>3. QED
      BY <3>1, <3>2
  <2>5. FromAt(d, g, n - m) \in Seq(Msgs)
    BY <2>3, <2>4, FromFacts
  <2>6. QED
    BY <1>3, <2>3, <2>5
<1>5. ASSUME NEW p \in 1 .. n PROVE g[p] \in Seq(Msgs)
  <2>1. n - p \in 0 .. Len(d) /\ n - (n - p) = p
    BY <1>2
  <2>2. n - p \notin Bad
    BY <1>4
  <2>3. QED
    BY <2>1, <2>2
<1>6. QED
  BY <1>3, <1>5 DEF g

\* The data of a frame.
DataOf(f) == SubSeq(f, 7, 6 + Word(f[5], f[6]))

\* What is asked for from p on, the end of the data included.
After(d, p) == IF p > Len(d) THEN <<>> ELSE From(d)[p]

LEMMA UnitsFrom ==
  ASSUME NEW d \in Seq(Octets)
  PROVE  Units(d) = After(d, 1) /\ \A p \in 1 .. Len(d) + 1 : After(d, p) \in Seq(Msgs)
<1>1. Len(d) \in Nat
  BY LenProperties
<1>2. Units(d) = From(d)[1]
  BY DEF Units, From, IsFrom, FromAt, UnitAt, NextUnit
<1>3. 1 \in 1 .. Len(d) + 1
  BY <1>1
<1>4. Len(d) = 0 => From(d)[1] = <<>>
  <2>1. From(d)[1] = FromAt(d, From(d), 1)
    BY <1>3, FromType
  <2>2. QED
    BY <2>1 DEF FromAt
<1>5. QED
  BY <1>1, <1>2, <1>3, <1>4, FromType DEF After

\* The data of a regular report is units of five bytes.
LEMMA DataFacts ==
  ASSUME NEW f \in Seq(Octets), Regular(f), f[4] = 5
  PROVE  /\ DataOf(f) \in Seq(Octets) /\ Len(DataOf(f)) = Len(f) - 7 /\ Len(DataOf(f)) \in Nat
         /\ Word(f[5], f[6]) = Len(DataOf(f)) /\ Len(DataOf(f)) % 5 = 0
         /\ \A p \in 1 .. Len(DataOf(f)) : DataOf(f)[p] = f[p + 6]
         /\ \A p \in 1 .. Len(DataOf(f)) :
              p % 5 = 1 => p + 4 <= Len(DataOf(f)) /\ NextUnit(DataOf(f), p) = p + 5
<1>1. Len(f) \in Nat /\ \A i \in 1 .. Len(f) : f[i] \in Octets
  BY ElementOfSeq, LenProperties
<1> DEFINE n == Word(f[5], f[6])
           d == DataOf(f)
<1>2. /\ Len(f) = 7 + n /\ n % 5 = 0
      /\ \A x \in 7 .. Len(f) - 1 : x % 5 = 2 => Word(f[x + 2], f[x + 3]) = 1
  BY DEF Regular
<1>3. n \in Nat
  <2>1. 5 \in 1 .. Len(f) /\ 6 \in 1 .. Len(f)
    BY <1>1 DEF Regular
  <2>2. QED
    BY <1>1, <2>1, WordNat
<1>4. d = SubSeq(f, 7, 6 + n)
  BY DEF DataOf
<1> HIDE DEF n, d
<1>5. d \in Seq(Octets) /\ Len(d) = n /\ \A p \in 1 .. n : d[p] = f[p + 6]
  <2>1. 7 \in 1 .. Len(f) + 1 /\ 6 + n \in 7 - 1 .. Len(f)
    BY <1>1, <1>2, <1>3
  <2>2. /\ SubSeq(f, 7, 6 + n) \in Seq(Octets)
        /\ Len(SubSeq(f, 7, 6 + n)) = IF 7 <= 6 + n THEN 6 + n - 7 + 1 ELSE 0
        /\ \A i \in 1 .. 6 + n - 7 + 1 : SubSeq(f, 7, 6 + n)[i] = f[7 + i - 1]
    BY <1>1, <1>3, <2>1, SubSeqProperties
  <2>3. 6 + n - 7 + 1 = n /\ (7 <= 6 + n <=> n # 0)
    BY <1>3
  <2>4. \A p \in 1 .. n : 7 + p - 1 = p + 6
    BY <1>3
  <2>5. QED
    BY <1>3, <1>4, <2>2, <2>3, <2>4
<1>6. ASSUME NEW p \in 1 .. n, p % 5 = 1 PROVE p + 4 <= n /\ NextUnit(d, p) = p + 5
  <2>1. p + 4 <= n
    BY <1>2, <1>3, <1>6
  <2>2. p + 2 \in 1 .. n /\ p + 3 \in 1 .. n /\ p + 6 \in 7 .. Len(f) - 1 /\ (p + 6) % 5 = 2
    BY <1>2, <1>3, <1>6, <2>1
  <2>3. Word(f[p + 6 + 2], f[p + 6 + 3]) = 1
    BY <1>2, <2>2
  <2>4. d[p + 2] = f[p + 6 + 2] /\ d[p + 3] = f[p + 6 + 3]
    <3>1. p + 2 + 6 = p + 6 + 2 /\ p + 3 + 6 = p + 6 + 3
      BY <1>3
    <3>2. QED
      BY <1>5, <2>2, <3>1
  <2>5. QED
    BY <2>1, <2>3, <2>4 DEF NextUnit
<1>7. QED
  BY <1>1, <1>2, <1>3, <1>5, <1>6 DEF n, d

\* What a regular report asks for, a unit after the other.
LEMMA AfterStep ==
  ASSUME NEW f \in Seq(Octets), Regular(f), f[4] = 5,
         NEW p \in 1 .. Len(DataOf(f)), p % 5 = 1
  PROVE  /\ After(DataOf(f), p) = UnitAt(DataOf(f), p) \o After(DataOf(f), p + 5)
         /\ UnitAt(DataOf(f), p) \in Seq(Msgs) /\ After(DataOf(f), p + 5) \in Seq(Msgs)
         /\ p + 5 \in 1 .. Len(DataOf(f)) + 1
<1> DEFINE d == DataOf(f)
<1>1. d \in Seq(Octets) /\ Len(d) \in Nat /\ p + 4 <= Len(d) /\ NextUnit(d, p) = p + 5
  BY DataFacts
<1> HIDE DEF d
<1>2. p \in 1 .. Len(d) /\ p \in 1 .. Len(d) + 1 /\ p + 5 \in 1 .. Len(d) + 1
  BY <1>1 DEF d
<1>3. From(d)[p] = FromAt(d, From(d), p)
  BY <1>1, <1>2, FromType
<1>4. After(d, p) = From(d)[p] /\ ~ (p + 4 > Len(d))
  BY <1>1, <1>2 DEF After
<1>5. After(d, p) = UnitAt(d, p) \o After(d, p + 5)
  BY <1>1, <1>3, <1>4 DEF FromAt, After
<1>6. QED
  BY <1>1, <1>2, <1>5, UnitFacts, UnitsFrom DEF d

\* A regular frame asks for a sequence of messages.
LEMMA AskedType ==
  ASSUME NEW f \in Seq(Octets), Regular(f)
  PROVE  /\ Asked(f) \in Seq(Msgs)
         /\ f[4] = 5 => Asked(f) = After(DataOf(f), 1)
         /\ f[4] = 7 => Asked(f) = <<WifiFunc>>
         /\ f[4] \notin {5, 7} => Asked(f) = <<>>
<1>1. f[4] = 5 => Asked(f) = Units(DataOf(f))
  BY DEF Asked, DataOf
<1>2. f[4] = 7 => Asked(f) = <<WifiFunc>>
  BY DEF Asked
<1>3. f[4] \notin {5, 7} => Asked(f) = <<>>
  BY DEF Asked
<1>4. ASSUME f[4] = 5 PROVE Asked(f) = After(DataOf(f), 1) /\ Asked(f) \in Seq(Msgs)
  <2>1. DataOf(f) \in Seq(Octets) /\ 1 \in 1 .. Len(DataOf(f)) + 1
    BY <1>4, DataFacts
  <2>2. QED
    BY <1>1, <1>4, <2>1, UnitsFrom
<1>5. <<WifiFunc>> \in Seq(Msgs) /\ <<>> \in Seq(Msgs)
  <2>1. WifiFunc \in Msgs
    BY DEF WifiFunc, Pub, Msgs
  <2>2. QED
    BY <2>1
<1>6. QED
  BY <1>2, <1>3, <1>4, <1>5

\* What the first c of the frames fs ask for.
Asks(fs, c) == FlattenSeq([i \in 1 .. c |-> Asked(fs[i])])

LEMMA FlatLast ==
  ASSUME NEW e, NEW g, NEW m \in Nat \ {0}, FlatTo(e, g, m)
  PROVE  /\ m = 1 => g[m] = e[m]
         /\ m # 1 => g[m] = g[m - 1] \o e[m]
<1>1. m \in 1 .. m
  OBVIOUS
<1>2. QED
  BY <1>1 DEF FlatTo

\* Two ways to put the same pieces together are one.
LEMMA FlatUnique ==
  ASSUME NEW e, NEW a, NEW g, NEW h, NEW m \in Nat \ {0},
         \A i \in 1 .. m : e[i] = a[i], FlatTo(e, g, m), FlatTo(a, h, m)
  PROVE  g[m] = h[m]
<1> DEFINE Bad == {i \in 1 .. m : g[i] # h[i]}
<1>1. ASSUME Bad # {} PROVE FALSE
  <2>1. PICK i \in Bad : \A q \in Bad : i <= q
    <3>1. Bad \in SUBSET Nat
      OBVIOUS
    <3> HIDE DEF Bad
    <3>2. QED
      BY <1>1, <3>1, LeastNatural
  <2>2. i \in 1 .. m /\ g[i] # h[i]
    OBVIOUS
  <2>3. i # 1
    BY <2>2 DEF FlatTo
  <2>4. i - 1 \in 1 .. m /\ ~ (i <= i - 1)
    BY <2>2, <2>3
  <2>5. g[i - 1] = h[i - 1]
    BY <2>1, <2>4
  <2>6. QED
    BY <2>2, <2>3, <2>5 DEF FlatTo
<1>2. m \in 1 .. m
  OBVIOUS
<1>3. QED
  BY <1>1, <1>2

\* What one frame more asks for comes after what the others ask for.
LEMMA AsksStep ==
  ASSUME NEW fs \in Seq(Frames), NEW c \in 0 .. Len(fs) - 1, \A f \in Frames : Regular(f)
  PROVE  /\ Asks(fs, c) \in Seq(Msgs) /\ Asks(fs, c + 1) \in Seq(Msgs)
         /\ Asked(fs[c + 1]) \in Seq(Msgs)
         /\ Asks(fs, c + 1) = Asks(fs, c) \o Asked(fs[c + 1])
<1> DEFINE e(m) == [i \in 1 .. m |-> Asked(fs[i])]
<1>1. Len(fs) \in Nat /\ \A i \in 1 .. Len(fs) : fs[i] \in Frames
  BY ElementOfSeq, LenProperties
<1>2. \A i \in 1 .. Len(fs) : Asked(fs[i]) \in Seq(Msgs)
  BY <1>1, DemoConstants, AskedType
<1>3. ASSUME NEW m \in 0 .. Len(fs)
      PROVE  /\ e(m) \in Seq(Seq(Msgs)) /\ Len(e(m)) = m
             /\ \A i \in 1 .. m : e(m)[i] = Asked(fs[i])
  <2>1. m \in Nat /\ \A i \in 1 .. m : Asked(fs[i]) \in Seq(Msgs)
    BY <1>1, <1>2
  <2>2. e(m) \in [1 .. m -> Seq(Msgs)]
    BY <2>1
  <2>3. e(m) \in Seq(Seq(Msgs)) /\ Len(e(m)) = m
    <3> HIDE DEF e
    <3>1. QED
      BY <2>1, <2>2, IsASeq, LenProperties
  <2>4. QED
    BY <2>3
<1>4. \A m : Asks(fs, m) = FlattenSeq(e(m))
  BY DEF Asks
<1> HIDE DEF e
<1>5. c \in 0 .. Len(fs) /\ c + 1 \in 0 .. Len(fs) /\ c \in Nat /\ c + 1 \in 1 .. Len(fs)
  BY <1>1
<1>6. PICK g \in [1 .. c + 1 -> Seq(Msgs)] : FlatTo(e(c + 1), g, c + 1) /\ Asks(fs, c + 1) = g[c + 1]
  <2>1. e(c + 1) \in Seq(Seq(Msgs)) /\ Len(e(c + 1)) = c + 1 /\ c + 1 # 0
    BY <1>3, <1>5
  <2>2. QED
    BY <1>4, <2>1, FlatDef
<1>7. c + 1 \in 1 .. c + 1 /\ e(c + 1)[c + 1] = Asked(fs[c + 1])
  BY <1>3, <1>5
<1>8. /\ c = 0 => g[c + 1] = Asked(fs[c + 1])
      /\ c # 0 => g[c + 1] = g[c] \o Asked(fs[c + 1])
  <2> DEFINE a == e(c + 1)
             m == c + 1
  <2>1. m \in Nat \ {0} /\ FlatTo(a, g, m)
    BY <1>5, <1>6
  <2> HIDE DEF a, m
  <2>2. /\ m = 1 => g[m] = a[m]
        /\ m # 1 => g[m] = g[m - 1] \o a[m]
    BY <2>1, FlatLast
  <2>3. a[m] = Asked(fs[c + 1])
    BY <1>7 DEF a, m
  <2>4. m - 1 = c /\ (m = 1 <=> c = 0)
    BY <1>5 DEF m
  <2>5. /\ c = 0 => g[m] = Asked(fs[c + 1])
        /\ c # 0 => g[m] = g[c] \o Asked(fs[c + 1])
    BY <2>2, <2>3, <2>4
  <2>6. QED
    BY <2>5 DEF m
<1>9. CASE c = 0
  <2>1. Asks(fs, c) = <<>>
    <3>1. e(c) = <<>> /\ Len(e(c)) = 0
      BY <1>3, <1>5, <1>9, EmptySeq
    <3>2. QED
      BY <1>4, <3>1 DEF FlattenSeq
  <2>2. Asks(fs, c + 1) = Asked(fs[c + 1]) /\ Asked(fs[c + 1]) \in Seq(Msgs)
    BY <1>2, <1>5, <1>6, <1>7, <1>8, <1>9
  <2>3. <<>> \o Asked(fs[c + 1]) = Asked(fs[c + 1]) /\ <<>> \in Seq(Msgs)
    BY <2>2, ConcatEmptySeq
  <2>4. QED
    BY <2>1, <2>2, <2>3
<1>10. CASE c # 0
  <2>1. PICK h \in [1 .. c -> Seq(Msgs)] : FlatTo(e(c), h, c) /\ Asks(fs, c) = h[c]
    <3>1. e(c) \in Seq(Seq(Msgs)) /\ Len(e(c)) = c
      BY <1>3, <1>5
    <3>2. QED
      BY <1>4, <1>10, <3>1, FlatDef
  <2>2. FlatTo(e(c + 1), g, c)
    <3>1. \A i \in 1 .. c : i \in 1 .. c + 1
      BY <1>5
    <3>2. QED
      BY <1>6, <3>1 DEF FlatTo
  <2>3. \A i \in 1 .. c : e(c + 1)[i] = e(c)[i]
    BY <1>3, <1>5
  <2>4. h[c] = g[c]
    <3> DEFINE a == e(c + 1)
               w == e(c)
    <3>1. /\ c \in Nat \ {0} /\ \A i \in 1 .. c : a[i] = w[i]
          /\ FlatTo(a, g, c) /\ FlatTo(w, h, c)
      BY <1>5, <1>10, <2>1, <2>2, <2>3
    <3> HIDE DEF a, w
    <3>2. QED
      BY <3>1, FlatUnique, SMTT(30)
  <2>5. c \in 1 .. c /\ c + 1 # 1 /\ c + 1 - 1 = c /\ h[c] \in Seq(Msgs)
    BY <1>5, <1>10
  <2>6. g[c + 1] \in Seq(Msgs)
    BY <1>7
  <2>7. Asked(fs[c + 1]) \in Seq(Msgs)
    BY <1>2, <1>5
  <2>8. Asks(fs, c + 1) = Asks(fs, c) \o Asked(fs[c + 1])
    BY <1>6, <1>8, <1>10, <2>1, <2>4
  <2>9. Asks(fs, c + 1) \in Seq(Msgs) /\ Asks(fs, c) \in Seq(Msgs)
    BY <1>6, <2>1, <2>5, <2>6
  <2>10. QED
    BY <2>7, <2>8, <2>9
<1>11. QED
  BY <1>9, <1>10

LEMMA AsksType ==
  ASSUME NEW fs \in Seq(Frames), NEW c \in 0 .. Len(fs), \A f \in Frames : Regular(f)
  PROVE  Asks(fs, c) \in Seq(Msgs) /\ Asks(fs, 0) = <<>>
<1>1. Asks(fs, 0) = <<>>
  <2> DEFINE e == [i \in 1 .. 0 |-> Asked(fs[i])]
  <2>1. e = <<>> /\ Len(<<>>) = 0
    OBVIOUS
  <2>2. QED
    BY <2>1 DEF Asks, FlattenSeq
<1>2. CASE c = 0
  <2>1. <<>> \in Seq(Msgs)
    OBVIOUS
  <2>2. QED
    BY <1>1, <1>2, <2>1
<1>3. CASE c # 0
  <2>1. c - 1 \in 0 .. Len(fs) - 1 /\ c - 1 + 1 = c
    BY <1>3, LenProperties
  <2>2. Asks(fs, c - 1 + 1) \in Seq(Msgs)
    BY <2>1, AsksStep
  <2>3. QED
    BY <1>1, <2>1, <2>2
<1>4. QED
  BY <1>2, <1>3

\* A frame more changes nothing of what the others ask for.
LEMMA AsksSame ==
  ASSUME NEW fs \in Seq(Frames), NEW f \in Frames, NEW c \in 0 .. Len(fs)
  PROVE  Asks(Append(fs, f), c) = Asks(fs, c)
<1>1. \A i \in 1 .. Len(fs) : Append(fs, f)[i] = fs[i]
  BY AppendProperties
<1>2. \A i \in 1 .. c : i \in 1 .. Len(fs)
  BY LenProperties
<1>3. [i \in 1 .. c |-> Asked(Append(fs, f)[i])] = [i \in 1 .. c |-> Asked(fs[i])]
  BY <1>1, <1>2
<1>4. QED
  BY <1>3 DEF Asks

\* s is what t begins with.
Begins(s, t) == \E r \in Seq(Msgs) : t = s \o r

LEMMA BeginsFacts ==
  ASSUME NEW s \in Seq(Msgs), NEW t \in Seq(Msgs)
  PROVE  /\ Begins(s, s)
         /\ \A r \in Seq(Msgs) : Begins(s, t) => Begins(s, t \o r)
         /\ \A r \in Seq(Msgs) : Begins(s \o r, t) => Begins(s, t)
         /\ Begins(s, t) => IsPrefix(s, t)
<1>1. Begins(s, s)
  <2>1. <<>> \in Seq(Msgs) /\ s \o <<>> = s
    BY ConcatEmptySeq
  <2>2. QED
    BY <2>1 DEF Begins
<1>2. ASSUME NEW r \in Seq(Msgs), Begins(s, t) PROVE Begins(s, t \o r)
  <2>1. PICK u \in Seq(Msgs) : t = s \o u
    BY <1>2 DEF Begins
  <2>2. (s \o u) \o r = s \o (u \o r) /\ u \o r \in Seq(Msgs)
    BY ConcatAssociative, ConcatProperties
  <2>3. QED
    BY <2>1, <2>2 DEF Begins
<1>3. ASSUME NEW r \in Seq(Msgs), Begins(s \o r, t) PROVE Begins(s, t)
  <2>1. PICK u \in Seq(Msgs) : t = (s \o r) \o u
    BY <1>3 DEF Begins
  <2>2. (s \o r) \o u = s \o (r \o u) /\ r \o u \in Seq(Msgs)
    BY ConcatAssociative, ConcatProperties
  <2>3. QED
    BY <2>1, <2>2 DEF Begins
<1>4. ASSUME Begins(s, t) PROVE IsPrefix(s, t)
  <2>1. PICK u \in Seq(Msgs) : t = s \o u
    BY <1>4 DEF Begins
  <2>2. /\ Len(t) = Len(s) + Len(u) /\ Len(s) \in Nat /\ Len(u) \in Nat
        /\ \A i \in 1 .. Len(s) + Len(u) : t[i] = IF i <= Len(s) THEN s[i] ELSE u[i - Len(s)]
    BY <2>1, ConcatProperties, LenProperties
  <2>3. Len(s) <= Len(t) /\ \A i \in 1 .. Len(s) : t[i] = s[i]
    BY <2>2
  <2>4. SubSeq(t, 1, Len(s)) = SubSeq(s, 1, Len(s))
    <3>1. /\ SubSeq(t, 1, Len(s)) = [i \in 1 .. Len(s) |-> t[i]]
          /\ SubSeq(s, 1, Len(s)) = [i \in 1 .. Len(s) |-> s[i]]
      <4>1. 1 + Len(s) - 1 = Len(s) /\ \A i \in 1 .. Len(s) : i + 1 - 1 = i
        BY <2>2
      <4>2. QED
        BY <2>2, <4>1
    <3>2. QED
      BY <2>3, <3>1
  <2>5. QED
    BY <2>3, <2>4 DEF IsPrefix
<1>5. QED
  BY <1>1, <1>2, <1>3, <1>4

-----------------------------------------------------------------------------
(* AtDemo: main does what the frames ask for.                              *)

\* Frame i of fs is the bytes st[i - 1] + 1 to st[i] of what was sent.
Offsets(fs, st) ==
  /\ st \in [0 .. Len(fs) -> Nat]
  /\ \A i \in 1 .. Len(fs) : st[i] = st[i - 1] + Len(fs[i])
  /\ \A x \in 0 .. Len(fs) : \A y \in 0 .. Len(fs) : x < y => st[x] + 7 <= st[y]

\* The bytes s are the frames a + 1 to b, whole.
IsFrames(fs, st, s, a, b) ==
  /\ a <= b /\ Len(s) = st[b] - st[a]
  /\ \A i \in a + 1 .. b : \A x \in 1 .. Len(fs[i]) : s[st[i - 1] - st[a] + x] = fs[i][x]

\* Every record is whole frames: the i-th, the frames ct[i - 1] + 1 to ct[i].
CachedFrames(st, ct) ==
  /\ ct \in [0 .. Len(cached) -> 0 .. Len(frames)]
  /\ \A i \in 1 .. Len(cached) : IsFrames(frames, st, cached[i], ct[i - 1], ct[i])
  /\ IsFrames(frames, st, line, ct[Len(cached)], Len(frames))

\* Between two frames of the record main has, or in what follows the fourth
\* byte of one that is no report: the first c frames are done.
BetweenFrames(st, b, c) ==
  /\ done = Asks(frames, c)
  /\ j <= st[c] - st[b]
  /\ \A x \in j .. st[c] - st[b] - 1 : qbuf[x] # 85

\* In a report, at the unit that begins at p of its data.
InReport(st, b, c) ==
  LET d == DataOf(frames[c + 1])
      p == j - (st[c] - st[b] + 6) + 1
  IN /\ frames[c + 1][4] = 5
     /\ k = st[c] - st[b] + 6 + Len(d)
     /\ p \in 1 .. Len(d) + 1 /\ p % 5 = 1
     /\ done \o After(d, p) = Asks(frames, c + 1)

\* queue_buf holds the frames b + 1 to e, of which main is past c.
Scanning(st, e, b, c) ==
  /\ b <= c /\ c <= e /\ dcnt = st[e] - st[b]
  /\ \A i \in b + 1 .. e : \A x \in 1 .. Len(frames[i]) :
       qbuf[st[i - 1] - st[b] + x - 1] = frames[i][x]
  /\ mode = "scan" => BetweenFrames(st, b, c)
  /\ mode = "units" => c < e /\ InReport(st, b, c)

\* Main has read the first e frames.
Scanned(st, e) ==
  IF mode = "read" THEN done = Asks(frames, e)
  ELSE \E b \in 0 .. e : \E c \in 0 .. e : Scanning(st, e, b, c)

Followed == \A c \in 0 .. Len(frames) : Begins(Asks(frames, c), Asks(frames, Len(frames)))

ReportInv ==
  ~ lost =>
    /\ ~ polling /\ Len(line) <= MaxBurst
    /\ Followed
    /\ \E st : \E ct : Offsets(frames, st) /\ CachedFrames(st, ct) /\ Scanned(st, ct[0])

LEMMA OffsetFacts ==
  ASSUME NEW fs \in Seq(Frames), NEW st, Offsets(fs, st)
  PROVE  /\ \A x \in 0 .. Len(fs) : st[x] \in Nat
         /\ \A x \in 0 .. Len(fs) : \A y \in 0 .. Len(fs) : x <= y => st[x] <= st[y]
         /\ \A i \in 1 .. Len(fs) : i - 1 \in 0 .. Len(fs) /\ st[i] = st[i - 1] + Len(fs[i])
<1>1. Len(fs) \in Nat
  BY LenProperties
<1>2. \A x \in 0 .. Len(fs) : st[x] \in Nat
  BY DEF Offsets
<1>3. ASSUME NEW x \in 0 .. Len(fs), NEW y \in 0 .. Len(fs), x <= y
      PROVE  st[x] <= st[y]
  <2>1. CASE x = y
    BY <1>2, <2>1
  <2>2. CASE x < y
    <3>1. st[x] + 7 <= st[y]
      BY <2>2 DEF Offsets
    <3>2. QED
      BY <1>2, <3>1
  <2>3. QED
    BY <1>1, <1>3, <2>1, <2>2
<1>4. \A i \in 1 .. Len(fs) : i - 1 \in 0 .. Len(fs) /\ st[i] = st[i - 1] + Len(fs[i])
  BY <1>1 DEF Offsets
<1>5. QED
  BY <1>2, <1>3, <1>4

\* What is known of a frame of the MCU.
LEMMA FrameFacts ==
  ASSUME NEW fs \in Seq(Frames), NEW i \in 1 .. Len(fs), \A f \in Frames : Regular(f)
  PROVE  /\ fs[i] \in Seq(Octets) /\ Regular(fs[i])
         /\ Len(fs[i]) \in Nat /\ Len(fs[i]) >= 7
         /\ fs[i][1] = 85 /\ fs[i][2] = 170 /\ fs[i][3] = 0
         /\ \A x \in 1 .. Len(fs[i]) : fs[i][x] \in Octets
<1>1. fs[i] \in Frames
  BY ElementOfSeq
<1>2. fs[i] \in Seq(Octets) /\ Regular(fs[i])
  BY <1>1, DemoConstants
<1> DEFINE f == fs[i]
<1>3. Len(f) \in Nat /\ \A x \in 1 .. Len(f) : f[x] \in Octets
  <2> HIDE DEF f
  <2>1. f \in Seq(Octets)
    BY <1>2 DEF f
  <2>2. QED
    BY <2>1, ElementOfSeq, LenProperties
<1>4. Len(f) > 6 /\ \A x \in 1 .. 3 : f[x] = Header[x]
  BY <1>2 DEF Regular
<1>5. Header[1] = 85 /\ Header[2] = 170 /\ Header[3] = 0
  BY DEF Header
<1>6. QED
  BY <1>2, <1>3, <1>4, <1>5

\* A frame more.
LEMMA OffsetsGrow ==
  ASSUME NEW fs \in Seq(Frames), NEW f \in Frames, NEW st, Offsets(fs, st),
         \A y \in Frames : Regular(y)
  PROVE  \E su : /\ Offsets(Append(fs, f), su)
                 /\ \A x \in 0 .. Len(fs) : su[x] = st[x]
                 /\ su[Len(fs) + 1] = st[Len(fs)] + Len(f)
<1> DEFINE n  == Len(fs)
           fu == Append(fs, f)
           su == [x \in 0 .. n + 1 |-> IF x <= n THEN st[x] ELSE st[n] + Len(f)]
<1>1. n \in Nat
  BY LenProperties
<1>2. Len(fu) = n + 1 /\ fu[n + 1] = f /\ \A i \in 1 .. n : fu[i] = fs[i]
  BY AppendProperties
<1>3. Len(f) \in Nat /\ Len(f) >= 7
  <2>1. f \in Seq(Octets) /\ Regular(f)
    BY DemoConstants
  <2>2. QED
    BY <2>1, LenProperties DEF Regular
<1>4. /\ \A x \in 0 .. n : st[x] \in Nat
      /\ \A x \in 0 .. n : \A y \in 0 .. n : x <= y => st[x] <= st[y]
      /\ \A i \in 1 .. n : i - 1 \in 0 .. n /\ st[i] = st[i - 1] + Len(fs[i])
  BY OffsetFacts
<1>5. n \in 0 .. n /\ st[n] \in Nat
  BY <1>1, <1>4
<1>6. /\ \A x \in 0 .. n : su[x] = st[x]
      /\ su[n + 1] = st[n] + Len(f)
  BY <1>1
<1>7. su \in [0 .. n + 1 -> Nat]
  BY <1>1, <1>3, <1>4, <1>5
<1> HIDE DEF su, fu
<1>8. ASSUME NEW i \in 1 .. n + 1 PROVE su[i] = su[i - 1] + Len(fu[i])
  <2>1. CASE i = n + 1
    <3>1. i - 1 = n
      BY <1>1, <2>1
    <3>2. QED
      BY <1>2, <1>5, <1>6, <2>1, <3>1
  <2>2. CASE i \in 1 .. n
    <3>1. i \in 0 .. n /\ i - 1 \in 0 .. n
      BY <1>1, <2>2
    <3>2. QED
      BY <1>2, <1>4, <1>6, <2>2, <3>1
  <2>3. QED
    BY <1>1, <2>1, <2>2
<1>9. ASSUME NEW x \in 0 .. n + 1, NEW y \in 0 .. n + 1, x < y PROVE su[x] + 7 <= su[y]
  <2>1. x \in 0 .. n /\ su[x] = st[x] /\ st[x] \in Nat /\ st[x] <= st[n]
    BY <1>1, <1>4, <1>5, <1>6, <1>9
  <2>2. CASE y = n + 1
    BY <1>3, <1>5, <1>6, <2>1, <2>2
  <2>3. CASE y \in 0 .. n
    <3>1. st[x] + 7 <= st[y]
      BY <1>9, <2>1, <2>3 DEF Offsets
    <3>2. QED
      BY <1>6, <2>1, <2>3, <3>1
  <2>4. QED
    BY <1>1, <2>2, <2>3
<1>10. Offsets(fu, su)
  BY <1>2, <1>7, <1>8, <1>9 DEF Offsets
<1>11. QED
  BY <1>6, <1>10 DEF fu

\* It is no part of the records there are.
LEMMA IsFramesSame ==
  ASSUME NEW fs \in Seq(Frames), NEW f \in Frames, NEW st, NEW su,
         \A x \in 0 .. Len(fs) : su[x] = st[x],
         NEW a \in 0 .. Len(fs), NEW b \in 0 .. Len(fs), NEW s, IsFrames(fs, st, s, a, b)
  PROVE  IsFrames(Append(fs, f), su, s, a, b)
<1> DEFINE fu == Append(fs, f)
<1>1. Len(fs) \in Nat /\ \A i \in 1 .. Len(fs) : fu[i] = fs[i]
  BY AppendProperties, LenProperties
<1>2. \A i \in a + 1 .. b : i \in 1 .. Len(fs) /\ i - 1 \in 0 .. Len(fs)
  BY <1>1
<1> HIDE DEF fu
<1>3. su[a] = st[a] /\ su[b] = st[b] /\ \A i \in a + 1 .. b : fu[i] = fs[i] /\ su[i - 1] = st[i - 1]
  BY <1>1, <1>2
<1>4. \A i \in a + 1 .. b : \A x \in 1 .. Len(fu[i]) : s[su[i - 1] - su[a] + x] = fu[i][x]
  BY <1>3 DEF IsFrames
<1>5. QED
  BY <1>3, <1>4 DEF IsFrames, fu

\* It comes behind what is on the line.
LEMMA IsFramesGrow ==
  ASSUME NEW fs \in Seq(Frames), NEW f \in Frames, NEW st, NEW su,
         Offsets(fs, st), \A y \in Frames : Regular(y),
         \A x \in 0 .. Len(fs) : su[x] = st[x], su[Len(fs) + 1] = st[Len(fs)] + Len(f),
         NEW a \in 0 .. Len(fs), NEW s \in Seq(Octets), IsFrames(fs, st, s, a, Len(fs))
  PROVE  IsFrames(Append(fs, f), su, s \o f, a, Len(fs) + 1)
<1> DEFINE n  == Len(fs)
           fu == Append(fs, f)
           t  == s \o f
<1>1. n \in Nat /\ n \in 0 .. n
  BY LenProperties
<1>2. fu[n + 1] = f /\ \A i \in 1 .. n : fu[i] = fs[i]
  BY AppendProperties
<1>3. f \in Seq(Octets) /\ Len(f) \in Nat /\ Len(s) \in Nat
  BY DemoConstants, LenProperties
<1>4. /\ Len(t) = Len(s) + Len(f)
      /\ \A x \in 1 .. Len(s) : t[x] = s[x]
      /\ \A x \in 1 .. Len(f) : t[Len(s) + x] = f[x]
  <2>1. /\ Len(t) = Len(s) + Len(f)
        /\ \A i \in 1 .. Len(s) + Len(f) : t[i] = IF i <= Len(s) THEN s[i] ELSE f[i - Len(s)]
    BY <1>3, ConcatProperties
  <2>2. \A x \in 1 .. Len(s) : x \in 1 .. Len(s) + Len(f) /\ x <= Len(s)
    BY <1>3
  <2>3. \A x \in 1 .. Len(f) : /\ Len(s) + x \in 1 .. Len(s) + Len(f)
                               /\ ~ (Len(s) + x <= Len(s)) /\ Len(s) + x - Len(s) = x
    BY <1>3
  <2> HIDE DEF t
  <2>4. QED
    BY <2>1, <2>2, <2>3
<1>5. /\ \A x \in 0 .. n : st[x] \in Nat
      /\ \A x \in 0 .. n : \A y \in 0 .. n : x <= y => st[x] <= st[y]
      /\ \A i \in 1 .. n : i - 1 \in 0 .. n /\ st[i] = st[i - 1] + Len(fs[i])
  BY OffsetFacts
<1> HIDE DEF n, fu, t
<1>6. /\ a <= n /\ Len(s) = st[n] - st[a]
      /\ \A i \in a + 1 .. n : \A x \in 1 .. Len(fs[i]) : s[st[i - 1] - st[a] + x] = fs[i][x]
  BY DEF IsFrames, n
<1>7. a \in 0 .. n /\ su[a] = st[a] /\ su[n + 1] = st[n] + Len(f) /\ st[a] \in Nat /\ st[n] \in Nat
  BY <1>1, <1>5 DEF n
<1>8. ASSUME NEW i \in a + 1 .. n + 1, NEW x \in 1 .. Len(fu[i])
      PROVE  t[su[i - 1] - su[a] + x] = fu[i][x]
  <2>1. CASE i = n + 1
    <3>1. i - 1 = n /\ fu[i] = f /\ su[n] = st[n]
      BY <1>1, <1>2, <2>1 DEF n
    <3>2. su[i - 1] - su[a] = Len(s)
      BY <1>6, <1>7, <3>1
    <3>3. QED
      BY <1>4, <1>8, <3>1, <3>2
  <2>2. CASE i \in a + 1 .. n
    <3>1. i \in 1 .. n /\ i \in 0 .. n /\ i - 1 \in 0 .. n /\ a <= i - 1
      BY <1>1, <1>7, <2>2
    <3>2. fu[i] = fs[i] /\ su[i - 1] = st[i - 1] /\ st[i - 1] \in Nat /\ st[i] \in Nat
      BY <1>2, <1>5, <3>1 DEF n
    <3>3. st[a] <= st[i - 1] /\ st[i] <= st[n] /\ st[i] = st[i - 1] + Len(fs[i])
      BY <1>1, <1>5, <1>7, <3>1
    <3>4. Len(fs[i]) \in Nat
      BY <3>1, FrameFacts DEF n
    <3>5. st[i - 1] - st[a] + x \in 1 .. Len(s)
      <4>1. x \in 1 .. Len(fs[i])
        BY <1>8, <3>2
      <4>2. x \in Nat /\ 1 <= x /\ st[i - 1] + x <= st[n]
        BY <1>7, <3>2, <3>3, <3>4, <4>1, SMTT(30)
      <4>3. Len(s) = st[n] - st[a] /\ st[a] \in Nat /\ st[n] \in Nat
        BY <1>6, <1>7
      <4>4. st[i - 1] \in Nat /\ st[a] <= st[i - 1]
        BY <3>2, <3>3
      <4>5. QED
        BY <4>2, <4>3, <4>4, SMTT(30)
    <3>6. s[st[i - 1] - st[a] + x] = fs[i][x]
      BY <1>6, <1>8, <2>2, <3>2
    <3>7. QED
      BY <1>4, <1>7, <3>2, <3>5, <3>6
  <2>3. QED
    BY <1>1, <1>7, <2>1, <2>2
<1>9. a <= n + 1 /\ Len(t) = su[n + 1] - su[a]
  BY <1>1, <1>3, <1>4, <1>6, <1>7
<1>10. QED
  BY <1>8, <1>9 DEF IsFrames, n, fu, t

\* Where the scanner is in the record: before a frame, or at its first byte.
LEMMA HeaderAt ==
  ASSUME DemoInv, NEW st, NEW e \in 0 .. Len(frames), Offsets(frames, st),
         NEW b \in 0 .. e, NEW c \in 0 .. e, Scanning(st, e, b, c), mode = "scan", j < dcnt,
         \A f \in Frames : Regular(f)
  PROVE  \/ j < st[c] - st[b] /\ Matched = 0
         \/ /\ j = st[c] - st[b] /\ c < e /\ Matched = 3
            /\ \A x \in 1 .. Len(frames[c + 1]) : qbuf[j + x - 1] = frames[c + 1][x]
            /\ Cmd = frames[c + 1][4]
            /\ Word(qbuf[j + 4], qbuf[j + 5]) = Word(frames[c + 1][5], frames[c + 1][6])
<1>1. /\ b <= c /\ c <= e /\ dcnt = st[e] - st[b]
      /\ \A i \in b + 1 .. e : \A x \in 1 .. Len(frames[i]) :
           qbuf[st[i - 1] - st[b] + x - 1] = frames[i][x]
      /\ j <= st[c] - st[b]
      /\ \A x \in j .. st[c] - st[b] - 1 : qbuf[x] # 85
  BY DEF Scanning, BetweenFrames
<1>2. /\ frames \in Seq(Frames) /\ Len(frames) \in Nat /\ j \in Nat /\ dcnt \in Nat
  BY LenProperties DEF DemoInv, DemoTypeOK
<1>3. c \in 0 .. Len(frames) /\ b \in 0 .. Len(frames) /\ st[c] \in Nat /\ st[b] \in Nat /\ st[e] \in Nat
  BY <1>2, OffsetFacts
<1>4. CASE j < st[c] - st[b]
  <2>1. j \in j .. st[c] - st[b] - 1
    BY <1>2, <1>3, <1>4
  <2>2. qbuf[j] # 85
    BY <1>1, <2>1
  <2>3. Matched = 0
    BY <2>2 DEF Matched
  <2>4. QED
    BY <1>4, <2>3
<1>5. CASE j = st[c] - st[b]
  <2>1. c < e
    BY <1>1, <1>2, <1>3, <1>5
  <2>2. c + 1 \in b + 1 .. e /\ c + 1 \in 1 .. Len(frames) /\ c + 1 - 1 = c
    BY <1>1, <1>2, <1>3, <2>1
  <2> DEFINE f == frames[c + 1]
  <2>3. \A x \in 1 .. Len(f) : qbuf[j + x - 1] = f[x]
    BY <1>1, <1>5, <2>2
  <2>4. /\ Len(f) \in Nat /\ Len(f) >= 7 /\ f[1] = 85 /\ f[2] = 170 /\ f[3] = 0
    BY <1>2, <2>2, FrameFacts
  <2> HIDE DEF f
  <2>5. /\ 1 \in 1 .. Len(f) /\ 2 \in 1 .. Len(f) /\ 3 \in 1 .. Len(f)
        /\ 4 \in 1 .. Len(f) /\ 5 \in 1 .. Len(f) /\ 6 \in 1 .. Len(f)
    BY <2>4
  <2>6. /\ j + 1 - 1 = j /\ j + 2 - 1 = j + 1 /\ j + 3 - 1 = j + 2
        /\ j + 4 - 1 = j + 3 /\ j + 5 - 1 = j + 4 /\ j + 6 - 1 = j + 5
    BY <1>2
  <2>7. /\ qbuf[j] = 85 /\ qbuf[j + 1] = 170 /\ qbuf[j + 2] = 0
        /\ qbuf[j + 3] = f[4] /\ qbuf[j + 4] = f[5] /\ qbuf[j + 5] = f[6]
    BY <2>3, <2>4, <2>5, <2>6, SMTT(30)
  <2>8. Matched = 3 /\ Cmd = f[4]
    BY <2>7 DEF Matched, Cmd
  <2>9. Word(qbuf[j + 4], qbuf[j + 5]) = Word(f[5], f[6])
    BY <2>7
  <2>10. QED
    BY <1>5, <2>1, <2>3, <2>8, <2>9 DEF f
<1>6. QED
  BY <1>1, <1>2, <1>3, <1>4, <1>5

\* At the first byte of a frame main does what it asks for, or begins to.
LEMMA ScanDone ==
  ASSUME DemoInv, DemoInv', NEW st, NEW e \in 0 .. Len(frames), Offsets(frames, st),
         NEW b \in 0 .. e, NEW c \in 0 .. e, Scanning(st, e, b, c),
         \A f \in Frames : Regular(f), ScanWifiFunc \/ ScanOther
  PROVE  Scanning(st, e, b, c + 1)' /\ c < e /\ mode' = "scan"
<1>1. /\ mode = "scan" /\ j < dcnt /\ Matched = 3
      /\ mode' = mode /\ qbuf' = qbuf /\ dcnt' = dcnt /\ frames' = frames
      /\ j' = j + 4
      /\ \/ done' = Append(done, WifiFunc) /\ Cmd = 7
         \/ done' = done /\ Cmd \notin {5, 7}
  BY DEF ScanWifiFunc, ScanOther, In, mcu
<1>2. /\ j = st[c] - st[b] /\ c < e
      /\ \A x \in 1 .. Len(frames[c + 1]) : qbuf[j + x - 1] = frames[c + 1][x]
      /\ Cmd = frames[c + 1][4]
  BY <1>1, HeaderAt
<1>3. /\ b <= c /\ dcnt = st[e] - st[b]
      /\ \A i \in b + 1 .. e : \A x \in 1 .. Len(frames[i]) :
           qbuf[st[i - 1] - st[b] + x - 1] = frames[i][x]
      /\ done = Asks(frames, c)
  BY <1>1 DEF Scanning, BetweenFrames
<1>4. /\ frames \in Seq(Frames) /\ Len(frames) \in Nat /\ j \in Nat /\ dcnt \in Nat
      /\ done \in Seq(Msgs)
  BY LenProperties DEF DemoInv, DemoTypeOK
<1>5. /\ c + 1 \in 1 .. Len(frames) /\ c + 1 - 1 = c /\ c \in 0 .. Len(frames) - 1
      /\ c + 1 \in 0 .. Len(frames) /\ b \in 0 .. Len(frames) /\ c \in 0 .. Len(frames)
  BY <1>2, <1>4
<1> DEFINE f == frames[c + 1]
<1>6. /\ f \in Seq(Octets) /\ Regular(f) /\ Len(f) \in Nat /\ Len(f) >= 7
      /\ st[c + 1] = st[c] + Len(f) /\ st[c] \in Nat /\ st[b] \in Nat
      /\ st[c + 1] \in Nat
  BY <1>4, <1>5, FrameFacts, OffsetFacts
<1>7. f[4] # 5
  BY <1>1, <1>2
<1>8. done' = Asks(frames, c + 1)
  <2>1. Asks(frames, c + 1) = Asks(frames, c) \o Asked(f)
    BY <1>4, <1>5, AsksStep
  <2>2. CASE f[4] = 7
    <3>1. Asked(f) = <<WifiFunc>> /\ done' = Append(done, WifiFunc)
      BY <1>1, <1>2, <1>6, <2>2, AskedType
    <3>2. WifiFunc \in Msgs
      BY DEF WifiFunc, Pub, Msgs
    <3>3. QED
      BY <1>3, <1>4, <2>1, <3>1, <3>2, AppendIsConcat
  <2>3. CASE f[4] \notin {5, 7}
    <3>1. Asked(f) = <<>> /\ done' = done
      BY <1>1, <1>2, <1>6, <2>3, AskedType
    <3>2. QED
      BY <1>3, <1>4, <2>1, <3>1, ConcatEmptySeq
  <2>4. QED
    BY <1>7, <2>2, <2>3
<1>9. \A x \in 5 .. Len(f) : f[x] # 85
  BY <1>6, <1>7 DEF Regular, Header
<1>15. j' = j + 4 /\ j = st[c] - st[b] /\ j \in Nat
  BY <1>1, <1>2, <1>4
<1>16. /\ Len(f) \in Nat /\ Len(f) >= 7 /\ st[c + 1] - st[b] = st[c] - st[b] + Len(f)
       /\ st[c + 1] - st[b] \in Int
  BY <1>6
<1> HIDE DEF f
<1>10. j' <= st[c + 1] - st[b]
  BY <1>15, <1>16
<1>11. ASSUME NEW x \in j' .. st[c + 1] - st[b] - 1 PROVE qbuf'[x] # 85
  <2> DEFINE y == x - j + 1
  <2>1. y \in 5 .. Len(f) /\ y \in 1 .. Len(f) /\ j + y - 1 = x
    BY <1>15, <1>16, SMTT(30)
  <2> HIDE DEF y
  <2>2. qbuf[x] = f[y]
    BY <1>2, <2>1 DEF f
  <2>3. QED
    BY <1>1, <1>9, <2>1, <2>2
<1>12. BetweenFrames(st, b, c + 1)'
  BY <1>1, <1>8, <1>10, <1>11 DEF BetweenFrames
<1>13. b <= c + 1 /\ c + 1 <= e
  BY <1>2, <1>3, <1>4
<1>14. QED
  BY <1>1, <1>2, <1>3, <1>12, <1>13 DEF Scanning

\* No header: on to the next byte, before the same frame.
LEMMA SkipDone ==
  ASSUME DemoInv, NEW st, NEW e \in 0 .. Len(frames), Offsets(frames, st),
         NEW b \in 0 .. e, NEW c \in 0 .. e, Scanning(st, e, b, c),
         \A f \in Frames : Regular(f), ScanSkip
  PROVE  Scanning(st, e, b, c)' /\ mode' = "scan"
<1>1. /\ mode = "scan" /\ j < dcnt /\ Matched < 3
      /\ mode' = mode /\ qbuf' = qbuf /\ dcnt' = dcnt /\ frames' = frames
      /\ j' = j + Matched + 1 /\ done' = done
  BY DEF ScanSkip, In, mcu
<1>2. j < st[c] - st[b] /\ Matched = 0
  <2>1. Matched # 3
    BY <1>1
  <2>2. QED
    BY <1>1, <2>1, HeaderAt
<1>3. /\ b <= c /\ c <= e /\ dcnt = st[e] - st[b]
      /\ \A i \in b + 1 .. e : \A x \in 1 .. Len(frames[i]) :
           qbuf[st[i - 1] - st[b] + x - 1] = frames[i][x]
      /\ done = Asks(frames, c)
      /\ \A x \in j .. st[c] - st[b] - 1 : qbuf[x] # 85
  BY <1>1 DEF Scanning, BetweenFrames
<1>4. /\ frames \in Seq(Frames) /\ Len(frames) \in Nat /\ j \in Nat
  BY LenProperties DEF DemoInv, DemoTypeOK
<1>5. b \in 0 .. Len(frames) /\ c \in 0 .. Len(frames) /\ st[b] \in Nat /\ st[c] \in Nat
  BY <1>4, OffsetFacts
<1>6. j' = j + 1 /\ j' <= st[c] - st[b]
  BY <1>1, <1>2, <1>4, <1>5
<1>7. \A x \in j' .. st[c] - st[b] - 1 : x \in j .. st[c] - st[b] - 1
  BY <1>4, <1>5, <1>6
<1>8. BetweenFrames(st, b, c)'
  BY <1>1, <1>3, <1>6, <1>7 DEF BetweenFrames
<1>9. QED
  BY <1>1, <1>3, <1>8 DEF Scanning

\* A report: its first unit is next.
LEMMA ReportBegins ==
  ASSUME DemoInv, NEW st, NEW e \in 0 .. Len(frames), Offsets(frames, st),
         NEW b \in 0 .. e, NEW c \in 0 .. e, Scanning(st, e, b, c),
         \A f \in Frames : Regular(f), ScanReport
  PROVE  Scanning(st, e, b, c)' /\ mode' = "units"
<1>1. /\ mode = "scan" /\ j < dcnt /\ Matched = 3 /\ Cmd = 5
      /\ mode' = "units" /\ qbuf' = qbuf /\ dcnt' = dcnt /\ frames' = frames
      /\ j' = j + 6 /\ k' = j + 6 + Word(qbuf[j + 4], qbuf[j + 5]) /\ done' = done
  BY DEF ScanReport, In, mcu
<1>2. /\ j = st[c] - st[b] /\ c < e /\ Cmd = frames[c + 1][4]
      /\ Word(qbuf[j + 4], qbuf[j + 5]) = Word(frames[c + 1][5], frames[c + 1][6])
  <2>1. Matched # 0
    BY <1>1
  <2>2. QED
    BY <1>1, <2>1, HeaderAt
<1> DEFINE f == frames[c + 1]
           d == DataOf(f)
<1>3. /\ b <= c /\ c <= e /\ dcnt = st[e] - st[b]
      /\ \A i \in b + 1 .. e : \A x \in 1 .. Len(frames[i]) :
           qbuf[st[i - 1] - st[b] + x - 1] = frames[i][x]
      /\ done = Asks(frames, c)
  BY <1>1 DEF Scanning, BetweenFrames
<1>4. frames \in Seq(Frames) /\ Len(frames) \in Nat /\ j \in Nat
  BY LenProperties DEF DemoInv, DemoTypeOK
<1>5. c + 1 \in 1 .. Len(frames) /\ c \in 0 .. Len(frames) - 1
  BY <1>2, <1>4
<1>6. f \in Seq(Octets) /\ Regular(f) /\ f[4] = 5
  BY <1>1, <1>2, <1>4, <1>5, FrameFacts, SMTT(30)
<1>7. d \in Seq(Octets) /\ Len(d) \in Nat /\ Word(f[5], f[6]) = Len(d) /\ Asked(f) = After(d, 1)
  <2> HIDE DEF f
  <2>1. QED
    BY <1>6, DataFacts, AskedType
<1>8. Asks(frames, c + 1) = Asks(frames, c) \o Asked(f)
  BY <1>4, <1>5, AsksStep
<1> HIDE DEF d, f
<1> DEFINE p == j' - (st[c] - st[b] + 6) + 1
<1>9. p = 1
  BY <1>1, <1>2, <1>4
<1>10. k' = st[c] - st[b] + 6 + Len(d)
  BY <1>1, <1>2, <1>7 DEF f
<1>11. p \in 1 .. Len(d) + 1 /\ p % 5 = 1
  BY <1>7, <1>9
<1>12. done' \o After(d, p) = Asks(frames', c + 1)
  BY <1>1, <1>3, <1>7, <1>8, <1>9
<1>13. InReport(st, b, c)'
  BY <1>1, <1>6, <1>10, <1>11, <1>12 DEF InReport, d, f
<1>14. QED
  BY <1>1, <1>2, <1>3, <1>13 DEF Scanning

\* A unit of a report.
LEMMA UnitDone ==
  ASSUME DemoInv, NEW st, NEW e \in 0 .. Len(frames), Offsets(frames, st),
         NEW b \in 0 .. e, NEW c \in 0 .. e, Scanning(st, e, b, c),
         \A f \in Frames : Regular(f), ReportUnit
  PROVE  Scanning(st, e, b, c)' /\ mode' = "units"
<1>1. /\ mode = "units" /\ j < k
      /\ mode' = mode /\ qbuf' = qbuf /\ dcnt' = dcnt /\ frames' = frames
      /\ j' = j + 5 /\ k' = k
      /\ done' = done \o Unit(qbuf[j], qbuf[j + 1], Word(qbuf[j + 2], qbuf[j + 3]), qbuf[j + 4])
  BY DEF ReportUnit, In, mcu
<1> DEFINE f == frames[c + 1]
           d == DataOf(f)
           o == st[c] - st[b]
           p == j - (o + 6) + 1
<1>2. /\ b <= c /\ c <= e /\ dcnt = st[e] - st[b]
      /\ \A i \in b + 1 .. e : \A x \in 1 .. Len(frames[i]) :
           qbuf[st[i - 1] - st[b] + x - 1] = frames[i][x]
      /\ c < e /\ f[4] = 5 /\ k = o + 6 + Len(d)
      /\ p \in 1 .. Len(d) + 1 /\ p % 5 = 1
      /\ done \o After(d, p) = Asks(frames, c + 1)
  BY <1>1 DEF Scanning, InReport
<1>3. frames \in Seq(Frames) /\ Len(frames) \in Nat /\ j \in Nat /\ done \in Seq(Msgs)
  BY LenProperties DEF DemoInv, DemoTypeOK
<1>4. c + 1 \in 1 .. Len(frames) /\ c + 1 \in b + 1 .. e /\ c + 1 - 1 = c
  BY <1>2, <1>3
<1>5. f \in Seq(Octets) /\ Regular(f) /\ Len(f) \in Nat
  BY <1>3, <1>4, FrameFacts
<1>6. /\ d \in Seq(Octets) /\ Len(d) \in Nat /\ Len(d) = Len(f) - 7
      /\ \A x \in 1 .. Len(d) : d[x] = f[x + 6]
      /\ \A x \in 1 .. Len(d) : x % 5 = 1 => x + 4 <= Len(d)
  <2> HIDE DEF f
  <2>1. f[4] = 5
    BY <1>2
  <2>2. QED
    BY <1>5, <2>1, DataFacts
<1>7. \A x \in 1 .. Len(f) : qbuf[o + x - 1] = f[x]
  BY <1>2, <1>4
<1>8. b \in 0 .. Len(frames) /\ c \in 0 .. Len(frames) /\ st[b] \in Nat /\ st[c] \in Nat /\ o \in Int
  <2>1. b \in 0 .. Len(frames) /\ c \in 0 .. Len(frames)
    BY <1>3
  <2>2. QED
    BY <1>3, <2>1, OffsetFacts
<1>9. p \in 1 .. Len(d) /\ p + 4 <= Len(d)
  <2>1. /\ j < k /\ k = o + 6 + Len(d) /\ p \in 1 .. Len(d) + 1 /\ p % 5 = 1
        /\ Len(d) \in Nat /\ j \in Nat /\ o \in Int
    BY <1>1, <1>2, <1>3, <1>6, <1>8
  <2>2. p = j - (o + 6) + 1
    OBVIOUS
  <2> HIDE DEF d, o, p
  <2>3. p \in 1 .. Len(d)
    BY <2>1, <2>2
  <2>4. QED
    BY <1>6, <2>1, <2>3
<1>10. After(d, p) = UnitAt(d, p) \o After(d, p + 5) /\ UnitAt(d, p) \in Seq(Msgs)
       /\ After(d, p + 5) \in Seq(Msgs) /\ p + 5 \in 1 .. Len(d) + 1
  <2> HIDE DEF f, p
  <2>1. f[4] = 5 /\ p % 5 = 1
    BY <1>2
  <2>2. QED
    BY <1>5, <1>9, <2>1, AfterStep
<1>11. ASSUME NEW x \in 0 .. 4 PROVE qbuf[j + x] = d[p + x]
  <2>1. p + x \in 1 .. Len(d) /\ p + x + 6 \in 1 .. Len(f) /\ o + (p + x + 6) - 1 = j + x
    <3> HIDE DEF d, f
    <3>1. p \in Int /\ j = o + p + 5
      BY <1>3, <1>8
    <3> HIDE DEF p, o
    <3>2. QED
      BY <1>5, <1>6, <1>8, <1>9, <3>1
  <2> HIDE DEF d, f, p, o
  <2>2. QED
    BY <1>6, <1>7, <2>1
<1>12. Unit(qbuf[j], qbuf[j + 1], Word(qbuf[j + 2], qbuf[j + 3]), qbuf[j + 4]) = UnitAt(d, p)
  <2>1. qbuf[j + 0] = d[p + 0] /\ j + 0 = j /\ p + 0 = p
    <3>1. p \in Int
      BY <1>3, <1>8
    <3> HIDE DEF d, p
    <3>2. QED
      BY <1>3, <1>11, <3>1
  <2> HIDE DEF d, p
  <2>2. QED
    BY <1>11, <2>1 DEF UnitAt
<1>13. done' \o After(d, p + 5) = Asks(frames', c + 1)
  <2> HIDE DEF d, p
  <2> DEFINE u == UnitAt(d, p)
             a == After(d, p + 5)
  <2>0. done \in Seq(Msgs) /\ u \in Seq(Msgs) /\ a \in Seq(Msgs)
    BY <1>3, <1>10
  <2>1. (done \o u) \o a = done \o (u \o a)
    <3> HIDE DEF u, a
    <3>1. QED
      BY <2>0, ConcatAssociative
  <2>2. QED
    BY <1>1, <1>2, <1>10, <1>12, <2>1
<1>14. j' - (o + 6) + 1 = p + 5 /\ (p + 5) % 5 = 1
  <2>1. j' - (o + 6) + 1 = p + 5 /\ p \in Int
    <3>1. j' = j + 5 /\ j \in Nat /\ o \in Int
      BY <1>1, <1>3, <1>8
    <3> HIDE DEF o
    <3>2. QED
      BY <3>1
  <2>2. p % 5 = 1
    BY <1>2
  <2> HIDE DEF p
  <2>3. QED
    BY <2>1, <2>2
<1>15. InReport(st, b, c)'
  <2> HIDE DEF p
  <2>1. QED
    BY <1>1, <1>2, <1>10, <1>13, <1>14 DEF InReport
<1>16. QED
  BY <1>1, <1>2, <1>15 DEF Scanning

\* The end of a report: its frame is done.
LEMMA ReportDone ==
  ASSUME DemoInv, NEW st, NEW e \in 0 .. Len(frames), Offsets(frames, st),
         NEW b \in 0 .. e, NEW c \in 0 .. e, Scanning(st, e, b, c),
         \A f \in Frames : Regular(f), ReportEnd
  PROVE  Scanning(st, e, b, c + 1)' /\ c < e /\ mode' = "scan"
<1>1. /\ mode = "units" /\ ~ (j < k)
      /\ mode' = "scan" /\ qbuf' = qbuf /\ dcnt' = dcnt /\ frames' = frames
      /\ j' = j + 1 /\ done' = done
  <2>1. mode = "units" /\ j >= k /\ mode' = "scan" /\ qbuf' = qbuf /\ dcnt' = dcnt
        /\ frames' = frames /\ j' = j + 1 /\ done' = done
    BY DEF ReportEnd, In, mcu
  <2>2. j \in Nat /\ k \in Nat
    BY DEF DemoInv, DemoTypeOK
  <2>3. QED
    BY <2>1, <2>2
<1> DEFINE f == frames[c + 1]
           d == DataOf(f)
           o == st[c] - st[b]
           p == j - (o + 6) + 1
<1>2. /\ b <= c /\ c <= e /\ dcnt = st[e] - st[b]
      /\ \A i \in b + 1 .. e : \A x \in 1 .. Len(frames[i]) :
           qbuf[st[i - 1] - st[b] + x - 1] = frames[i][x]
      /\ c < e /\ f[4] = 5 /\ k = o + 6 + Len(d)
      /\ p \in 1 .. Len(d) + 1
      /\ done \o After(d, p) = Asks(frames, c + 1)
  BY <1>1 DEF Scanning, InReport
<1>3. frames \in Seq(Frames) /\ Len(frames) \in Nat /\ j \in Nat /\ k \in Nat /\ done \in Seq(Msgs)
  BY LenProperties DEF DemoInv, DemoTypeOK
<1>4. c + 1 \in 1 .. Len(frames) /\ c + 1 - 1 = c
  BY <1>2, <1>3
<1>5. f \in Seq(Octets) /\ Regular(f) /\ Len(f) \in Nat
  BY <1>3, <1>4, FrameFacts
<1>6. Len(d) \in Nat /\ Len(d) = Len(f) - 7
  <2> HIDE DEF f
  <2>1. f[4] = 5
    BY <1>2
  <2>2. QED
    BY <1>5, <2>1, DataFacts
<1>7. b \in 0 .. Len(frames) /\ c \in 0 .. Len(frames) /\ st[b] \in Nat /\ st[c] \in Nat
      /\ st[c + 1] = st[c] + Len(f)
  <2>1. b \in 0 .. Len(frames) /\ c \in 0 .. Len(frames)
    BY <1>3
  <2>2. QED
    BY <1>3, <1>4, <2>1, OffsetFacts
<1>8. p = Len(d) + 1 /\ j = o + 6 + Len(d)
  <2>1. /\ o \in Int /\ j \in Nat /\ k \in Nat /\ ~ (j < k) /\ Len(d) \in Nat
        /\ p \in 1 .. Len(d) + 1 /\ k = o + 6 + Len(d)
    <3>1. o \in Int
      BY <1>7
    <3>2. j \in Nat /\ k \in Nat /\ ~ (j < k)
      BY <1>1, <1>3
    <3>3. p \in 1 .. Len(d) + 1 /\ k = o + 6 + Len(d)
      BY <1>2
    <3>4. QED
      BY <1>6, <3>1, <3>2, <3>3
  <2>2. p = j - (o + 6) + 1
    OBVIOUS
  <2> HIDE DEF d, o, p
  <2>3. QED
    BY <2>1, <2>2
<1>9. done' = Asks(frames, c + 1)
  <2> HIDE DEF d, p
  <2>1. After(d, p) = <<>>
    BY <1>6, <1>8 DEF After
  <2>2. done \o <<>> = done
    BY <1>3, ConcatEmptySeq
  <2>3. QED
    BY <1>1, <1>2, <2>1, <2>2
<1>10. j' = st[c + 1] - st[b]
  <2>1. /\ j' = j + 1 /\ j = o + 6 + Len(d) /\ Len(d) = Len(f) - 7 /\ Len(f) \in Nat
        /\ st[c + 1] = st[c] + Len(f) /\ o = st[c] - st[b] /\ st[b] \in Nat /\ st[c] \in Nat
    BY <1>1, <1>5, <1>6, <1>7, <1>8
  <2> HIDE DEF d, f, o
  <2>2. j' = o + 6 + (Len(f) - 7) + 1
    BY <2>1
  <2>3. o \in Int /\ j' = o + Len(f)
    BY <2>1, <2>2, SMTT(30)
  <2>4. o + Len(f) = (st[c] + Len(f)) - st[b]
    BY <2>1, SMTT(30)
  <2>5. st[c + 1] - st[b] = (st[c] + Len(f)) - st[b]
    BY <2>1
  <2>6. QED
    BY <2>3, <2>4, <2>5
<1>11. BetweenFrames(st, b, c + 1)'
  <2>1. st[c + 1] - st[b] \in Int
    BY <1>5, <1>7
  <2>2. j' <= st[c + 1] - st[b] /\ j' .. st[c + 1] - st[b] - 1 = {}
    BY <1>10, <2>1
  <2>3. QED
    BY <1>1, <1>9, <2>2 DEF BetweenFrames
<1>12. b <= c + 1 /\ c + 1 <= e
  BY <1>2, <1>3
<1>13. QED
  BY <1>1, <1>2, <1>11, <1>12 DEF Scanning

\* The end of the record: all its frames are done.
LEMMA RecordDone ==
  ASSUME DemoInv, NEW st, NEW e \in 0 .. Len(frames), Offsets(frames, st),
         NEW b \in 0 .. e, NEW c \in 0 .. e, Scanning(st, e, b, c), ScanEnd
  PROVE  done = Asks(frames, e)
<1>1. mode = "scan" /\ j >= dcnt
  BY DEF ScanEnd, In
<1>2. c <= e /\ dcnt = st[e] - st[b] /\ done = Asks(frames, c) /\ j <= st[c] - st[b]
  BY <1>1 DEF Scanning, BetweenFrames
<1>3. frames \in Seq(Frames) /\ Len(frames) \in Nat /\ j \in Nat
  BY LenProperties DEF DemoInv, DemoTypeOK
<1>4. b \in 0 .. Len(frames) /\ c \in 0 .. Len(frames)
  BY <1>3
<1>5. st[b] \in Nat /\ st[c] \in Nat /\ st[e] \in Nat
  BY <1>3, <1>4, OffsetFacts
<1>6. ~ (c < e)
  <2>1. c < e => st[c] + 7 <= st[e]
    BY <1>4 DEF Offsets
  <2>2. QED
    BY <1>1, <1>2, <1>3, <1>5, <2>1
<1>7. c = e
  BY <1>2, <1>3, <1>6
<1>8. QED
  BY <1>2, <1>7

\* A record is read: main is before the first of its frames.
LEMMA ReadDone ==
  ASSUME DemoInv, NEW st, NEW ct, Offsets(frames, st), CachedFrames(st, ct), Scanned(st, ct[0]),
         \A f \in Frames : Regular(f), ReadRecord
  PROVE  \E cu : CachedFrames(st, cu)' /\ Scanned(st, cu[0])'
<1>1. /\ mode = "read" /\ cached # <<>> /\ cached' = Tail(cached) /\ mode' = "scan"
      /\ dcnt' = Len(Head(cached)) /\ j' = 0
      /\ qbuf' = [i \in DOMAIN qbuf |-> IF i < dcnt' THEN Head(cached)[i + 1] ELSE qbuf[i]]
      /\ frames' = frames /\ line' = line /\ done' = done
  BY DEF ReadRecord, In, mcu
<1> DEFINE n == Len(cached)
           s == cached[1]
<1>0. PICK b, e, cu : b = ct[0] /\ e = ct[1] /\ cu = [i \in 0 .. n - 1 |-> ct[i + 1]]
  OBVIOUS
<1>2. /\ cached \in Seq(Seq(Octets)) /\ n \in Nat /\ n # 0 /\ Head(cached) = s
      /\ Len(Tail(cached)) = n - 1 /\ \A i \in 1 .. n - 1 : Tail(cached)[i] = cached[i + 1]
  <2>1. cached \in Seq(Seq(Octets))
    BY DEF DemoInv
  <2>2. QED
    BY <1>1, <2>1, HeadTailProperties, EmptySeq, LenProperties
<1>3. /\ ct \in [0 .. n -> 0 .. Len(frames)]
      /\ \A i \in 1 .. n : IsFrames(frames, st, cached[i], ct[i - 1], ct[i])
      /\ IsFrames(frames, st, line, ct[n], Len(frames))
  BY DEF CachedFrames
<1>4. frames \in Seq(Frames) /\ Len(frames) \in Nat
  BY LenProperties DEF DemoInv, DemoTypeOK
<1>5. CachedFrames(st, cu)'
  <2>1. cu \in [0 .. n - 1 -> 0 .. Len(frames)]
    <3>1. \A i \in 0 .. n - 1 : i + 1 \in 0 .. n
      BY <1>2
    <3> HIDE DEF n
    <3>2. QED
      BY <1>0, <1>3, <3>1
  <2>2. ASSUME NEW i \in 1 .. n - 1
        PROVE  IsFrames(frames, st, Tail(cached)[i], cu[i - 1], cu[i])
    <3>1. i + 1 \in 1 .. n /\ i - 1 \in 0 .. n - 1 /\ i \in 0 .. n - 1
          /\ i + 1 - 1 = i /\ i - 1 + 1 = i
      BY <1>2
    <3>2. cu[i - 1] = ct[i] /\ cu[i] = ct[i + 1] /\ Tail(cached)[i] = cached[i + 1]
      <4> HIDE DEF n
      <4>1. QED
        BY <1>0, <1>2, <3>1
    <3> HIDE DEF n
    <3>3. IsFrames(frames, st, cached[i + 1], ct[i + 1 - 1], ct[i + 1])
      BY <1>3, <3>1
    <3>4. QED
      BY <3>1, <3>2, <3>3
  <2>3. cu[n - 1] = ct[n]
    <3>1. n - 1 \in 0 .. n - 1 /\ n - 1 + 1 = n
      BY <1>2
    <3> HIDE DEF n
    <3>2. QED
      BY <1>0, <3>1
  <2> HIDE DEF n
  <2>4. QED
    BY <1>1, <1>2, <1>3, <2>1, <2>2, <2>3 DEF CachedFrames, n
<1>6. cu[0] = e
  <2>1. 0 \in 0 .. n - 1 /\ 0 + 1 = 1
    BY <1>2
  <2> HIDE DEF n
  <2>2. QED
    BY <1>0, <2>1
<1>7. b \in 0 .. Len(frames) /\ e \in 0 .. Len(frames) /\ IsFrames(frames, st, s, b, e)
  <2>1. 0 \in 0 .. n /\ 1 \in 0 .. n /\ 1 \in 1 .. n /\ 1 - 1 = 0
    BY <1>2
  <2> HIDE DEF n
  <2>2. QED
    BY <1>0, <1>3, <2>1
<1>8. /\ b <= e /\ Len(s) = st[e] - st[b]
      /\ \A i \in b + 1 .. e : \A x \in 1 .. Len(frames[i]) :
           s[st[i - 1] - st[b] + x] = frames[i][x]
  BY <1>7 DEF IsFrames
<1>9. done = Asks(frames, b)
  BY <1>0, <1>1 DEF Scanned
<1>10. dcnt' = Len(s) /\ Len(s) \in 0 .. RecSize /\ RecSize <= BufLen
       /\ RecSize \in Nat /\ BufLen \in Nat /\ DOMAIN qbuf = 0 .. BufLen - 1
  <2>1. 1 \in 1 .. n
    BY <1>2
  <2>2. Len(s) \in 1 .. RecSize /\ qbuf \in [0 .. BufLen - 1 -> 0 .. 255]
    BY <2>1 DEF DemoInv, DemoTypeOK
  <2>3. RecSize \in Nat /\ BufLen \in Nat /\ RecSize + 5 <= BufLen
    BY DemoConstants
  <2> HIDE DEF s
  <2>4. QED
    BY <1>1, <1>2, <2>2, <2>3
<1>11. \A y \in Nat : y < Len(s) => qbuf'[y] = s[y + 1]
  <2> HIDE DEF s
  <2>1. ASSUME NEW y \in Nat, y < Len(s) PROVE qbuf'[y] = s[y + 1]
    <3>1. y \in DOMAIN qbuf /\ y < dcnt'
      BY <1>10, <2>1
    <3>2. QED
      BY <1>1, <1>2, <3>1
  <2>2. QED
    BY <2>1
<1>12. ASSUME NEW i \in b + 1 .. e, NEW x \in 1 .. Len(frames[i])
       PROVE  qbuf'[st[i - 1] - st[b] + x - 1] = frames[i][x]
  <2>1. i \in 1 .. Len(frames) /\ i \in 0 .. Len(frames) /\ i - 1 \in 0 .. Len(frames)
        /\ b <= i - 1 /\ i <= e
    BY <1>4, <1>7
  <2>2. /\ st[b] \in Nat /\ st[e] \in Nat /\ st[i] \in Nat /\ st[i - 1] \in Nat
        /\ st[b] <= st[i - 1] /\ st[i] <= st[e] /\ st[i] = st[i - 1] + Len(frames[i])
    BY <1>4, <1>7, <2>1, OffsetFacts
  <2>3. Len(frames[i]) \in Nat
    BY <1>4, <2>1, FrameFacts
  <2> DEFINE y == st[i - 1] - st[b] + x - 1
  <2>4. y \in Nat /\ y < Len(s) /\ y + 1 = st[i - 1] - st[b] + x
    <3>1. Len(s) = st[e] - st[b]
      BY <1>8
    <3>2. x \in Nat /\ 1 <= x /\ x <= Len(frames[i]) /\ st[i - 1] + x <= st[e]
      BY <1>12, <2>2, <2>3
    <3>3. st[i - 1] - st[b] \in Nat /\ y = st[i - 1] - st[b] + x - 1
          /\ st[i - 1] - st[b] + x <= st[e] - st[b]
      BY <2>2, <3>2
    <3> HIDE DEF s, y
    <3>4. QED
      BY <3>1, <3>2, <3>3
  <2> HIDE DEF y, s
  <2>5. qbuf'[y] = s[st[i - 1] - st[b] + x]
    BY <1>11, <2>4
  <2>6. QED
    BY <1>8, <1>12, <2>5 DEF y
<1>13. BetweenFrames(st, b, b)'
  <2>1. st[b] \in Nat
    BY <1>4, <1>7, OffsetFacts
  <2>2. st[b] - st[b] = 0 /\ 0 .. st[b] - st[b] - 1 = {} /\ 0 <= st[b] - st[b]
    BY <2>1
  <2>3. QED
    BY <1>1, <1>9, <2>2 DEF BetweenFrames
<1>14. Scanning(st, e, b, b)'
  <2>1. dcnt' = st[e] - st[b] /\ b <= b /\ b <= e
    BY <1>4, <1>7, <1>8, <1>10
  <2>2. QED
    BY <1>1, <1>12, <1>13, <2>1 DEF Scanning
<1>15. b \in 0 .. e
  BY <1>7, <1>8
<1>16. Scanned(st, cu[0])'
  BY <1>1, <1>6, <1>14, <1>15 DEF Scanned
<1>17. QED
  BY <1>5, <1>16

\* What is on the line becomes a record of its own: it is shorter than a record.
LEMMA ReceiveDone ==
  ASSUME DemoInv, NEW st, NEW ct, CachedFrames(st, ct), Offsets(frames, st),
         ~ polling, Len(line) <= MaxBurst, MaxBurst < RecSize, Receive, ~ lost'
  PROVE  /\ ~ lost /\ ~ polling' /\ Len(line') <= MaxBurst
         /\ \E cu : CachedFrames(st, cu)' /\ cu[0] = ct[0]
<1>1. /\ line # <<>> /\ Len(cached) < Cap
      /\ cached' = Append(cached, SubSeq(line, 1, Cut))
      /\ polling' = (Cut = RecSize /\ ~polling /\ Len(cached) + 1 < Cap)
      /\ lost' = lost /\ frames' = frames
      /\ line' = SubSeq(line, Cut + 1, Len(line))
  BY DEF Receive
<1>2. line \in Seq(Octets) /\ Len(line) \in Nat /\ RecSize \in Nat /\ MaxBurst \in Nat
  BY DemoConstants, AtDemoAssumption, LenProperties DEF DemoInv
<1>3. Cut = Len(line) /\ Cut # RecSize
  <2>1. ~ (Len(line) >= RecSize)
    BY <1>2
  <2>2. Cut = Len(line)
    BY <2>1 DEF Cut
  <2>3. QED
    BY <1>2, <2>1, <2>2
<1>4. SubSeq(line, 1, Len(line)) = line /\ line' = <<>> /\ Len(line') = 0
  <2>1. SubSeq(line, 1, Len(line)) = line
    BY <1>2, SubSeqFull
  <2>2. line' = <<>> /\ Len(<<>>) = 0
    <3>1. ~ (Len(line) + 1 <= Len(line))
      BY <1>2
    <3>2. SubSeq(line, Len(line) + 1, Len(line)) = <<>>
      BY <1>2, <3>1, SubSeqEmpty
    <3>3. QED
      BY <1>1, <1>3, <3>2, EmptySeq
  <2>3. QED
    BY <2>1, <2>2
<1> DEFINE n == Len(cached)
           m == Len(frames)
<1>0. PICK cu : cu = [i \in 0 .. n + 1 |-> IF i <= n THEN ct[i] ELSE m]
  OBVIOUS
<1>5. /\ cached \in Seq(Seq(Octets)) /\ n \in Nat /\ m \in Nat
      /\ cached' = Append(cached, line) /\ Len(cached') = n + 1 /\ cached'[n + 1] = line
      /\ \A i \in 1 .. n : cached'[i] = cached[i]
  <2>1. cached \in Seq(Seq(Octets)) /\ line \in Seq(Octets)
    BY DEF DemoInv
  <2>2. cached' = Append(cached, line)
    BY <1>1, <1>3, <1>4
  <2>3. n \in Nat /\ m \in Nat
    BY <2>1, LenProperties DEF DemoInv, DemoTypeOK
  <2>4. QED
    BY <2>1, <2>2, <2>3, AppendProperties
<1>6. /\ ct \in [0 .. n -> 0 .. m]
      /\ \A i \in 1 .. n : IsFrames(frames, st, cached[i], ct[i - 1], ct[i])
      /\ IsFrames(frames, st, line, ct[n], m)
  BY DEF CachedFrames
<1> HIDE DEF n, m
<1>7. /\ cu \in [0 .. n + 1 -> 0 .. m] /\ cu[n + 1] = m
      /\ \A i \in 0 .. n : cu[i] = ct[i]
  <2>1. \A i \in 0 .. n + 1 : i <= n => i \in 0 .. n
    BY <1>5
  <2>2. m \in 0 .. m /\ n + 1 \in 0 .. n + 1 /\ ~ (n + 1 <= n)
    BY <1>5
  <2>3. \A i \in 0 .. n : i \in 0 .. n + 1 /\ i <= n
    BY <1>5
  <2>4. QED
    BY <1>0, <1>6, <2>1, <2>2, <2>3
<1>8. ASSUME NEW i \in 1 .. n + 1 PROVE IsFrames(frames, st, cached'[i], cu[i - 1], cu[i])
  <2>1. CASE i = n + 1
    <3>1. i - 1 = n /\ n \in 0 .. n
      BY <1>5, <2>1
    <3>2. QED
      BY <1>5, <1>6, <1>7, <2>1, <3>1
  <2>2. CASE i \in 1 .. n
    <3>1. i \in 0 .. n /\ i - 1 \in 0 .. n
      BY <1>5, <2>2
    <3>2. QED
      BY <1>5, <1>6, <1>7, <2>2, <3>1
  <2>3. QED
    BY <1>5, <2>1, <2>2
<1>9. IsFrames(frames, st, line', m, m)
  <2>1. m \in 0 .. Len(frames) /\ m \in Nat
    BY <1>5 DEF m
  <2>2. st[m] \in Nat
    BY <2>1 DEF Offsets
  <2>3. Len(line') = st[m] - st[m] /\ m <= m /\ m + 1 .. m = {}
    BY <1>4, <2>1, <2>2
  <2>4. QED
    BY <2>3 DEF IsFrames
<1>10. CachedFrames(st, cu)'
  <2>1. cu \in [0 .. Len(cached') -> 0 .. Len(frames')] /\ cu[Len(cached')] = Len(frames')
    BY <1>1, <1>5, <1>7 DEF m
  <2>2. \A i \in 1 .. Len(cached') : IsFrames(frames', st, cached'[i], cu[i - 1], cu[i])
    BY <1>1, <1>5, <1>8
  <2>3. IsFrames(frames', st, line', cu[Len(cached')], Len(frames'))
    BY <1>1, <1>9, <2>1 DEF m
  <2>4. QED
    BY <2>1, <2>2, <2>3 DEF CachedFrames
<1>11. cu[0] = ct[0]
  BY <1>5, <1>7
<1>12. QED
  <2>1. ~ lost /\ ~ polling' /\ Len(line') <= MaxBurst
    <3>1. ~ polling'
      <4>1. polling' = (Cut = RecSize /\ ~polling /\ Len(cached) + 1 < Cap)
        BY <1>1
      <4>2. QED
        BY <1>3, <4>1
    <3>2. lost' = lost
      BY <1>1
    <3>3. Len(line') <= MaxBurst
      BY <1>2, <1>4
    <3>4. QED
      BY <3>1, <3>2, <3>3
  <2>2. QED
    BY <1>10, <1>11, <2>1

\* A frame more is sent.
LEMMA SendDone ==
  ASSUME DemoInv, NEW st, NEW ct, Offsets(frames, st), CachedFrames(st, ct), Scanned(st, ct[0]),
         Followed, \A f \in Frames : Regular(f), McuSend
  PROVE  /\ Followed' /\ Len(line') <= MaxBurst
         /\ \E su : Offsets(frames, su)' /\ CachedFrames(su, ct)' /\ Scanned(su, ct[0])'
<1>1. PICK f \in Frames : /\ Len(line) + Len(f) <= MaxBurst
                          /\ frames' = Append(frames, f) /\ line' = line \o f
  BY DEF McuSend
<1>2. /\ cached' = cached /\ mode' = mode /\ qbuf' = qbuf /\ dcnt' = dcnt
      /\ j' = j /\ k' = k /\ done' = done
  BY DEF McuSend, rx, scanner
<1>3. PICK n : n = Len(frames)
  OBVIOUS
<1>4. frames \in Seq(Frames) /\ n \in Nat /\ line \in Seq(Octets) /\ f \in Seq(Octets)
  BY <1>3, DemoConstants, LenProperties DEF DemoInv, DemoTypeOK
<1>5. /\ frames' \in Seq(Frames) /\ Len(frames') = n + 1 /\ frames'[n + 1] = f
      /\ \A i \in 1 .. n : frames'[i] = frames[i]
  BY <1>1, <1>3, <1>4, AppendProperties
<1>6. PICK su : /\ Offsets(Append(frames, f), su)
                /\ \A x \in 0 .. n : su[x] = st[x]
                /\ su[n + 1] = st[n] + Len(f)
  BY <1>3, <1>4, OffsetsGrow
<1>7. Len(line') <= MaxBurst
  BY <1>1, <1>4, ConcatProperties
<1>8. \A c \in 0 .. n : Asks(frames', c) = Asks(frames, c)
  BY <1>1, <1>3, <1>4, AsksSame
<1>9. Followed'
  <2>1. /\ n \in 0 .. n /\ n \in 0 .. Len(frames') - 1
    BY <1>4, <1>5
  <2>2. /\ Asks(frames', n + 1) = Asks(frames', n) \o Asked(f)
        /\ Asked(f) \in Seq(Msgs) /\ Asks(frames', n + 1) \in Seq(Msgs)
        /\ Asks(frames', n) \in Seq(Msgs)
    BY <1>5, <2>1, AsksStep
  <2>3. ASSUME NEW c \in 0 .. n + 1 PROVE Begins(Asks(frames', c), Asks(frames', n + 1))
    <3>1. CASE c = n + 1
      BY <2>2, <3>1, BeginsFacts
    <3>2. CASE c \in 0 .. n
      <4>1. Begins(Asks(frames, c), Asks(frames, n))
        BY <1>3, <3>2 DEF Followed
      <4>2. Begins(Asks(frames', c), Asks(frames', n))
        BY <1>8, <2>1, <3>2, <4>1
      <4>3. Asks(frames', c) \in Seq(Msgs)
        BY <1>3, <1>4, <1>8, <3>2, AsksType
      <4>4. \A y \in Seq(Msgs) : Begins(Asks(frames', c), Asks(frames', n))
                                  => Begins(Asks(frames', c), Asks(frames', n) \o y)
        BY <2>2, <4>3, BeginsFacts
      <4>5. QED
        BY <2>2, <4>2, <4>4
    <3>3. QED
      BY <1>4, <3>1, <3>2
  <2>4. QED
    BY <1>5, <2>3 DEF Followed
<1>10. CachedFrames(su, ct)'
  <2>1. /\ ct \in [0 .. Len(cached) -> 0 .. n] /\ Len(cached) \in Nat
        /\ \A i \in 1 .. Len(cached) : IsFrames(frames, st, cached[i], ct[i - 1], ct[i])
        /\ IsFrames(frames, st, line, ct[Len(cached)], n)
    <3>1. cached \in Seq(Seq(Octets))
      BY DEF DemoInv
    <3>2. Len(cached) \in Nat
      BY <3>1, LenProperties
    <3>3. QED
      BY <1>3, <3>2 DEF CachedFrames
  <2>2. ct \in [0 .. Len(cached) -> 0 .. n + 1]
    <3>1. \A x \in 0 .. n : x \in 0 .. n + 1
      BY <1>4
    <3>2. QED
      BY <2>1, <3>1
  <2>3. ASSUME NEW i \in 1 .. Len(cached) PROVE IsFrames(frames', su, cached[i], ct[i - 1], ct[i])
    <3>1. ct[i - 1] \in 0 .. Len(frames) /\ ct[i] \in 0 .. Len(frames)
      <4>1. i - 1 \in 0 .. Len(cached) /\ i \in 0 .. Len(cached)
        BY <2>1
      <4>2. QED
        BY <1>3, <2>1, <4>1
    <3>2. \A x \in 0 .. Len(frames) : su[x] = st[x]
      BY <1>3, <1>6
    <3>3. IsFrames(frames, st, cached[i], ct[i - 1], ct[i])
      BY <2>1
    <3>4. QED
      BY <1>1, <1>4, <3>1, <3>2, <3>3, IsFramesSame
  <2>4. IsFrames(frames', su, line', ct[Len(cached)], n + 1)
    <3>1. ct[Len(cached)] \in 0 .. Len(frames)
      <4>1. Len(cached) \in 0 .. Len(cached)
        BY <2>1
      <4>2. QED
        BY <1>3, <2>1, <4>1
    <3>2. (\A x \in 0 .. Len(frames) : su[x] = st[x]) /\ su[Len(frames) + 1] = st[Len(frames)] + Len(f)
      BY <1>3, <1>6
    <3>3. IsFrames(frames, st, line, ct[Len(cached)], Len(frames))
      BY <1>3, <2>1
    <3>4. QED
      BY <1>1, <1>3, <1>4, <3>1, <3>2, <3>3, IsFramesGrow
  <2>5. QED
    BY <1>2, <1>5, <2>2, <2>3, <2>4 DEF CachedFrames
<1>11. PICK e : e = ct[0]
  OBVIOUS
<1>12. e \in 0 .. n
  <2>1. cached \in Seq(Seq(Octets))
    BY DEF DemoInv
  <2>2. 0 \in 0 .. Len(cached)
    BY <2>1, LenProperties
  <2>3. QED
    BY <1>3, <1>11, <2>2 DEF CachedFrames
<1>13. Scanned(su, e)'
  <2>1. CASE mode = "read"
    <3>1. done = Asks(frames, e)
      BY <1>11, <2>1 DEF Scanned
    <3>2. QED
      BY <1>2, <1>8, <1>12, <2>1, <3>1 DEF Scanned
  <2>2. CASE mode # "read"
    <3>1. PICK b \in 0 .. e : \E c \in 0 .. e : Scanning(st, e, b, c)
      BY <1>11, <2>2 DEF Scanned
    <3>2. PICK c \in 0 .. e : Scanning(st, e, b, c)
      BY <3>1
    <3>3. /\ b \in 0 .. n /\ c \in 0 .. n /\ su[b] = st[b] /\ su[c] = st[c] /\ su[e] = st[e]
          /\ c < e => c + 1 \in 0 .. n /\ c + 1 \in 1 .. n
          /\ \A i \in b + 1 .. e : i \in 1 .. n /\ i - 1 \in 0 .. n
      <4>1. /\ b \in 0 .. n /\ c \in 0 .. n
            /\ c < e => c + 1 \in 0 .. n /\ c + 1 \in 1 .. n
            /\ \A i \in b + 1 .. e : i \in 1 .. n /\ i - 1 \in 0 .. n
        BY <1>4, <1>12
      <4>2. QED
        BY <1>6, <1>12, <4>1
    <3>4. Asks(frames', c) = Asks(frames, c)
      BY <1>8, <3>3
    <3>5. ASSUME c < e PROVE Asks(frames', c + 1) = Asks(frames, c + 1) /\ frames'[c + 1] = frames[c + 1]
      BY <1>5, <1>8, <3>3, <3>5
    <3>6. /\ b <= c /\ c <= e /\ dcnt = st[e] - st[b]
          /\ \A i \in b + 1 .. e : \A x \in 1 .. Len(frames[i]) :
               qbuf[st[i - 1] - st[b] + x - 1] = frames[i][x]
          /\ mode = "scan" => BetweenFrames(st, b, c)
          /\ mode = "units" => c < e /\ InReport(st, b, c)
      BY <3>2 DEF Scanning
    <3>7. \A i \in b + 1 .. e : frames'[i] = frames[i] /\ su[i - 1] = st[i - 1]
      BY <1>5, <1>6, <3>3
    <3>8. \A i \in b + 1 .. e : \A x \in 1 .. Len(frames'[i]) :
            qbuf'[su[i - 1] - su[b] + x - 1] = frames'[i][x]
      BY <1>2, <3>3, <3>6, <3>7
    <3>9. mode' = "scan" => BetweenFrames(su, b, c)'
      BY <1>2, <3>3, <3>4, <3>6 DEF BetweenFrames
    <3>10. mode' = "units" => c < e /\ InReport(su, b, c)'
      BY <1>2, <3>3, <3>5, <3>6 DEF InReport
    <3>11. Scanning(su, e, b, c)'
      BY <1>2, <3>3, <3>6, <3>8, <3>9, <3>10 DEF Scanning
    <3>12. QED
      BY <1>2, <2>2, <3>11 DEF Scanned
  <2>3. QED
    BY <2>1, <2>2
<1>14. Offsets(frames, su)'
  BY <1>1, <1>6
<1>15. QED
  BY <1>7, <1>9, <1>10, <1>11, <1>13, <1>14

\* A step of main in a record.
LEMMA ScannedStep ==
  ASSUME DemoInv, DemoInv', NEW st, NEW e \in 0 .. Len(frames), Offsets(frames, st),
         Scanned(st, e), \A f \in Frames : Regular(f),
         \/ ScanEnd \/ ScanSkip \/ ScanReport \/ ScanWifiFunc \/ ScanOther
         \/ ReportUnit \/ ReportEnd
  PROVE  /\ Scanned(st, e)'
         /\ lost' = lost /\ polling' = polling /\ line' = line /\ frames' = frames /\ cached' = cached
<1>1. mode # "read"
  BY DEF ScanEnd, ScanSkip, ScanReport, ScanWifiFunc, ScanOther, ReportUnit, ReportEnd, In
<1>2. lost' = lost /\ polling' = polling /\ line' = line /\ frames' = frames /\ cached' = cached
  BY DEF ScanEnd, ScanSkip, ScanReport, ScanWifiFunc, ScanOther, ReportUnit, ReportEnd, mcu, rx
<1>3. PICK b \in 0 .. e : \E c \in 0 .. e : Scanning(st, e, b, c)
  BY <1>1 DEF Scanned
<1>4. PICK c \in 0 .. e : Scanning(st, e, b, c)
  BY <1>3
<1>5. Len(frames) \in Nat /\ e \in Nat
  BY LenProperties DEF DemoInv, DemoTypeOK
<1>6. CASE ScanEnd
  <2>1. done = Asks(frames, e)
    BY <1>4, <1>6, RecordDone
  <2>2. mode' = "read" /\ done' = done
    BY <1>6 DEF ScanEnd
  <2>3. QED
    BY <1>2, <2>1, <2>2 DEF Scanned
<1>7. CASE ScanSkip \/ ScanReport \/ ReportUnit
  <2>1. Scanning(st, e, b, c)' /\ mode' # "read"
    BY <1>4, <1>7, SkipDone, ReportBegins, UnitDone
  <2>2. QED
    BY <1>2, <2>1 DEF Scanned
<1>8. CASE ScanWifiFunc \/ ScanOther \/ ReportEnd
  <2>1. Scanning(st, e, b, c + 1)' /\ c < e /\ mode' # "read"
    BY <1>4, <1>8, ScanDone, ReportDone
  <2>2. c + 1 \in 0 .. e
    BY <1>5, <2>1
  <2>3. QED
    BY <1>2, <2>1, <2>2 DEF Scanned
<1>9. QED
  BY <1>6, <1>7, <1>8

LEMMA ReportStep ==
  ASSUME DemoInv, DemoInv', ReportInv, [DemoNext]_demo,
         MaxBurst < RecSize, \A f \in Frames : Regular(f)
  PROVE  ReportInv'
<1> SUFFICES ASSUME ~ lost'
             PROVE  /\ ~ polling' /\ Len(line') <= MaxBurst /\ Followed'
                    /\ \E st : \E ct : /\ Offsets(frames, st)' /\ CachedFrames(st, ct)'
                                       /\ Scanned(st, ct[0])'
  BY DEF ReportInv
<1>1. CASE McuSend
  <2>1. lost' = lost /\ polling' = polling
    BY <1>1 DEF McuSend, rx
  <2>2. PICK st, ct : Offsets(frames, st) /\ CachedFrames(st, ct) /\ Scanned(st, ct[0])
    BY <2>1 DEF ReportInv
  <2>3. ~ polling /\ Followed
    BY <2>1 DEF ReportInv
  <2>4. QED
    BY <1>1, <2>1, <2>2, <2>3, SendDone
<1>2. CASE Receive
  <2>1. lost => lost'
    BY <1>2 DEF Receive
  <2>2. ~ polling /\ Len(line) <= MaxBurst /\ Followed
    BY <2>1 DEF ReportInv
  <2>3. PICK st, ct : Offsets(frames, st) /\ CachedFrames(st, ct) /\ Scanned(st, ct[0])
    BY <2>1 DEF ReportInv
  <2>4. /\ frames' = frames /\ mode' = mode /\ qbuf' = qbuf /\ dcnt' = dcnt
        /\ j' = j /\ k' = k /\ done' = done
    BY <1>2 DEF Receive, scanner
  <2>5. ~ polling' /\ Len(line') <= MaxBurst
    BY <1>2, <2>2, <2>3, ReceiveDone
  <2>6. PICK cu : CachedFrames(st, cu)' /\ cu[0] = ct[0]
    BY <1>2, <2>2, <2>3, ReceiveDone
  <2>7. Scanned(st, ct[0])' /\ Followed' /\ Offsets(frames, st)'
    BY <2>2, <2>3, <2>4, ZenonT(40) DEF Scanned, Scanning, BetweenFrames, InReport, Followed
  <2>8. QED
    BY <2>5, <2>6, <2>7
<1>3. CASE ReadRecord
  <2>1. lost' = lost /\ polling' = polling /\ line' = line /\ frames' = frames
    BY <1>3 DEF ReadRecord, mcu
  <2>2. ~ polling /\ Len(line) <= MaxBurst /\ Followed
    BY <2>1 DEF ReportInv
  <2>3. PICK st, ct : Offsets(frames, st) /\ CachedFrames(st, ct) /\ Scanned(st, ct[0])
    BY <2>1 DEF ReportInv
  <2>4. PICK cu : CachedFrames(st, cu)' /\ Scanned(st, cu[0])'
    BY <1>3, <2>3, ReadDone
  <2>5. Offsets(frames, st)' /\ Followed'
    BY <2>1, <2>2, <2>3 DEF Followed
  <2>6. QED
    BY <2>1, <2>2, <2>4, <2>5
<1>4. CASE \/ ScanEnd \/ ScanSkip \/ ScanReport \/ ScanWifiFunc \/ ScanOther
           \/ ReportUnit \/ ReportEnd
  <2>1. lost' = lost
    BY <1>4 DEF ScanEnd, ScanSkip, ScanReport, ScanWifiFunc, ScanOther, ReportUnit, ReportEnd, rx
  <2>2. ~ polling /\ Len(line) <= MaxBurst /\ Followed
    BY <2>1 DEF ReportInv
  <2>3. PICK st, ct : Offsets(frames, st) /\ CachedFrames(st, ct) /\ Scanned(st, ct[0])
    BY <2>1 DEF ReportInv
  <2>4. PICK e : e = ct[0]
    OBVIOUS
  <2>5. e \in 0 .. Len(frames)
    <3>1. cached \in Seq(Seq(Octets))
      BY DEF DemoInv
    <3>2. 0 \in 0 .. Len(cached)
      BY <3>1, LenProperties
    <3>3. QED
      BY <2>3, <2>4, <3>2 DEF CachedFrames
  <2>6. /\ Scanned(st, e)'
        /\ polling' = polling /\ line' = line /\ frames' = frames /\ cached' = cached
    BY <1>4, <2>3, <2>4, <2>5, ScannedStep
  <2>7. Offsets(frames, st)' /\ Followed' /\ CachedFrames(st, ct)'
    BY <2>2, <2>3, <2>6 DEF Followed, CachedFrames
  <2>8. QED
    BY <2>2, <2>4, <2>6, <2>7
<1>5. CASE LinkChanges \/ BootActs \/ ReadNothing \/ UNCHANGED demo
  <2>1. /\ lost' = lost /\ polling' = polling /\ line' = line /\ frames' = frames
        /\ cached' = cached /\ mode' = mode /\ qbuf' = qbuf /\ k' = k /\ done' = done
        /\ (dcnt' = dcnt /\ j' = j) \/ mode = "read"
    BY <1>5 DEF LinkChanges, BootActs, BootWlan, BootConnect, BootPublish, BootSerial,
                BootTellMcu, ReadNothing, In, demo, mcu, rx, scanner
  <2>2. ~ polling /\ Len(line) <= MaxBurst /\ Followed
    BY <2>1 DEF ReportInv
  <2>3. PICK st, ct : Offsets(frames, st) /\ CachedFrames(st, ct) /\ Scanned(st, ct[0])
    BY <2>1 DEF ReportInv
  <2>4. Scanned(st, ct[0])'
    <3>1. CASE mode = "read"
      BY <2>1, <2>3, <3>1 DEF Scanned
    <3>2. CASE dcnt' = dcnt /\ j' = j
      BY <2>1, <2>3, <3>2, ZenonT(40) DEF Scanned, Scanning, BetweenFrames, InReport
    <3>3. QED
      BY <2>1, <3>1, <3>2
  <2>5. Offsets(frames, st)' /\ Followed' /\ CachedFrames(st, ct)'
    BY <2>1, <2>2, <2>3 DEF Followed, CachedFrames
  <2>6. QED
    BY <2>1, <2>2, <2>4, <2>5
<1>6. QED
  BY <1>1, <1>2, <1>3, <1>4, <1>5 DEF DemoNext, Main, BootActs

LEMMA ReportStart == DemoInit => ReportInv
<1> SUFFICES ASSUME DemoInit PROVE ReportInv
  OBVIOUS
<1>1. /\ frames = <<>> /\ line = <<>> /\ cached = <<>> /\ ~ polling /\ mode = "read" /\ done = <<>>
      /\ frames \in Seq(Frames) /\ Len(frames) = 0 /\ Len(line) = 0 /\ Len(cached) = 0
      /\ MaxBurst \in Nat
  BY AtDemoAssumption DEF DemoInit
<1>2. Asks(frames, 0) = <<>>
  <2> DEFINE e == [i \in 1 .. 0 |-> Asked(frames[i])]
  <2>1. e = <<>> /\ Len(<<>>) = 0
    OBVIOUS
  <2>2. QED
    BY <2>1 DEF Asks, FlattenSeq
<1>3. Followed
  <2>1. <<>> \in Seq(Msgs)
    OBVIOUS
  <2>2. Begins(<<>>, <<>>)
    BY <2>1, BeginsFacts
  <2>3. QED
    BY <1>1, <1>2, <2>2 DEF Followed
<1>4. PICK st, ct : st = [x \in 0 .. 0 |-> 0] /\ ct = [x \in 0 .. 0 |-> 0]
  OBVIOUS
<1>5. st[0] = 0 /\ ct[0] = 0 /\ st \in [0 .. 0 -> Nat] /\ ct \in [0 .. 0 -> 0 .. 0]
  BY <1>4
<1>6. Offsets(frames, st) /\ CachedFrames(st, ct)
  BY <1>1, <1>5 DEF Offsets, CachedFrames, IsFrames
<1>7. Scanned(st, ct[0])
  BY <1>1, <1>2, <1>5 DEF Scanned
<1>8. QED
  BY <1>1, <1>3, <1>6, <1>7 DEF ReportInv

\* What main did is the beginning of what it is to do.
LEMMA ReportHolds ==
  ASSUME DemoInv, ReportInv, \A f \in Frames : Regular(f)
  PROVE  DoneWasAsked
<1> SUFFICES ASSUME ~ lost PROVE IsPrefix(done, Due)
  BY DEF DoneWasAsked
<1>1. PICK st, ct : Offsets(frames, st) /\ CachedFrames(st, ct) /\ Scanned(st, ct[0])
  BY DEF ReportInv
<1>2. /\ frames \in Seq(Frames) /\ Len(frames) \in Nat /\ done \in Seq(Msgs)
      /\ mode \in {"read", "scan", "units"} /\ Len(cached) \in Nat
  <2>1. cached \in Seq(Seq(Octets))
    BY DEF DemoInv
  <2>2. QED
    BY <2>1, LenProperties DEF DemoInv, DemoTypeOK
<1>3. PICK e : e = ct[0]
  OBVIOUS
<1>4. e \in 0 .. Len(frames)
  BY <1>1, <1>2, <1>3 DEF CachedFrames
<1>5. Due = Asks(frames, Len(frames)) /\ Due \in Seq(Msgs)
  <2>1. Due = Asks(frames, Len(frames))
    BY DEF Due, Asks
  <2>2. Len(frames) \in 0 .. Len(frames)
    BY <1>2
  <2>3. QED
    BY <1>2, <2>1, <2>2, AsksType
<1>6. \A c \in 0 .. Len(frames) : Begins(Asks(frames, c), Due)
  BY <1>5 DEF ReportInv, Followed
<1>7. Begins(done, Due)
  <2>1. CASE mode = "read"
    BY <1>1, <1>3, <1>4, <1>6, <2>1 DEF Scanned
  <2>2. CASE mode # "read"
    <3>1. PICK b \in 0 .. e : \E c \in 0 .. e : Scanning(st, e, b, c)
      BY <1>1, <1>3, <2>2 DEF Scanned
    <3>2. PICK c \in 0 .. e : Scanning(st, e, b, c)
      BY <3>1
    <3>3. CASE mode = "scan"
      <4>1. done = Asks(frames, c) /\ c \in 0 .. Len(frames)
        BY <1>2, <1>4, <3>2, <3>3 DEF Scanning, BetweenFrames
      <4>2. QED
        BY <1>6, <4>1
    <3>4. CASE mode = "units"
      <4> DEFINE d == DataOf(frames[c + 1])
                 p == j - (st[c] - st[b] + 6) + 1
      <4>1. c < e /\ frames[c + 1][4] = 5 /\ p \in 1 .. Len(d) + 1
            /\ done \o After(d, p) = Asks(frames, c + 1)
        BY <3>2, <3>4 DEF Scanning, InReport
      <4>2. c + 1 \in 0 .. Len(frames) /\ c + 1 \in 1 .. Len(frames)
        BY <1>2, <1>4, <4>1
      <4>3. frames[c + 1] \in Seq(Octets) /\ Regular(frames[c + 1])
        BY <1>2, <4>2, FrameFacts
      <4>4. d \in Seq(Octets)
        BY <4>1, <4>3, DataFacts
      <4> HIDE DEF d, p
      <4>5. After(d, p) \in Seq(Msgs)
        BY <4>1, <4>4, UnitsFrom
      <4>6. Begins(done \o After(d, p), Due)
        BY <1>6, <4>1, <4>2
      <4>7. \A r \in Seq(Msgs) : Begins(done \o r, Due) => Begins(done, Due)
        BY <1>2, <1>5, BeginsFacts
      <4>8. QED
        BY <4>5, <4>6, <4>7
    <3>5. QED
      BY <1>2, <2>2, <3>3, <3>4
  <2>3. QED
    BY <2>1, <2>2
<1>8. QED
  BY <1>2, <1>5, <1>7, BeginsFacts

\* As long as no record is lost, what main did is what the frames ask for, from
\* the first on, nothing left out, done twice or put in: whatever frames, as long
\* as main takes them apart as the protocol has it and a burst is shorter than a
\* record, however they are spread over the bursts and however late main reads.
THEOREM DoneCorrect ==
  ASSUME MaxBurst < RecSize, \A f \in Frames : Regular(f)
  PROVE  DemoSpec => []DoneWasAsked
<1>1. DemoInit => DemoInv /\ ReportInv
  BY DemoStart, ReportStart
<1>2. DemoInv /\ ReportInv /\ [DemoNext]_demo => (DemoInv /\ ReportInv)'
  BY DemoTypeStep, ReportStep
<1>3. DemoInv /\ ReportInv => DoneWasAsked
  BY ReportHolds
<1>4. QED
  BY <1>1, <1>2, <1>3, PTL DEF DemoSpec

-----------------------------------------------------------------------------
(* AtConfig: the areas, and which of them is loaded and written.           *)

USE AtConfigAssumption DEF AtConfigAssumption

\* What a cut write leaves is a record or none.
LEMMA LeftType ==
  ASSUME TypeOK
  PROVE  Left \subseteq {Missing} \cup Records
BY DEF TypeOK, Left, Blank, Garbage, Records, Counts, Contents

\* The area saved to is not the one loaded from.
LEMMA ChoiceFacts ==
  /\ SaveTo \in 0 .. 1 /\ LoadFrom \in 0 .. 1
  /\ Found(0) \/ Found(1) => SaveTo = 1 - LoadFrom /\ Found(LoadFrom)
  /\ ~Found(0) /\ ~Found(1) => SaveTo = 0 /\ NextCnt = 1
BY DEF SaveTo, LoadFrom, NextCnt

\* The types of a save.
LEMMA SaveType ==
  ASSUME TypeOK, NEW c \in Contents, Save(c)
  PROVE  /\ UNCHANGED area /\ idx' \in 0 .. 1 /\ new' \in Records
         /\ may' \subseteq Contents /\ pc' = "write"
<1>1. NextCnt \in Counts
  BY ChoiceFacts DEF TypeOK, NextCnt, Counts, Records, Missing, Found
<1>2. QED
  BY <1>1, ChoiceFacts DEF Save, Records, TypeOK

\* Areas, settings and counters keep their types, whatever a power failure
\* leaves in an area.
THEOREM TypeCorrect == Spec => []TypeOK
<1>1. Init => TypeOK
  BY DEF Init, TypeOK, Records, Counts, Contents, Settings
<1>2. TypeOK /\ [Next]_vars => TypeOK'
  <2> SUFFICES ASSUME TypeOK, [Next]_vars PROVE TypeOK'
    OBVIOUS
  <2> USE DEF TypeOK
  <2>1. CASE Load
    BY <2>1, ChoiceFacts DEF Load, Found, Records
  <2>2. CASE Factory
    BY <2>2, SaveType DEF Factory, Contents, Settings
  <2>3. CASE AtFactory
    BY <2>3, SaveType DEF AtFactory, Contents, Settings
  <2>4. CASE AtSetCfg
    BY <2>4 DEF AtSetCfg, Contents, Settings
  <2>5. CASE AtSave
    BY <2>5, SaveType DEF AtSave
  <2>6. CASE Written
    BY <2>6 DEF Written, Records
  <2>7. CASE PowerFails
    BY <2>7, LeftType DEF PowerFails
  <2>8. CASE WriteFails
    BY <2>8, LeftType DEF WriteFails, Records
  <2>9. CASE UNCHANGED vars
    BY <2>9 DEF vars
  <2>10. QED
    BY <2>1, <2>2, <2>3, <2>4, <2>5, <2>6, <2>7, <2>8, <2>9 DEF Next
<1>3. QED
  BY <1>1, <1>2, PTL DEF Spec

\* A save never writes the area a start would load.
THEOREM SparesLoadedCorrect == Spec => SaveSparesLoaded
<1>1. [Next]_vars => [SparesLoaded]_vars
  <2> SUFFICES ASSUME Next, pc # "write", pc' = "write", Found(0) \/ Found(1)
               PROVE  idx' # LoadFrom
    BY DEF SparesLoaded
  <2>1. idx' = SaveTo
    BY DEF Next, Load, Factory, AtFactory, AtSetCfg, AtSave, Written, PowerFails,
           WriteFails, Save
  <2>2. QED
    BY <2>1, ChoiceFacts
<1>2. QED
  BY <1>1, PTL DEF Spec, SaveSparesLoaded

-----------------------------------------------------------------------------
\* No record has the counter of erased bytes.
CntInv == \A i \in 0 .. 1 : area[i].cnt # W - 1

\* While a record is written, the other area is the one a start would load,
\* and the record has the greater counter.
WriteInv ==
  pc = "write" =>
    /\ new.cfg \in may /\ new.cnt # W - 1
    /\ Found(idx) => Found(1 - idx) /\ LoadFrom = 1 - idx
    /\ Found(1 - idx) => new.cnt > area[1 - idx].cnt /\ area[1 - idx].cfg \in may
    /\ ~Found(1 - idx) => Default \in may

IInv == TypeOK /\ CntInv /\ WriteInv /\ LoadIsSaved

\* A record is not Missing.
LEMMA RecordFound ==
  ASSUME NEW r \in Records
  PROVE  r # Missing
BY DEF Records, Contents, Settings, Missing

\* A save keeps the invariant: it begins in the area that is not loaded.
LEMMA SaveInv ==
  ASSUME IInv, NEW c \in Contents, Save(c), pc # "write"
  PROVE  CntInv' /\ WriteInv'
<1>1. /\ UNCHANGED area /\ idx' = SaveTo /\ new' = [cnt |-> NextCnt, cfg |-> c]
      /\ may' = may \cup {c} /\ NextCnt # W - 1
  BY DEF Save
<1>2. CASE Found(0) \/ Found(1)
  <2>1. idx' = 1 - LoadFrom /\ LoadFrom = 1 - idx' /\ idx' \in 0 .. 1
    BY <1>1, <1>2, ChoiceFacts
  <2>2. NextCnt = (area[LoadFrom].cnt + 1) % W
    BY <1>1, <1>2, <2>1 DEF NextCnt
  <2>3. area[LoadFrom].cnt \in Counts /\ area[LoadFrom].cnt # W - 1
    BY <2>1 DEF IInv, CntInv, TypeOK, Records, Missing, Counts
  <2>4. NextCnt > area[LoadFrom].cnt
    BY <2>2, <2>3 DEF Counts
  <2>5. area[LoadFrom].cfg \in may
    BY <1>2 DEF IInv, LoadIsSaved, Loaded
  <2>6. Found(LoadFrom) /\ LoadFrom' = LoadFrom
    BY <1>1, <1>2, ChoiceFacts DEF LoadFrom, Found
  <2>7. QED
    BY <1>1, <2>1, <2>4, <2>5, <2>6 DEF IInv, CntInv, WriteInv, Found
<1>3. CASE ~Found(0) /\ ~Found(1)
  <2>1. idx' = 0 /\ Default \in may
    BY <1>1, <1>3, ChoiceFacts DEF IInv, LoadIsSaved, Loaded
  <2>2. QED
    BY <1>1, <1>3, <2>1 DEF IInv, CntInv, WriteInv, Found
<1>4. QED
  BY <1>2, <1>3

\* What a start loads when the write of a record ends, one way or another.
LEMMA LeftLoads ==
  ASSUME IInv, pc = "write", NEW r \in {area[idx], new, Missing},
         area' = [area EXCEPT ![idx] = r], idx' = idx
  PROVE  /\ CntInv'
         /\ Loaded' \in may
         /\ r = new => Loaded' = new.cfg
<1> USE DEF IInv, TypeOK
<1>1. idx \in 0 .. 1 /\ 1 - idx \in 0 .. 1 /\ 1 - idx # idx /\ new # Missing
  BY RecordFound
<1>2. area'[idx] = r /\ area'[1 - idx] = area[1 - idx]
  BY <1>1
<1>3. CntInv'
  BY <1>1, <1>2 DEF CntInv, WriteInv, Missing
<1>4. CASE r = new
  <2>1. Found(idx)' /\ (Found(1 - idx)' => area'[idx].cnt > area'[1 - idx].cnt)
    BY <1>1, <1>2, <1>4 DEF WriteInv, Found
  <2>2. area'[0].cnt \in Counts /\ area'[1].cnt \in Counts
    BY <1>1, <1>2, <1>4 DEF Records, Missing, Counts
  <2>3. LoadFrom' = idx
    <3>1. CASE idx = 0
      BY <2>1, <3>1 DEF LoadFrom, Found
    <3>2. CASE idx = 1
      BY <2>1, <2>2, <3>2 DEF LoadFrom, Found, Counts
    <3>3. QED
      BY <1>1, <3>1, <3>2
  <2>4. Loaded' = new.cfg
    BY <1>1, <1>2, <1>4, <2>1, <2>3 DEF Loaded, Found
  <2>5. QED
    BY <1>3, <1>4, <2>4 DEF WriteInv
<1>5. CASE r = area[idx]
  <2>1. area' = area
    BY <1>1, <1>5
  <2>2. CASE Found(1 - idx)
    <3>1. LoadFrom' = 1 - idx /\ Found(1 - idx)'
      <4>1. CASE Found(idx)
        BY <2>1, <2>2, <4>1 DEF WriteInv, LoadFrom, Found
      <4>2. CASE ~Found(idx) /\ idx = 0
        BY <2>1, <2>2, <4>2 DEF LoadFrom, Found
      <4>3. CASE ~Found(idx) /\ idx = 1
        BY <2>1, <2>2, <4>3 DEF LoadFrom, Found
      <4>4. QED
        BY <1>1, <4>1, <4>2, <4>3
    <3>2. QED
      BY <1>1, <1>2, <1>3, <1>4, <2>2, <3>1 DEF WriteInv, Loaded, Found
  <2>3. CASE ~Found(1 - idx)
    BY <1>1, <1>3, <1>4, <2>1, <2>3 DEF WriteInv, Loaded, Found
  <2>4. QED
    BY <2>2, <2>3
<1>6. CASE r = Missing
  <2>1. CASE Found(1 - idx)
    <3>1. LoadFrom' = 1 - idx /\ Found(1 - idx)'
      <4>1. CASE idx = 0
        BY <1>2, <1>6, <2>1, <4>1 DEF LoadFrom, Found
      <4>2. CASE idx = 1
        BY <1>2, <1>6, <2>1, <4>2 DEF LoadFrom, Found
      <4>3. QED
        BY <1>1, <4>1, <4>2
    <3>2. QED
      BY <1>1, <1>2, <1>3, <1>6, <2>1, <3>1 DEF WriteInv, Loaded, Found
  <2>2. CASE ~Found(1 - idx)
    BY <1>1, <1>2, <1>3, <1>6, <2>2 DEF WriteInv, Loaded, Found
  <2>3. QED
    BY <2>1, <2>2
<1>7. QED
  BY <1>4, <1>5, <1>6

\* Where a write cut short leaves no record, a start loads the settings saved
\* last or those of a save cut short.
THEOREM LoadCorrect ==
  ASSUME CutLeaves \subseteq {"missing"}
  PROVE  Spec => []LoadIsSaved
<1>1. Init => IInv
  BY DEF Init, IInv, TypeOK, CntInv, WriteInv, LoadIsSaved, Loaded, Found, Missing,
         Records, Counts, Contents, Settings
<1>2. IInv /\ TypeOK' /\ [Next]_vars => IInv'
  <2> SUFFICES ASSUME IInv, TypeOK', [Next]_vars
               PROVE  CntInv' /\ WriteInv' /\ LoadIsSaved'
    BY DEF IInv
  <2>1. CASE Load
    BY <2>1 DEF Load, IInv, CntInv, WriteInv, LoadIsSaved, Loaded, LoadFrom, Found
  <2>2. CASE Factory
    BY <2>2, SaveInv DEF Factory, Save, LoadIsSaved, Contents, Settings
  <2>3. CASE AtFactory
    BY <2>3, SaveInv DEF AtFactory, Save, LoadIsSaved, Contents, Settings
  <2>4. CASE AtSetCfg
    BY <2>4 DEF AtSetCfg, IInv, CntInv, WriteInv, LoadIsSaved, Loaded, LoadFrom, Found
  <2>5. CASE AtSave
    BY <2>5, SaveInv DEF AtSave, Save, LoadIsSaved, IInv, TypeOK
  <2>6. CASE Written
    BY <2>6, LeftLoads DEF Written, WriteInv, LoadIsSaved
  <2>7. CASE PowerFails
    <3>1. CASE pc = "write"
      <4>1. PICK r \in Left : area' = [area EXCEPT ![idx] = r]
        BY <2>7, <3>1 DEF PowerFails
      <4>2. r \in {area[idx], new, Missing}
        BY <4>1 DEF Left
      <4>3. QED
        BY <2>7, <3>1, <4>1, <4>2, LeftLoads DEF PowerFails, WriteInv, LoadIsSaved
    <3>2. CASE pc # "write"
      BY <2>7, <3>2 DEF PowerFails, IInv, CntInv, WriteInv, LoadIsSaved, Loaded, LoadFrom,
                        Found
    <3>3. QED
      BY <3>1, <3>2
  <2>8. CASE WriteFails
    <3>1. PICK r \in Left : area' = [area EXCEPT ![idx] = r]
      BY <2>8 DEF WriteFails
    <3>2. r \in {area[idx], new, Missing}
      BY <3>1 DEF Left
    <3>3. QED
      BY <2>8, <3>1, <3>2, LeftLoads DEF WriteFails, WriteInv, LoadIsSaved
  <2>9. CASE UNCHANGED vars
    BY <2>9 DEF vars, IInv, CntInv, WriteInv, LoadIsSaved, Loaded, LoadFrom, Found
  <2>10. QED
    BY <2>1, <2>2, <2>3, <2>4, <2>5, <2>6, <2>7, <2>8, <2>9 DEF Next
<1>3. IInv => LoadIsSaved
  BY DEF IInv
<1>4. QED
  BY <1>1, <1>2, <1>3, TypeCorrect, PTL DEF Spec

-----------------------------------------------------------------------------
(* The areas are used as registers.                                        *)

\* What is written is a record, and what an area is left with when a write is
\* cut short is what it held, the record, or none.
LEMMA DoingFacts ==
  ASSUME TypeOK, NEW i \in 0 .. 1
  PROVE  /\ Idle \notin Records
         /\ Doing(i) # Idle <=> pc = "write" /\ idx = i
         /\ Doing(i) # Idle => Doing(i) = new /\ new \in Records
         /\ Left \subseteq {area[idx], new} \cup Lost
<1>1. Idle \notin Records
  BY DEF Idle, Records, Contents, Settings
<1>2. QED
  BY <1>1 DEF TypeOK, Doing, Left, Lost

\* A step of the settings is one of the register of each area, or none.
LEMMA AreaStep ==
  ASSUME TypeOK, [Next]_vars, NEW i \in 0 .. 1
  PROVE  \/ UNCHANGED <<area[i], Doing(i)>>
         \/ Doing(i) = Idle /\ Doing(i)' \in Records /\ UNCHANGED area[i]
         \/ Doing(i) # Idle /\ area[i]' \in Lost /\ Doing(i)' = Idle
         \/ Doing(i) \in Records /\ area[i]' = Doing(i) /\ Doing(i)' = Idle
         \/ Doing(i) # Idle /\ Doing(i)' = Idle /\ UNCHANGED area[i]
<1> USE DEF TypeOK
<1>1. ASSUME NEW c \in Contents, Save(c), pc # "write"
      PROVE  Doing(i) = Idle /\ Doing(i)' \in Records \cup {Idle} /\ UNCHANGED area[i]
  BY <1>1, SaveType DEF Doing
<1>2. ASSUME pc = "write", pc' # "write",
             NEW r \in {area[idx], new} \cup Lost, area' = [area EXCEPT ![idx] = r]
      PROVE  /\ Doing(i)' = Idle
             /\ idx # i => Doing(i) = Idle /\ UNCHANGED area[i]
             /\ idx = i => area[i]' = r /\ Doing(i) = new /\ Doing(i) # Idle
  BY <1>2, DoingFacts DEF Doing
<1>3. CASE Load \/ AtSetCfg
  BY <1>3 DEF Load, AtSetCfg, Doing
<1>4. CASE Factory \/ AtFactory \/ AtSave
  <2>1. PICK c \in Contents : Save(c) /\ pc # "write"
    BY <1>4 DEF Factory, AtFactory, AtSave, Contents, Settings
  <2>2. QED
    BY <1>1, <2>1
<1>5. CASE Written
  BY <1>2, <1>5, DoingFacts DEF Written
<1>6. CASE PowerFails
  <2>1. CASE pc = "write"
    <3>1. PICK r \in Left : area' = [area EXCEPT ![idx] = r]
      BY <1>6, <2>1 DEF PowerFails
    <3>2. QED
      BY <1>2, <1>6, <2>1, <3>1, DoingFacts DEF PowerFails
  <2>2. CASE pc # "write"
    BY <1>6, <2>2 DEF PowerFails, Doing
  <2>3. QED
    BY <2>1, <2>2
<1>7. CASE WriteFails
  <2>1. PICK r \in Left : area' = [area EXCEPT ![idx] = r]
    BY <1>7 DEF WriteFails
  <2>2. QED
    BY <1>2, <1>7, <2>1, DoingFacts DEF WriteFails
<1>8. CASE UNCHANGED vars
  BY <1>8 DEF vars, Doing
<1>9. QED
  BY <1>3, <1>4, <1>5, <1>6, <1>7, <1>8 DEF Next

\* Each area changes only in a write to it, to the record written or to none,
\* whatever a write cut short leaves.
THEOREM AreasCorrect == Spec => AreasAreRegisters
<1>1. Init => Area0!Init /\ Area1!Init
  BY DEF Init, Area0!Init, Area1!Init, Doing, Lost
<1>2. TypeOK /\ [Next]_vars => [Area0!Next]_(Area0!vars)
  <2> SUFFICES ASSUME TypeOK, [Next]_vars PROVE [Area0!Next]_(Area0!vars)
    OBVIOUS
  <2>1. 0 \in 0 .. 1
    OBVIOUS
  <2>2. QED
    BY <2>1, AreaStep DEF Area0!Next, Area0!vars, Area0!Begin, Area0!Lose, Area0!Store,
                          Area0!GiveUp
<1>3. TypeOK /\ [Next]_vars => [Area1!Next]_(Area1!vars)
  <2> SUFFICES ASSUME TypeOK, [Next]_vars PROVE [Area1!Next]_(Area1!vars)
    OBVIOUS
  <2>1. 1 \in 0 .. 1
    OBVIOUS
  <2>2. QED
    BY <2>1, AreaStep DEF Area1!Next, Area1!vars, Area1!Begin, Area1!Lose, Area1!Store,
                          Area1!GiveUp
<1>4. QED
  BY <1>1, <1>2, <1>3, TypeCorrect, PTL DEF Spec, Area0!Spec, Area1!Spec, AreasAreRegisters
=============================================================================
