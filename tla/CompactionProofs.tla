-------------------------- MODULE CompactionProofs --------------------------
(***************************************************************************)
(* Proofs about Compaction, for any number of protected rows, any summary  *)
(* outcomes, any length of the conversation and any number of upsets: the  *)
(* transcript that compress() rewrites keeps every tool result after the   *)
(* call it answers, and loses nothing that was said.                       *)
(***************************************************************************)
EXTENDS Compaction, FiniteSetTheorems, WellFoundedInduction, SequenceTheorems, TLAPS

-----------------------------------------------------------------------------
(* Sets of positions, and a sequence of sequences flattened piece by piece. *)

\* Induction over the naturals with the set of those it holds of.
LEMMA InductiveSet ==
    ASSUME NEW T, 0 \in T, \A n \in Nat : n \in T => n + 1 \in T
    PROVE  Nat \subseteq T
<1> DEFINE R == OpToRel(<, Nat)
<1>1. SUFFICES ASSUME NEW k \in Nat, k \notin T PROVE FALSE
  OBVIOUS
<1>2. IsWellFoundedOn(R, Nat)
  BY NatLessThanWellFounded
<1>3. \A x, y \in Nat : x < y => <<x, y>> \in R
  BY DEF OpToRel
<1> DEFINE bad == Nat \ T
<1>4. bad \subseteq Nat /\ bad # {}
  BY <1>1
<1> HIDE DEF R, bad
<1>5. PICK x \in bad : \A y \in bad : <<y, x>> \notin R
  BY <1>2, <1>4, WFMin
<1>6. x \in Nat /\ x \notin T
  BY <1>5 DEF bad
<1>7. x # 0 /\ x - 1 \in Nat /\ x - 1 < x
  BY <1>6
<1>8. x - 1 \in T
  BY <1>3, <1>5, <1>6, <1>7 DEF bad
<1> QED
  BY <1>6, <1>7, <1>8

\* A nonempty set of integers with a bound has its Max in it.
LEMMA MaxOf ==
    ASSUME NEW S \in SUBSET Int, S # {}, NEW n \in Int, \A x \in S : x <= n
    PROVE  Max(S) \in S /\ \A y \in S : Max(S) >= y
<1> DEFINE R == OpToRel(<, Nat)
           T == {k \in Nat : n - k \in S}
<1>2. IsWellFoundedOn(R, Nat)
  BY NatLessThanWellFounded
<1>3. \A x, y \in Nat : x < y => <<x, y>> \in R
  BY DEF OpToRel
<1>4. T \subseteq Nat /\ T # {}
  <2>1. PICK x \in S : TRUE
    OBVIOUS
  <2>2. n - x \in Nat /\ n - (n - x) = x
    BY <2>1
  <2> QED
    BY <2>1, <2>2
<1> HIDE DEF R, T
<1>5. PICK k \in T : \A y \in T : <<y, k>> \notin R
  BY <1>2, <1>4, WFMin
<1>6. k \in Nat /\ n - k \in S
  BY <1>5 DEF T
<1>7. ASSUME NEW y \in S PROVE n - k >= y
  <2>1. n - y \in Nat /\ n - (n - y) = y
    OBVIOUS
  <2>2. n - y \in T
    BY <2>1 DEF T
  <2>3. ~(n - y < k)
    BY <1>3, <1>5, <1>6, <2>1, <2>2
  <2> QED
    BY <1>6, <2>1, <2>3
<1>8. \E x \in S : \A y \in S : x >= y
  BY <1>6, <1>7
<1> QED
  BY <1>8 DEF Max

\* A nonempty set of integers with a lower bound has its Min in it.
LEMMA MinOf ==
    ASSUME NEW S \in SUBSET Int, S # {}, NEW n \in Int, \A x \in S : n <= x
    PROVE  Min(S) \in S /\ \A y \in S : Min(S) <= y
<1> DEFINE R == OpToRel(<, Nat)
           T == {k \in Nat : n + k \in S}
<1>2. IsWellFoundedOn(R, Nat)
  BY NatLessThanWellFounded
<1>3. \A x, y \in Nat : x < y => <<x, y>> \in R
  BY DEF OpToRel
<1>4. T \subseteq Nat /\ T # {}
  <2>1. PICK x \in S : TRUE
    OBVIOUS
  <2>2. x - n \in Nat /\ n + (x - n) = x
    BY <2>1
  <2> QED
    BY <2>1, <2>2
<1> HIDE DEF R, T
<1>5. PICK k \in T : \A y \in T : <<y, k>> \notin R
  BY <1>2, <1>4, WFMin
<1>6. k \in Nat /\ n + k \in S
  BY <1>5 DEF T
<1>7. ASSUME NEW y \in S PROVE n + k <= y
  <2>1. y - n \in Nat /\ n + (y - n) = y
    OBVIOUS
  <2>2. y - n \in T
    BY <2>1 DEF T
  <2>3. ~(y - n < k)
    BY <1>3, <1>5, <1>6, <2>1, <2>2
  <2> QED
    BY <1>6, <2>1, <2>3
<1>8. \E x \in S : \A y \in S : x <= y
  BY <1>6, <1>7
<1> QED
  BY <1>8 DEF Min

\* LastOf finds the last of a set of positions, if there is one.
LEMMA LastOfPositions ==
    ASSUME NEW n \in Int, n >= 0, NEW S \in SUBSET Int, \A x \in S : x >= 0 /\ x < n
    PROVE  /\ LastOf(S) \in Int /\ LastOf(S) >= -1 /\ LastOf(S) < n
           /\ LastOf(S) >= 0 <=> S # {}
           /\ S # {} => LastOf(S) \in S
           /\ \A x \in S : x <= LastOf(S)
<1>1. CASE S = {}
  <2>1. LastOf(S) = -1
    BY <1>1 DEF LastOf
  <2> QED
    BY <1>1, <2>1
<1>2. CASE S # {}
  <2>1. \A x \in S : x <= n
    OBVIOUS
  <2>2. Max(S) \in S /\ \A y \in S : Max(S) >= y
    BY <1>2, <2>1, MaxOf
  <2>3. LastOf(S) = Max(S)
    BY <1>2 DEF LastOf
  <2>4. LastOf(S) \in S /\ \A y \in S : y <= LastOf(S)
    BY <2>2, <2>3
  <2>5. LastOf(S) \in Int
    BY <2>4
  <2>6. LastOf(S) >= 0 /\ LastOf(S) < n
    BY <2>4
  <2> QED
    BY <1>2, <2>4, <2>5, <2>6
<1> QED
  BY <1>1, <1>2

\* g flattens ss piece by piece.
Stages(ss, g) ==
    /\ g[1] = ss[1]
    /\ \A i \in 1 .. Len(ss) : i # 1 => g[i] = g[i - 1] \o ss[i]
    /\ FlattenSeq(ss) = g[Len(ss)]

\* Where flattening a sequence of sequences gets to, piece by piece.
LEMMA FlattenUnfold ==
    ASSUME NEW S, NEW ss \in Seq(Seq(S)), Len(ss) # 0
    PROVE  \E g : Stages(ss, g)
<1> DEFINE Partial(n, h) == /\ h \in [1 .. n -> Seq(S)]
                            /\ \A i \in 1 .. n : h[i] = IF i = 1 THEN ss[i] ELSE h[i - 1] \o ss[i]
           T == {n \in Nat : n <= Len(ss) => \E h \in [1 .. n -> Seq(S)] : Partial(n, h)}
<1>0. Len(ss) \in Nat /\ \A i \in 1 .. Len(ss) : ss[i] \in Seq(S)
  OBVIOUS
<1>1. 0 \in T
  <2>1. Partial(0, [i \in 1 .. 0 |-> <<>>]) /\ [i \in 1 .. 0 |-> <<>>] \in [1 .. 0 -> Seq(S)]
    OBVIOUS
  <2> QED
    BY <2>1
<1>2. ASSUME NEW n \in Nat, n \in T PROVE n + 1 \in T
  <2> HIDE DEF Partial
  <2>1. SUFFICES ASSUME n + 1 <= Len(ss) PROVE \E h \in [1 .. n + 1 -> Seq(S)] : Partial(n + 1, h)
    OBVIOUS
  <2>2. PICK h \in [1 .. n -> Seq(S)] : Partial(n, h)
    BY <1>2, <2>1, <1>0
  <2> USE DEF Partial
  <2> DEFINE e == IF n = 0 THEN ss[1] ELSE h[n] \o ss[n + 1]
             k == [i \in 1 .. n + 1 |-> IF i = n + 1 THEN e ELSE h[i]]
  <2>3. e \in Seq(S)
    <3>1. CASE n = 0
      BY <1>0, <2>1, <3>1
    <3>2. CASE n # 0
      <4>1. h[n] \in Seq(S) /\ ss[n + 1] \in Seq(S)
        BY <1>0, <2>1, <2>2, <3>2
      <4> QED
        BY <3>2, <4>1
    <3> QED
      BY <3>1, <3>2
  <2>4. k \in [1 .. n + 1 -> Seq(S)]
    BY <2>2, <2>3
  <2>5. ASSUME NEW i \in 1 .. n + 1 PROVE k[i] = IF i = 1 THEN ss[i] ELSE k[i - 1] \o ss[i]
    <3>1. CASE i = n + 1
      BY <3>1
    <3>2. CASE i # n + 1
      <4>1. i \in 1 .. n /\ k[i] = h[i] /\ (i # 1 => i - 1 \in 1 .. n /\ k[i - 1] = h[i - 1])
        BY <3>2
      <4> HIDE DEF k
      <4> QED
        BY <2>2, <4>1
    <3> QED
      BY <3>1, <3>2
  <2> QED
    BY <2>4, <2>5
<1>3. Len(ss) \in T
  <2> HIDE DEF T
  <2> QED
    BY <1>0, <1>1, <1>2, InductiveSet
<1>4. PICK h \in [1 .. Len(ss) -> Seq(S)] : Partial(Len(ss), h)
  <2> HIDE DEF Partial
  <2>1. Len(ss) \in Nat /\ Len(ss) <= Len(ss)
    BY <1>0
  <2> QED
    BY ONLY <1>3, <2>1
<1>5. h = [i \in 1 .. Len(ss) |-> IF i = 1 THEN ss[i] ELSE h[i - 1] \o ss[i]]
  BY <1>4
<1> DEFINE Rec(g) == g = [i \in 1 .. Len(ss) |-> IF i = 1 THEN ss[i] ELSE g[i - 1] \o ss[i]]
           chosen == CHOOSE g : Rec(g)
<1>6. Rec(chosen)
  BY <1>5
<1>7. FlattenSeq(ss) = chosen[Len(ss)]
  BY DEF FlattenSeq
<1> HIDE DEF chosen
<1>8. chosen[1] = ss[1] /\ \A i \in 1 .. Len(ss) : i # 1 => chosen[i] = chosen[i - 1] \o ss[i]
  <2> DEFINE f == [i \in 1 .. Len(ss) |-> IF i = 1 THEN ss[i] ELSE chosen[i - 1] \o ss[i]]
  <2>1. chosen = f
    BY <1>6
  <2>2. 1 \in 1 .. Len(ss)
    BY <1>0
  <2>3. f[1] = ss[1]
    BY <2>2
  <2>4. \A i \in 1 .. Len(ss) : i # 1 => f[i] = chosen[i - 1] \o ss[i]
    BY Zenon
  <2> HIDE DEF f
  <2> QED
    BY <2>1, <2>3, <2>4
<1> QED
  BY <1>7, <1>8 DEF Stages

\* The sequence F is what is left of the first n pieces of ss, none longer than one; pos says
\* which piece each of its elements was.
Picks(ss, n, F, pos) ==
    /\ pos \in [1 .. Len(F) -> 1 .. n]
    /\ \A k, l \in 1 .. Len(F) : k < l => pos[k] < pos[l]
    /\ \A k \in 1 .. Len(F) : ss[pos[k]] # <<>> /\ F[k] = ss[pos[k]][1]
    /\ \A i \in 1 .. n : ss[i] # <<>> => \E k \in 1 .. Len(F) : pos[k] = i

\* Another empty piece changes nothing; another element goes to the end.
LEMMA PicksGrow ==
    ASSUME NEW S, NEW ss \in Seq(Seq(S)), NEW n \in Nat, n + 1 <= Len(ss),
           Len(ss[n + 1]) <= 1, NEW F \in Seq(S), NEW pos, Picks(ss, n, F, pos)
    PROVE  /\ F \o ss[n + 1] \in Seq(S)
           /\ \E p : Picks(ss, n + 1, F \o ss[n + 1], p)
<1>0. ss[n + 1] \in Seq(S) /\ n + 1 \in 1 .. Len(ss)
  OBVIOUS
<1>1. F \o ss[n + 1] \in Seq(S)
  BY <1>0
<1>2. CASE ss[n + 1] = <<>>
  <2>1. F \o ss[n + 1] = F
    BY <1>2, ConcatEmptySeq
  <2>2. Picks(ss, n + 1, F, pos)
    <3>1. pos \in [1 .. Len(F) -> 1 .. n + 1]
      BY DEF Picks
    <3>2. \A i \in 1 .. n + 1 : ss[i] # <<>> => i \in 1 .. n
      BY <1>2
    <3> QED
      BY <3>1, <3>2 DEF Picks
  <2> QED
    BY <1>1, <2>1, <2>2
<1>3. CASE ss[n + 1] # <<>>
  <2> DEFINE e == ss[n + 1]
             G == F \o e
             p == [k \in 1 .. Len(F) + 1 |-> IF k = Len(F) + 1 THEN n + 1 ELSE pos[k]]
  <2>0. e \in Seq(S) /\ e # <<>> /\ Len(e) <= 1 /\ Len(F) \in Nat
    BY <1>0, <1>3
  <2> HIDE DEF e
  <2>1. Len(e) = 1
    <3>1. Len(e) \in Nat /\ Len(e) # 0
      BY <2>0, EmptySeq
    <3> DEFINE l == Len(e)
    <3>2. l \in Nat /\ l # 0 /\ l <= 1
      BY <2>0, <3>1
    <3> HIDE DEF l
    <3>3. l = 1
      BY <3>2
    <3> QED
      BY <3>3 DEF l
  <2>2. Len(F) \in Nat /\ Len(G) = Len(F) + 1
    <3>1. Len(G) = Len(F) + Len(e)
      BY <2>0, ConcatProperties
    <3> QED
      BY <2>0, <2>1, <3>1
  <2>3. \A k \in 1 .. Len(F) : G[k] = F[k]
    BY <2>0, <2>1, <2>2, ConcatProperties
  <2>4. G[Len(F) + 1] = ss[n + 1][1]
    BY <2>0, <2>1, <2>2, ConcatProperties DEF e
  <2>5. \A k \in 1 .. Len(F) : pos[k] \in 1 .. n
    BY DEF Picks
  <2> HIDE DEF G
  <2>6. p \in [1 .. Len(G) -> 1 .. n + 1]
    <3>1. p \in [1 .. Len(F) + 1 -> 1 .. n + 1]
      <4>1. \A k \in 1 .. Len(F) + 1 : k # Len(F) + 1 => k \in 1 .. Len(F)
        BY <2>2
      <4>2. \A k \in 1 .. Len(F) + 1 : p[k] \in 1 .. n + 1
        BY <2>5, <4>1
      <4> QED
        BY <4>2
    <3> QED
      BY <2>2, <3>1
  <2>7. \A k \in 1 .. Len(F) : p[k] = pos[k]
    BY <2>2
  <2>8. p[Len(F) + 1] = n + 1
    BY <2>2
  <2> HIDE DEF p
  <2>9. \A k \in 1 .. Len(G) : k \in 1 .. Len(F) \/ k = Len(F) + 1
    BY <2>2
  <2>10. \A k, l \in 1 .. Len(G) : k < l => p[k] < p[l]
    <3> SUFFICES ASSUME NEW k \in 1 .. Len(G), NEW l \in 1 .. Len(G), k < l PROVE p[k] < p[l]
      OBVIOUS
    <3>1. k \in 1 .. Len(F)
      BY <2>2, <2>9
    <3>2. CASE l \in 1 .. Len(F)
      BY <2>7, <3>1, <3>2 DEF Picks
    <3>3. CASE l = Len(F) + 1
      <4>1. p[k] = pos[k] /\ pos[k] \in 1 .. n /\ p[l] = n + 1
        BY <2>5, <2>7, <2>8, <3>1, <3>3
      <4> QED
        BY <4>1
    <3> QED
      BY <2>9, <3>2, <3>3
  <2>11. \A k \in 1 .. Len(G) : ss[p[k]] # <<>> /\ G[k] = ss[p[k]][1]
    BY <1>3, <2>3, <2>4, <2>7, <2>8, <2>9 DEF Picks
  <2>12. \A i \in 1 .. n + 1 : ss[i] # <<>> => \E k \in 1 .. Len(G) : p[k] = i
    <3> SUFFICES ASSUME NEW i \in 1 .. n + 1, ss[i] # <<>> PROVE \E k \in 1 .. Len(G) : p[k] = i
      OBVIOUS
    <3>1. CASE i = n + 1
      BY <2>2, <2>8, <3>1
    <3>2. CASE i \in 1 .. n
      <4>1. PICK k \in 1 .. Len(F) : pos[k] = i
        BY <3>2 DEF Picks
      <4>2. k \in 1 .. Len(G) /\ p[k] = i
        BY <2>2, <2>7, <4>1
      <4> QED
        BY <4>2
    <3> QED
      BY <3>1, <3>2
  <2>13. Picks(ss, n + 1, G, p)
    BY <2>6, <2>10, <2>11, <2>12 DEF Picks
  <2> QED
    BY <1>1, <2>13 DEF G, e
<1> QED
  BY <1>2, <1>3

\* Flattening pieces of at most one element keeps the nonempty ones, in order.
LEMMA FlattenShort ==
    ASSUME NEW S, NEW ss \in Seq(Seq(S)), \A i \in 1 .. Len(ss) : Len(ss[i]) <= 1
    PROVE  /\ FlattenSeq(ss) \in Seq(S)
           /\ \E pos : Picks(ss, Len(ss), FlattenSeq(ss), pos)
<1>0. Len(ss) \in Nat
  OBVIOUS
<1>1. CASE Len(ss) = 0
  <2>1. FlattenSeq(ss) = <<>>
    BY <1>1 DEF FlattenSeq
  <2>2. Picks(ss, 0, <<>>, <<>>)
    BY DEF Picks
  <2> QED
    BY <1>1, <2>1, <2>2
<1>2. CASE Len(ss) # 0
  <2>0. Len(ss) # 0
    BY <1>2
  <2>1. PICK g : Stages(ss, g)
    BY <2>0, FlattenUnfold
  <2>2. g[1] = ss[1] /\ \A i \in 1 .. Len(ss) : i # 1 => g[i] = g[i - 1] \o ss[i]
    BY <2>1 DEF Stages
  <2> DEFINE Done(n) == g[n] \in Seq(S) /\ \E pos : Picks(ss, n, g[n], pos)
             T == {n \in Nat : n + 1 <= Len(ss) => Done(n + 1)}
  <2> HIDE DEF Done
  <2>3. 0 \in T
    <3>1. Picks(ss, 0, <<>>, <<>>) /\ <<>> \in Seq(S)
      BY DEF Picks
    <3>2. <<>> \o ss[1] = ss[1]
      BY <1>0, <1>2, ConcatEmptySeq
    <3>3. 0 + 1 <= Len(ss) /\ 0 + 1 \in 1 .. Len(ss) /\ 0 + 1 = 1
      BY <1>0, <1>2
    <3>4. <<>> \o ss[0 + 1] \in Seq(S) /\ \E p : Picks(ss, 0 + 1, <<>> \o ss[0 + 1], p)
      BY <3>1, <3>3, PicksGrow
    <3> QED
      BY <2>2, <3>2, <3>3, <3>4 DEF Done
  <2>4. ASSUME NEW n \in Nat, n \in T PROVE n + 1 \in T
    <3> HIDE DEF Done
    <3>1. SUFFICES ASSUME n + 1 + 1 <= Len(ss) PROVE Done(n + 1 + 1)
      OBVIOUS
    <3>2. Done(n + 1)
      BY <1>0, <2>4, <3>1
    <3> USE DEF Done
    <3>3. n + 1 + 1 \in 1 .. Len(ss) /\ n + 1 + 1 # 1 /\ n + 1 + 1 - 1 = n + 1 /\ n + 1 \in Nat
      BY <1>0, <3>1
    <3>4. g[n + 1 + 1] = g[n + 1] \o ss[n + 1 + 1]
      <4>1. \A i \in 1 .. Len(ss) : i # 1 => g[i] = g[i - 1] \o ss[i]
        BY <2>2
      <4> DEFINE i == n + 1 + 1
      <4>2. i \in 1 .. Len(ss) /\ i # 1 /\ i - 1 = n + 1
        BY <3>3
      <4> HIDE DEF i
      <4>3. g[i] = g[i - 1] \o ss[i]
        BY <4>1, <4>2
      <4> QED
        BY <4>2, <4>3 DEF i
    <3>5. PICK pos : Picks(ss, n + 1, g[n + 1], pos)
      BY <3>2
    <3>6. Len(ss[n + 1 + 1]) <= 1
      BY <3>3
    <3>7. g[n + 1] \in Seq(S)
      BY <3>2
    <3> HIDE DEF Done
    <3>8. /\ g[n + 1] \o ss[n + 1 + 1] \in Seq(S)
          /\ \E p : Picks(ss, n + 1 + 1, g[n + 1] \o ss[n + 1 + 1], p)
      BY <3>1, <3>3, <3>5, <3>6, <3>7, PicksGrow
    <3> QED
      BY <3>4, <3>8 DEF Done
  <2>5. Len(ss) - 1 \in T
    <3> HIDE DEF T
    <3>1. Len(ss) - 1 \in Nat
      BY <1>0, <1>2
    <3> QED
      BY <2>3, <2>4, <3>1, InductiveSet
  <2>6. Done(Len(ss))
    <3> HIDE DEF Done
    <3>1. Len(ss) - 1 + 1 = Len(ss) /\ Len(ss) <= Len(ss)
      BY <1>0
    <3> QED
      BY <2>5, <3>1
  <2> QED
    BY <2>1, <2>6 DEF Done, Stages
<1> QED
  BY <1>1, <1>2

-----------------------------------------------------------------------------
(* The window: where compress() cuts a transcript. *)

\* _align_boundary_forward goes forward over tool rows only, to another row or to the end.
LEMMA AlignForward ==
    ASSUME NEW m \in Seq(Row), NEW idx \in Int
    PROVE  /\ AlignBoundaryForward(m, idx) \in Int
           /\ idx <= AlignBoundaryForward(m, idx)
           /\ idx <= Len(m) => AlignBoundaryForward(m, idx) <= Len(m)
           /\ idx < Len(m) =>
                \A i \in idx .. AlignBoundaryForward(m, idx) - 1 : At(m, i).role = "tool"
           /\ AlignBoundaryForward(m, idx) < Len(m) =>
                At(m, AlignBoundaryForward(m, idx)).role # "tool"
<1> DEFINE S == {i \in idx .. Len(m) : i = Len(m) \/ At(m, i).role # "tool"}
<1>0. Len(m) \in Int
  OBVIOUS
<1>1. CASE idx >= Len(m)
  BY <1>0, <1>1 DEF AlignBoundaryForward
<1>2. CASE idx < Len(m)
  <2>1. AlignBoundaryForward(m, idx) = Min(S)
    BY <1>0, <1>2 DEF AlignBoundaryForward
  <2>2. S \in SUBSET Int /\ Len(m) \in S /\ \A x \in S : idx <= x
    BY <1>0, <1>2
  <2> HIDE DEF S
  <2>3. Min(S) \in S /\ \A y \in S : Min(S) <= y
    BY <2>2, MinOf
  <2> DEFINE a == Min(S)
  <2>4. a \in S /\ a \in idx .. Len(m) /\ (a = Len(m) \/ At(m, a).role # "tool")
    BY <2>3 DEF S
  <2>5. \A y \in S : a <= y
    BY <2>3
  <2> HIDE DEF a
  <2>6. ASSUME NEW i \in idx .. a - 1 PROVE At(m, i).role = "tool"
    <3>1. i \in Int /\ i < a /\ i \in idx .. Len(m)
      BY <1>0, <2>4
    <3>2. i \notin S
      <4>1. ~(a <= i)
        BY <2>4, <3>1
      <4> QED
        BY <2>5, <4>1
    <3> QED
      BY <3>1, <3>2 DEF S
  <2> QED
    BY <1>0, <1>2, <2>1, <2>4, <2>6 DEF a
<1> QED
  BY <1>0, <1>1, <1>2

\* _align_boundary_backward goes back to an assistant row, or stays.
LEMMA AlignBackward ==
    ASSUME NEW m \in Seq(Row), NEW idx \in Int
    PROVE  /\ AlignBoundaryBackward(m, idx) \in Int
           /\ AlignBoundaryBackward(m, idx) <= idx
           /\ \/ AlignBoundaryBackward(m, idx) = idx
              \/ /\ AlignBoundaryBackward(m, idx) >= 0
                 /\ At(m, AlignBoundaryBackward(m, idx)).role = "assistant"
<1> DEFINE S == {i \in 0 .. idx - 1 : At(m, i).role # "tool"}
           p == LastOf(S)
<1>1. CASE idx > 0
  <2>1. S \in SUBSET Int /\ \A x \in S : x >= 0 /\ x < idx
    OBVIOUS
  <2> HIDE DEF S
  <2>2. p \in Int /\ p < idx
    BY <1>1, <2>1, LastOfPositions
  <2>3. \/ AlignBoundaryBackward(m, idx) = idx
        \/ AlignBoundaryBackward(m, idx) = p /\ p >= 0 /\ At(m, p).role = "assistant"
    BY DEF AlignBoundaryBackward, S
  <2> QED
    BY <2>2, <2>3
<1>2. CASE ~(idx > 0)
  BY <1>2 DEF AlignBoundaryBackward
<1> QED
  BY <1>1, <1>2

\* The latest real user row is a position with a user row, or -1.
LEMMA LastUserRange ==
    ASSUME NEW m \in Seq(Row), NEW head \in Nat
    PROVE  LET u == LastUserMessage(m, head)
           IN  /\ u \in Int /\ -1 <= u /\ u < Len(m)
               /\ u >= 0 => u \in RealUserPositions(m, head)
<1> DEFINE S == RealUserPositions(m, head)
<1>0. Len(m) \in Int /\ Len(m) >= 0
  OBVIOUS
<1>1. S \in SUBSET Int /\ \A x \in S : x >= 0 /\ x < Len(m)
  BY <1>0 DEF RealUserPositions, Positions
<1>2. LastUserMessage(m, head) = LastOf(S)
  BY DEF LastUserMessage
<1> HIDE DEF S
<1>3. /\ LastOf(S) \in Int /\ LastOf(S) >= -1 /\ LastOf(S) < Len(m)
      /\ LastOf(S) >= 0 <=> S # {}
      /\ S # {} => LastOf(S) \in S
  BY <1>0, <1>1, LastOfPositions
<1> QED
  BY <1>2, <1>3 DEF S

\* The newest reply is a position or -1.
LEMMA LastAssistantRange ==
    ASSUME NEW m \in Seq(Row), NEW head \in Nat
    PROVE  LastAssistantMessage(m, head) \in Int
<1> DEFINE replies == {i \in Positions(m, head) :
                           At(m, i).role = "assistant" /\ ~IsContextSummary(At(m, i))}
           spoken == {i \in replies : At(m, i).text}
           S == IF spoken # {} THEN spoken ELSE replies
<1>0. Len(m) \in Int /\ Len(m) >= 0
  OBVIOUS
<1>1. S \in SUBSET Int /\ \A x \in S : x >= 0 /\ x < Len(m)
  BY <1>0 DEF Positions
<1>2. LastAssistantMessage(m, head) = LastOf(S)
  BY DEF LastAssistantMessage
<1> HIDE DEF S
<1> QED
  BY <1>0, <1>1, <1>2, LastOfPositions

\* The larger and the lesser of two integers.
LEMMA LargerLesser ==
    ASSUME NEW a \in Int, NEW b \in Int
    PROVE  /\ Larger(a, b) \in {a, b} /\ Larger(a, b) >= a /\ Larger(a, b) >= b
           /\ Lesser(a, b) \in {a, b} /\ Lesser(a, b) <= a /\ Lesser(a, b) <= b
           /\ Larger(a, b) \in Int /\ Lesser(a, b) \in Int
BY DEF Larger, Lesser

\* The anchors of a cut return positions.
LEMMA AnchorsRange ==
    ASSUME NEW m \in Seq(Row), NEW head \in Nat, NEW cut \in Int
    PROVE  /\ EnsureLastUserInTail(m, cut, head) \in Int
           /\ EnsureLastAssistantInTail(m, cut, head) \in Int
           /\ EnsureLastNUsersInTail(m, cut, head) \in Int
<1>0. Len(m) \in Int /\ Len(m) >= 0 /\ head \in Int /\ head + 1 \in Int
  OBVIOUS
<1>1. EnsureLastUserInTail(m, cut, head) \in Int
  <2> DEFINE u == LastUserMessage(m, head)
  <2>1. u \in Int
    BY LastUserRange
  <2>2. u + 1 \in Int /\ AlignBoundaryForward(m, u + 2) \in Int
    <3> HIDE DEF u
    <3>1. u + 1 \in Int /\ u + 2 \in Int
      BY ONLY <2>1
    <3> QED
      BY ONLY <3>1, m \in Seq(Row), AlignForward
  <2>3. TurnPairEnd(m, u) \in Int
    BY <2>2 DEF TurnPairEnd
  <2>4. Larger(TurnPairEnd(m, u), head + 1) \in Int
    BY <1>0, <2>3, LargerLesser
  <2> QED
    BY <2>1, <2>4 DEF EnsureLastUserInTail
<1>2. EnsureLastAssistantInTail(m, cut, head) \in Int
  <2> DEFINE a == LastAssistantMessage(m, head)
  <2>1. AlignBoundaryBackward(m, a) \in Int
    BY LastAssistantRange, AlignBackward
  <2>2. Larger(AlignBoundaryBackward(m, a), head + 1) \in Int
    BY <1>0, <2>1, LargerLesser
  <2> QED
    BY <2>2 DEF EnsureLastAssistantInTail
<1>3. EnsureLastNUsersInTail(m, cut, head) \in Int
  <2> DEFINE users == RealUserPositions(m, head)
             kept == {i \in users : Cardinality({j \in users : j >= i}) <= MinTailUsers}
  <2>1. CASE MinTailUsers <= 1 \/ users = {}
    BY <2>1 DEF EnsureLastNUsersInTail
  <2>2. CASE ~(MinTailUsers <= 1) /\ users # {}
    <3>1. users \in SUBSET Int /\ \A x \in users : x >= 0 /\ x < Len(m)
      BY <1>0 DEF RealUserPositions, Positions
    <3> HIDE DEF users
    <3> DEFINE l == LastOf(users)
    <3>2. l \in users /\ \A x \in users : x <= l
      BY <1>0, <2>2, <3>1, LastOfPositions
    <3> HIDE DEF l
    <3> DEFINE newest == {j \in users : j >= l}
    <3>3. newest = {l}
      <4>1. \A j \in users : j >= l => j = l
        <5>1. l \in Int /\ \A j \in users : j \in Int /\ j <= l
          BY <3>1, <3>2
        <5> QED
          BY <5>1
      <4>2. l >= l
        BY <3>1, <3>2
      <4> QED
        BY <3>2, <4>1, <4>2
    <3> HIDE DEF newest
    <3>4. Cardinality(newest) <= MinTailUsers
      <4>1. Cardinality(newest) = 1
        BY <3>3, FS_Singleton
      <4>2. MinTailUsers \in Int /\ 1 <= MinTailUsers
        BY <2>2, WindowAssumption
      <4> QED
        BY <4>1, <4>2
    <3>5. kept \in SUBSET Int /\ kept # {} /\ \A x \in kept : 0 <= x
      BY <3>1, <3>2, <3>4 DEF newest
    <3> HIDE DEF kept
    <3>6. Min(kept) \in kept
      BY <3>5, MinOf
    <3>7. Min(kept) \in Int /\ Larger(Min(kept), head + 1) \in Int
      BY <1>0, <3>5, <3>6, LargerLesser
    <3> QED
      BY <3>7 DEF EnsureLastNUsersInTail, kept, users
  <2> QED
    BY <2>1, <2>2
<1> QED
  BY <1>1, <1>2, <1>3

\* The walk over the token budget returns a position.
LEMMA WalkRange ==
    ASSUME NEW m \in Seq(Row), NEW head \in Nat, NEW ceiling, NEW minTail, NEW atBreak \in BOOLEAN
    PROVE  WalkTailBudget(m, head, ceiling, minTail, atBreak).cut \in Int
<1> DEFINE tokens == SuffixTokens(m)
           breaks == {i \in Positions(m, head) : tokens[i] > ceiling /\ Len(m) - i >= minTail}
<1>0. Len(m) \in Int /\ Len(m) >= 0 /\ head \in Int
  OBVIOUS
<1>1. CASE breaks = {}
  <2>1. WalkTailBudget(m, head, ceiling, minTail, atBreak).cut = Lesser(head, Len(m))
    BY <1>1 DEF WalkTailBudget
  <2> QED
    BY <1>0, <2>1, LargerLesser
<1>2. CASE breaks # {}
  <2>1. WalkTailBudget(m, head, ceiling, minTail, atBreak).cut
            \in {Max(breaks), Max(breaks) + 1}
    BY <1>2 DEF WalkTailBudget
  <2>2. breaks \in SUBSET Int /\ \A x \in breaks : x <= Len(m)
    BY <1>0 DEF Positions
  <2> HIDE DEF breaks
  <2>3. Max(breaks) \in breaks
    BY <1>0, <1>2, <2>2, MaxOf
  <2>4. Max(breaks) \in Int
    BY <2>2, <2>3
  <2> QED
    BY <2>1, <2>4
<1> QED
  BY <1>1, <1>2

\* The tail begins within the transcript, and never with a tool row.
LEMMA TailCut ==
    ASSUME NEW m \in Seq(Row), NEW head \in Nat
    PROVE  LET e == FindTailCut(m, head)
           IN  e \in Int /\ e <= Len(m) /\ (e < Len(m) => At(m, e).role # "tool")
<1> DEFINE n == Len(m)
           available == Larger(0, n - head - 1)
           floor == Larger(3, Lesser(ProtectLast, MaxTailFloor))
           sizes == {floor, Larger(3, available - 2), available}
           minTail == IF available <= 1 THEN 0 ELSE Min(sizes)
           soft == (TailBudget * 3) \div 2
           wide == WalkTailBudget(m, head, soft, minTail, FALSE)
           tight == WalkTailBudget(m, head, TailBudget, minTail, TRUE)
           walked == IF wide.cut <= head /\ 0 < wide.acc /\ wide.acc <= soft
                     THEN tight.cut ELSE wide.cut
           floored == Lesser(walked, n - minTail)
           forced == IF floored <= head THEN Larger(n - minTail, head + 1) ELSE floored
           aligned == AlignBoundaryBackward(m, forced)
           withUser == EnsureLastUserInTail(m, aligned, head)
           withReply == EnsureLastAssistantInTail(m, withUser, head)
           withUsers == EnsureLastNUsersInTail(m, withReply, head)
           last == Larger(withUsers, head + 1)
           cut == AlignBoundaryForward(m, last)
<1>0. n \in Int /\ head \in Int /\ n - head - 1 \in Int /\ head + 1 \in Int
  OBVIOUS
<1>1. FindTailCut(m, head) = Lesser(n, cut)
  BY DEF FindTailCut
<1> HIDE DEF cut, last, withUsers, withReply, withUser, aligned, forced, floored, walked, tight,
             wide, soft, minTail, sizes, floor, available, n
<1>2. available \in Int /\ available >= 0
  BY <1>0 DEF available, Larger
<1>3. floor \in Int /\ floor >= 0
  <2>1. ProtectLast \in Int /\ MaxTailFloor \in Int
    BY WindowAssumption
  <2>2. Lesser(ProtectLast, MaxTailFloor) \in Int
    BY <2>1, LargerLesser
  <2> QED
    BY <2>2 DEF floor, Larger
<1>4. minTail \in Int
  <2>1. available - 2 \in Int
    BY <1>2
  <2>2. Larger(3, available - 2) \in Int /\ Larger(3, available - 2) >= 3
    BY <2>1 DEF Larger
  <2>3. sizes \in SUBSET Int /\ sizes # {} /\ \A x \in sizes : 0 <= x
    BY <1>2, <1>3, <2>2 DEF sizes
  <2>4. Min(sizes) \in sizes
    BY <2>3, MinOf
  <2>5. Min(sizes) \in Int
    BY <2>3, <2>4
  <2> QED
    BY <2>5 DEF minTail
<1>5. walked \in Int
  <2>1. wide.cut \in Int /\ tight.cut \in Int
    BY WalkRange DEF wide, tight
  <2> QED
    BY <2>1 DEF walked
<1>6. n - minTail \in Int
  BY <1>0, <1>4
<1>7. floored \in Int
  BY <1>5, <1>6, LargerLesser DEF floored
<1>8. forced \in Int
  BY <1>0, <1>6, <1>7, LargerLesser DEF forced
<1>9. aligned \in Int
  BY <1>8, AlignBackward DEF aligned
<1>10. withUser \in Int
  BY <1>9, AnchorsRange DEF withUser
<1>11. withReply \in Int
  BY <1>10, AnchorsRange DEF withReply
<1>12. withUsers \in Int
  BY <1>11, AnchorsRange DEF withUsers
<1>13. last \in Int
  BY <1>0, <1>12, LargerLesser DEF last
<1>14. cut \in Int /\ (cut < n => At(m, cut).role # "tool")
  BY <1>13, AlignForward DEF cut, n
<1>15. Lesser(n, cut) \in Int /\ Lesser(n, cut) <= n /\ Lesser(n, cut) \in {n, cut}
  BY <1>0, <1>14, LargerLesser
<1> QED
  BY <1>0, <1>1, <1>14, <1>15 DEF n

\* So does the window's end, also when it goes back over the rows before the latest request.
LEMMA WindowRange ==
    ASSUME NEW m \in Seq(Row), NEW decayed \in BOOLEAN
    PROVE  LET w == CompressWindow(m, decayed)
           IN  /\ w.start \in Nat /\ w.end \in Int /\ w.end <= Len(m)
               /\ w.start = AlignBoundaryForward(m, ProtectHeadSize(m, decayed))
               /\ w.end < Len(m) => At(m, w.end).role # "tool"
<1> DEFINE start == AlignBoundaryForward(m, ProtectHeadSize(m, decayed))
           end == FindTailCut(m, start)
           latest == LastUserMessage(m, 0)
           before == latest - 1
           bridge == IF before < 0 THEN -1
                     ELSE IF At(m, before).role = "tool" THEN AlignBoundaryBackward(m, latest)
                     ELSE IF At(m, before).role = "assistant" THEN before ELSE -1
           w == CompressWindow(m, decayed)
<1>0. Len(m) \in Int /\ Len(m) >= 0
  OBVIOUS
<1>1. ProtectHeadSize(m, decayed) \in Nat
  <2>1. ProtectFirst \in Nat
    BY WindowAssumption
  <2>2. (IF m # <<>> /\ At(m, 0).role = "system" THEN 1 ELSE 0) \in {0, 1}
    OBVIOUS
  <2>3. (IF decayed \/ RestartHandoffProbe(m) THEN 0 ELSE ProtectFirst) \in Nat
    BY <2>1
  <2> DEFINE a == IF m # <<>> /\ At(m, 0).role = "system" THEN 1 ELSE 0
             b == IF decayed \/ RestartHandoffProbe(m) THEN 0 ELSE ProtectFirst
  <2>4. ProtectHeadSize(m, decayed) = a + b
    BY DEF ProtectHeadSize
  <2> HIDE DEF a, b
  <2>5. a \in {0, 1} /\ b \in Nat
    BY <2>2, <2>3 DEF a, b
  <2> QED
    BY <2>4, <2>5
<1>2. w.start = start /\ w.end = IF end = latest /\ bridge > start THEN bridge ELSE end
  BY DEF CompressWindow
<1>3. start \in Nat
  BY <1>1, AlignForward
<1> HIDE DEF start
<1>4. end \in Int /\ end <= Len(m) /\ (end < Len(m) => At(m, end).role # "tool")
  BY <1>3, TailCut
<1>5. latest \in Int /\ -1 <= latest /\ latest < Len(m)
  BY LastUserRange
<1> HIDE DEF end, w
<1>6. latest >= 0 => At(m, latest).role # "tool"
  <2>1. latest >= 0 => latest \in RealUserPositions(m, 0)
    BY LastUserRange
  <2> QED
    BY <2>1 DEF RealUserPositions, IsActionableUserTurn
<1> HIDE DEF latest
<1>7. ASSUME end = latest, bridge > start
      PROVE  bridge \in Int /\ bridge <= Len(m) /\ At(m, bridge).role # "tool"
  <2>1. before \in Int /\ before < Len(m)
    BY <1>0, <1>5
  <2>2. bridge >= 0
    <3>1. AlignBoundaryBackward(m, latest) \in Int
      BY ONLY <1>5, m \in Seq(Row), AlignBackward
    <3>2. bridge \in Int
      BY ONLY <2>1, <3>1
    <3> QED
      BY ONLY <1>3, <1>7, <3>2
  <2>3. before >= 0
    BY <1>3, <1>7, <2>1
  <2>4. CASE At(m, before).role = "tool"
    <3>1. bridge = AlignBoundaryBackward(m, latest)
      BY <2>1, <2>3, <2>4
    <3>2. bridge \in Int /\ bridge <= latest
      BY <1>5, <3>1, AlignBackward
    <3>3. bridge = latest \/ At(m, bridge).role = "assistant"
      BY <1>5, <3>1, AlignBackward
    <3>4. latest >= 0
      BY <1>5, <2>3
    <3> QED
      BY <1>0, <1>5, <1>6, <3>2, <3>3, <3>4
  <2>5. CASE At(m, before).role # "tool"
    <3>1. bridge = before /\ At(m, before).role = "assistant"
      BY <1>3, <1>7, <2>1, <2>3, <2>5
    <3> QED
      BY <1>0, <2>1, <3>1
  <2> QED
    BY <2>4, <2>5
<1> HIDE DEF bridge
<1> QED
  BY <1>0, <1>2, <1>3, <1>4, <1>7 DEF w, start

-----------------------------------------------------------------------------
(* The handoffs stripped from the rows of a slice. *)

\* A row without a handoff stays; any other gives back one row or nothing.
LEMMA StripOne ==
    ASSUME NEW r \in Row
    PROVE  /\ StripHandoff(r) \in Seq(Row) /\ Len(StripHandoff(r)) <= 1
           /\ r.handoff = "none" => StripHandoff(r) = <<r>>
           /\ r.handoff = "merged" /\ r.text =>
                StripHandoff(r) = <<[r EXCEPT !.handoff = "none", !.sum = {}, !.after = {}]>>
           /\ r.handoff = "standalone" /\ r.after # {} =>
                StripHandoff(r) = <<[r EXCEPT !.handoff = "none", !.sum = {}, !.after = {},
                                              !.live = r.after, !.text = TRUE]>>
           /\ \/ StripHandoff(r) = <<>>
              \/ StripHandoff(r) = <<r>>
              \/ StripHandoff(r) = <<[r EXCEPT !.handoff = "none", !.sum = {}, !.after = {}]>>
              \/ StripHandoff(r) = <<[r EXCEPT !.handoff = "none", !.sum = {}, !.after = {},
                                              !.live = r.after, !.text = TRUE]>>
<1> DEFINE unwrapped == [r EXCEPT !.handoff = "none", !.sum = {}, !.after = {}]
           restated == [r EXCEPT !.handoff = "none", !.sum = {}, !.after = {},
                                 !.live = r.after, !.text = TRUE]
<1>1. unwrapped \in Row /\ restated \in Row
  BY DEF Row
<1>2. [unwrapped EXCEPT !.live = r.after, !.text = TRUE] = restated
  BY DEF Row
<1>3. StripHandoff(r) = IF r.handoff = "none" THEN <<r>>
                        ELSE IF r.handoff = "merged" THEN IF r.text THEN <<unwrapped>> ELSE <<>>
                        ELSE IF r.after = {} THEN <<>> ELSE <<restated>>
  BY <1>2 DEF StripHandoff, IsContextSummary
<1>4. r.handoff \in {"none", "standalone", "merged"}
  BY DEF Row
<1> HIDE DEF unwrapped, restated
<1>5. <<r>> \in Seq(Row) /\ <<unwrapped>> \in Seq(Row) /\ <<restated>> \in Seq(Row)
  BY <1>1
<1>6. <<>> \in Seq(Row) /\ Len(<<>>) = 0
  OBVIOUS
<1>7. Len(<<r>>) = 1 /\ Len(<<unwrapped>>) = 1 /\ Len(<<restated>>) = 1
  OBVIOUS
<1>8. /\ StripHandoff(r) \in Seq(Row) /\ Len(StripHandoff(r)) <= 1
      /\ r.handoff = "none" => StripHandoff(r) = <<r>>
      /\ r.handoff = "merged" /\ r.text => StripHandoff(r) = <<unwrapped>>
      /\ r.handoff = "standalone" /\ r.after # {} => StripHandoff(r) = <<restated>>
      /\ \/ StripHandoff(r) = <<>>
         \/ StripHandoff(r) = <<r>>
         \/ StripHandoff(r) = <<unwrapped>>
         \/ StripHandoff(r) = <<restated>>
  BY <1>3, <1>4, <1>5, <1>6, <1>7
<1> QED
  BY <1>8 DEF unwrapped, restated

\* StripAll as the pieces it flattens.
LEMMA StripPieces ==
    ASSUME NEW m \in Seq(Row)
    PROVE  LET ss == [i \in DOMAIN m |-> StripHandoff(m[i])]
           IN  /\ ss \in Seq(Seq(Row)) /\ Len(ss) = Len(m)
               /\ \A i \in 1 .. Len(m) : ss[i] = StripHandoff(m[i]) /\ Len(ss[i]) <= 1
               /\ StripAll(m) = FlattenSeq(ss)
<1> DEFINE ss == [i \in DOMAIN m |-> StripHandoff(m[i])]
<1>0. DOMAIN m = 1 .. Len(m) /\ Len(m) \in Nat
  OBVIOUS
<1>1. \A i \in 1 .. Len(m) : m[i] \in Row
  OBVIOUS
<1>2. \A i \in 1 .. Len(m) : StripHandoff(m[i]) \in Seq(Row) /\ Len(StripHandoff(m[i])) <= 1
  BY <1>1, StripOne
<1>3. ss = [i \in 1 .. Len(m) |-> StripHandoff(m[i])]
  BY <1>0
<1>4. ss \in [1 .. Len(m) -> Seq(Row)]
  BY <1>2, <1>3
<1>5. ss \in Seq(Seq(Row)) /\ Len(ss) = Len(m)
  BY <1>0, <1>4
<1>6. \A i \in 1 .. Len(m) : ss[i] = StripHandoff(m[i])
  BY <1>3
<1>7. StripAll(m) = FlattenSeq(ss)
  BY DEF StripAll
<1> HIDE DEF ss
<1> QED
  BY <1>2, <1>5, <1>6, <1>7 DEF ss

\* What is left of the rows of m: one row each, in order, of those that gave back something.
LEMMA StripAllRows ==
    ASSUME NEW m \in Seq(Row)
    PROVE  /\ StripAll(m) \in Seq(Row)
           /\ \A k \in 1 .. Len(StripAll(m)) : \E i \in 1 .. Len(m) :
                  StripHandoff(m[i]) # <<>> /\ StripAll(m)[k] = StripHandoff(m[i])[1]
           /\ \A i \in 1 .. Len(m) : StripHandoff(m[i]) # <<>> =>
                  \E k \in 1 .. Len(StripAll(m)) : StripAll(m)[k] = StripHandoff(m[i])[1]
<1> DEFINE ss == [i \in DOMAIN m |-> StripHandoff(m[i])]
           F == StripAll(m)
<1>1. /\ ss \in Seq(Seq(Row)) /\ Len(ss) = Len(m)
      /\ \A i \in 1 .. Len(m) : ss[i] = StripHandoff(m[i]) /\ Len(ss[i]) <= 1
      /\ F = FlattenSeq(ss)
  BY StripPieces
<1> HIDE DEF ss, F
<1>2. F \in Seq(Row) /\ \E pos : Picks(ss, Len(ss), F, pos)
  BY <1>1, FlattenShort
<1>3. PICK pos : Picks(ss, Len(m), F, pos)
  BY <1>1, <1>2
<1>4. \A k \in 1 .. Len(F) : /\ pos[k] \in 1 .. Len(m)
                             /\ ss[pos[k]] # <<>> /\ F[k] = ss[pos[k]][1]
  BY <1>3 DEF Picks
<1>5. \A i \in 1 .. Len(m) : ss[i] # <<>> => \E k \in 1 .. Len(F) : pos[k] = i
  BY <1>3 DEF Picks
<1>6. \A k \in 1 .. Len(F) : StripHandoff(m[pos[k]]) # <<>> /\ F[k] = StripHandoff(m[pos[k]])[1]
  BY <1>1, <1>4
<1>7. ASSUME NEW i \in 1 .. Len(m), StripHandoff(m[i]) # <<>>
      PROVE  \E k \in 1 .. Len(F) : F[k] = StripHandoff(m[i])[1]
  <2>1. PICK k \in 1 .. Len(F) : pos[k] = i
    BY <1>1, <1>5, <1>7
  <2> QED
    BY <1>6, <2>1
<1> QED
  BY <1>2, <1>4, <1>6, <1>7 DEF F

\* Flattening one-element pieces gives their elements.
LEMMA FlattenSingles ==
    ASSUME NEW S, NEW m \in Seq(S), NEW ss \in Seq(Seq(S)), Len(ss) = Len(m),
           \A i \in 1 .. Len(m) : ss[i] = <<m[i]>>
    PROVE  FlattenSeq(ss) = m
<1>0. Len(m) \in Nat
  OBVIOUS
<1>1. CASE Len(m) = 0
  BY <1>1 DEF FlattenSeq
<1>2. CASE Len(m) # 0
  <2>0. Len(ss) # 0
    BY <1>2
  <2>1. PICK g : Stages(ss, g)
    BY <2>0, FlattenUnfold
  <2>2. g[1] = ss[1] /\ \A i \in 1 .. Len(ss) : i # 1 => g[i] = g[i - 1] \o ss[i]
    BY <2>1 DEF Stages
  <2> DEFINE T == {n \in Nat : n + 1 <= Len(m) => g[n + 1] = SubSeq(m, 1, n + 1)}
  <2>3. 0 \in T
    <3>1. 1 \in 1 .. Len(m) /\ m[1] \in S
      BY <1>0, <1>2
    <3>2. SubSeq(m, 1, 1) = <<m[1]>>
      <4>1. SubSeq(m, 1, 1) = <<m[1]>> \o SubSeq(m, 2, 1)
        <5>1. 1 \in 1 .. Len(m) /\ 1 + 1 = 2
          BY <3>1
        <5> QED
          BY <5>1, SubSeqRecursiveFirst
      <4>2. SubSeq(m, 2, 1) = <<>>
        BY SubSeqEmpty
      <4>3. <<m[1]>> \in Seq(S)
        BY <3>1
      <4> QED
        BY <4>1, <4>2, <4>3, ConcatEmptySeq
    <3> QED
      BY <2>2, <3>1, <3>2
  <2>4. ASSUME NEW n \in Nat, n \in T PROVE n + 1 \in T
    <3>1. SUFFICES ASSUME n + 1 + 1 <= Len(m)
                   PROVE  g[n + 1 + 1] = SubSeq(m, 1, n + 1 + 1)
      OBVIOUS
    <3> DEFINE i == n + 1 + 1
    <3>2. i \in 1 .. Len(ss) /\ i # 1 /\ i - 1 = n + 1 /\ i \in 1 .. Len(m) /\ 1 \in 1 .. Len(m)
      BY <1>0, <3>1
    <3>3. g[i - 1] = SubSeq(m, 1, i - 1)
      BY <1>0, <2>4, <3>1, <3>2
    <3> HIDE DEF i
    <3>4. g[i] = g[i - 1] \o ss[i]
      BY <2>2, <3>2
    <3>5. i \in 1 .. Len(m) /\ ss[i] = <<m[i]>>
      BY <3>2
    <3>6. SubSeq(m, 1, i) = SubSeq(m, 1, i - 1) \o <<m[i]>>
      BY <3>2, SubSeqRecursiveSecond
    <3> QED
      BY <3>3, <3>4, <3>5, <3>6 DEF i
  <2>5. Len(m) - 1 \in T
    <3> HIDE DEF T
    <3>1. Len(m) - 1 \in Nat
      BY <1>0, <1>2
    <3> QED
      BY <2>3, <2>4, <3>1, InductiveSet
  <2>6. Len(m) - 1 + 1 = Len(m) /\ Len(m) <= Len(m)
    BY <1>0
  <2>7. g[Len(m)] = SubSeq(m, 1, Len(m))
    BY <2>5, <2>6
  <2> QED
    BY <2>1, <2>7, SubSeqFull DEF Stages
<1> QED
  BY <1>1, <1>2

\* Rows without handoffs are left as they are.
LEMMA StripAllPlain ==
    ASSUME NEW m \in Seq(Row), \A i \in 1 .. Len(m) : m[i].handoff = "none"
    PROVE  StripAll(m) = m
<1> DEFINE ss == [i \in DOMAIN m |-> StripHandoff(m[i])]
<1>1. /\ ss \in Seq(Seq(Row)) /\ Len(ss) = Len(m)
      /\ \A i \in 1 .. Len(m) : ss[i] = StripHandoff(m[i])
      /\ StripAll(m) = FlattenSeq(ss)
  BY StripPieces
<1>2. \A i \in 1 .. Len(m) : m[i] \in Row
  OBVIOUS
<1>3. \A i \in 1 .. Len(m) : StripHandoff(m[i]) = <<m[i]>>
  BY <1>2, StripOne
<1> HIDE DEF ss
<1>4. \A i \in 1 .. Len(m) : ss[i] = <<m[i]>>
  BY <1>1, <1>3
<1>5. FlattenSeq(ss) = m
  BY <1>1, <1>4, FlattenSingles
<1> QED
  BY <1>1, <1>5

-----------------------------------------------------------------------------
(* The shape of a transcript: good rows, results right after their calls, one
   handoff, and where its carrier stands. *)

\* What every row is, when k ids were handed out: only a handoff carries a summary or text after
\* one, a standalone one has no text of its own, a row without text says nothing, and a blank row is
\* a user's.
GoodRow(r, k) ==
    /\ r \in Row
    /\ r.live \cup r.after \subseteq 0 .. k /\ r.sum \subseteq 1 .. k
    /\ r.handoff = "none" => r.sum = {} /\ r.after = {}
    /\ r.handoff = "standalone" => r.live = {}
    /\ r.calls # {} => r.role = "assistant"
    /\ ~r.text => r.live = {}
    /\ r.kind = "blank" => r.role = "user" /\ ~r.text

\* A tool result stands right after the row that made the call.
Paired(m) ==
    \A i \in 1 .. Len(m) : m[i].role = "tool" =>
        i > 1 /\ m[i - 1].role = "assistant" /\ m[i].ans \in m[i - 1].calls

\* The transcript holds one handoff at most.
OneHandoff(m) ==
    \A i, j \in 1 .. Len(m) : m[i].handoff # "none" /\ m[j].handoff # "none" => i = j

\* It is not carried by a tool row; and a carrier that makes calls is the first row after the
\* protected head that is not a tool row.
Placed(m) ==
    \A i \in 1 .. Len(m) : m[i].handoff # "none" =>
        /\ m[i].role # "tool"
        /\ m[i].calls = {} \/ \A j \in 2 + ProtectFirst .. i - 1 : m[j].role = "tool"

\* The shape of every transcript.
Shaped(m, k) ==
    /\ m \in Seq(Row) /\ Len(m) >= 1
    /\ \A i \in 1 .. Len(m) : GoodRow(m[i], k)
    /\ m[1].role = "system" /\ m[1].handoff = "none"
    /\ Paired(m) /\ OneHandoff(m) /\ Placed(m)

\* The protected head is the system row alone once the session was compacted; otherwise it is the
\* first ProtectFirst rows and the tool rows after them.
LEMMA HeadRange ==
    ASSUME NEW k, NEW m, Shaped(m, k), NEW decayed \in BOOLEAN
    PROVE  ProtectHeadSize(m, decayed) = IF decayed \/ RestartHandoffProbe(m) THEN 1 ELSE 1 + ProtectFirst
<1>1. m # <<>> /\ At(m, 0).role = "system"
  BY DEF Shaped, At
<1>2. ProtectFirst \in Nat
  BY WindowAssumption
<1> QED
  BY <1>1, <1>2 DEF ProtectHeadSize

\* A handoff among the first ProtectFirst rows is found by the probe.
LEMMA ProbeFinds ==
    ASSUME NEW k, NEW m, Shaped(m, k), NEW i \in 2 .. 1 + ProtectFirst, i <= Len(m),
           m[i].handoff # "none"
    PROVE  RestartHandoffProbe(m)
<1>1. m # <<>> /\ At(m, 0).role = "system"
  BY DEF Shaped, At
<1>2. ProtectFirst \in Nat /\ ProbeExtra \in Nat /\ Len(m) \in Nat
  BY WindowAssumption DEF Shaped
<1>3. ProtectFirst > 0 /\ i - 1 >= 1 /\ i - 1 <= Len(m) - 1 /\ i - 1 <= 1 + ProtectFirst + ProbeExtra - 1
  BY <1>2
<1>4. i - 1 \in 1 .. Lesser(Len(m), 1 + ProtectFirst + ProbeExtra) - 1
  BY <1>2, <1>3 DEF Lesser
<1>5. IsContextSummary(At(m, i - 1))
  <2>1. i - 1 + 1 = i
    OBVIOUS
  <2> QED
    BY <2>1 DEF At, IsContextSummary
<1> QED
  BY <1>1, <1>3, <1>4, <1>5 DEF RestartHandoffProbe

\* The head of a window holds no handoff, and what it holds beyond the first ProtectFirst rows
\* are tool rows.
LEMMA HeadRows ==
    ASSUME NEW k, NEW m, Shaped(m, k), NEW decayed \in BOOLEAN,
           NEW w, w = CompressWindow(m, decayed), w.start < w.end
    PROVE  /\ w.start \in Nat /\ w.start >= 1 /\ w.start < Len(m)
           /\ \A i \in 1 .. w.start : m[i].handoff = "none"
           /\ w.start > 1 => /\ ~decayed /\ ~RestartHandoffProbe(m)
                             /\ \A i \in 2 + ProtectFirst .. w.start : m[i].role = "tool"
                             /\ w.start = AlignBoundaryForward(m, 1 + ProtectFirst)
<1> DEFINE s == w.start
           p == ProtectHeadSize(m, decayed)
<1>0. m \in Seq(Row) /\ Len(m) \in Nat
  BY DEF Shaped
<1>1. s \in Nat /\ w.end \in Int /\ w.end <= Len(m) /\ s = AlignBoundaryForward(m, p)
  BY <1>0, WindowRange
<1>2. s < Len(m)
  BY <1>0, <1>1
<1>3. ProtectFirst \in Nat
  BY WindowAssumption
<1>4. p = IF decayed \/ RestartHandoffProbe(m) THEN 1 ELSE 1 + ProtectFirst
  BY HeadRange
<1> HIDE DEF p, s
<1>5. p \in Int /\ p >= 1
  BY <1>3, <1>4
<1>6. p <= s /\ (p < Len(m) => \A i \in p .. s - 1 : At(m, i).role = "tool")
  BY <1>0, <1>1, <1>5, AlignForward
<1>7. \A i \in p + 1 .. s : m[i].role = "tool"
  <2> SUFFICES ASSUME NEW i \in p + 1 .. s PROVE m[i].role = "tool"
    OBVIOUS
  <2>1. i - 1 \in p .. s - 1 /\ i - 1 + 1 = i /\ p < Len(m)
    BY <1>0, <1>1, <1>2, <1>5, <1>6
  <2> QED
    BY <1>6, <2>1 DEF At
<1>8. CASE decayed \/ RestartHandoffProbe(m)
  <2>1. p = 1
    BY <1>4, <1>8
  <2>2. s = 1
    <3>1. SUFFICES ASSUME s # 1 PROVE FALSE
      OBVIOUS
    <3>2. 2 \in p + 1 .. s /\ 2 \in 1 .. Len(m) /\ 2 - 1 = 1
      BY <1>0, <1>1, <1>2, <1>5, <1>6, <2>1, <3>1
    <3>3. m[2].role = "tool"
      BY <1>7, <3>2
    <3>4. m[2 - 1].role = "assistant"
      BY <3>2, <3>3 DEF Shaped, Paired
    <3> QED
      BY <3>2, <3>4 DEF Shaped
  <2>3. \A i \in 1 .. s : m[i].handoff = "none"
    BY <2>2 DEF Shaped
  <2> QED
    BY <1>1, <1>2, <2>2, <2>3 DEF s
<1>9. CASE ~(decayed \/ RestartHandoffProbe(m))
  <2>1. p = 1 + ProtectFirst /\ p + 1 = 2 + ProtectFirst
    BY <1>3, <1>4, <1>9
  <2>2. ASSUME NEW i \in 1 .. s PROVE m[i].handoff = "none"
    <3>0. i \in 1 .. Len(m) /\ i \in Int
      BY <1>0, <1>1, <1>2
    <3>1. CASE i = 1
      BY <3>1 DEF Shaped
    <3>2. CASE i \in 2 .. 1 + ProtectFirst
      BY <1>9, <3>0, <3>2, ProbeFinds
    <3>3. CASE i \in p + 1 .. s
      BY <1>7, <3>0, <3>3 DEF Shaped, Placed
    <3>4. i = 1 \/ i \in 2 .. 1 + ProtectFirst \/ i \in p + 1 .. s
      BY <1>1, <1>3, <2>1, <3>0
    <3> QED
      BY <3>1, <3>2, <3>3, <3>4
  <2>3. \A i \in 2 + ProtectFirst .. s : m[i].role = "tool"
    BY <1>7, <2>1
  <2> QED
    BY <1>1, <1>2, <1>5, <1>6, <1>9, <2>1, <2>2, <2>3 DEF s
<1> QED
  BY <1>8, <1>9

\* The rows of a part of a transcript.
LEMMA SliceRows ==
    ASSUME NEW S, NEW m \in Seq(S), NEW from \in Nat, NEW to \in Int, to <= Len(m)
    PROVE  /\ Slice(m, from, to) \in Seq(S)
           /\ Len(Slice(m, from, to)) = IF from < to THEN to - from ELSE 0
           /\ \A j \in 1 .. to - from : Slice(m, from, to)[j] = m[from + j]
<1>0. Len(m) \in Nat
  OBVIOUS
<1>1. from + 1 \in Int /\ \A i \in from + 1 .. to : m[i] \in S
  BY <1>0
<1>2. /\ SubSeq(m, from + 1, to) \in Seq(S)
      /\ Len(SubSeq(m, from + 1, to)) = IF from + 1 <= to THEN to - (from + 1) + 1 ELSE 0
      /\ \A i \in 1 .. to - (from + 1) + 1 : SubSeq(m, from + 1, to)[i] = m[from + 1 + i - 1]
  BY <1>1, SubSeqProperties
<1>3. to - (from + 1) + 1 = to - from /\ \A i \in Int : from + 1 + i - 1 = from + i
  OBVIOUS
<1>4. from + 1 <= to <=> from < to
  OBVIOUS
<1> QED
  BY <1>2, <1>3, <1>4 DEF Slice

\* What a row says, and the summary it carries, are among those of the transcript.
LEMMA LiveOfRow ==
    ASSUME NEW f \in Seq(Row), NEW i \in 1 .. Len(f)
    PROVE  f[i].live \subseteq Live(f) /\ f[i].sum \subseteq Summaries(f)
<1>1. i \in DOMAIN f
  OBVIOUS
<1> QED
  BY <1>1 DEF Live, Summaries

\* What the rows of a concatenation say.
LEMMA LiveOfConcat ==
    ASSUME NEW f \in Seq(Row), NEW g \in Seq(Row)
    PROVE  Live(f) \cup Live(g) = Live(f \o g)
<1>0. Len(f) \in Nat /\ Len(g) \in Nat
  OBVIOUS
<1>1. /\ f \o g \in Seq(Row) /\ Len(f \o g) = Len(f) + Len(g)
      /\ \A i \in 1 .. Len(f) + Len(g) : (f \o g)[i] = IF i <= Len(f) THEN f[i] ELSE g[i - Len(f)]
  BY ConcatProperties
<1> DEFINE h == f \o g
<1>2. /\ h \in Seq(Row) /\ Len(h) = Len(f) + Len(g)
      /\ \A i \in 1 .. Len(f) + Len(g) : h[i] = IF i <= Len(f) THEN f[i] ELSE g[i - Len(f)]
  BY <1>1
<1> HIDE DEF h
<1>3. ASSUME NEW i \in DOMAIN f PROVE f[i].live \subseteq Live(h)
  <2>1. i \in 1 .. Len(h) /\ h[i] = f[i]
    BY <1>0, <1>2
  <2> QED
    BY <1>2, <2>1, LiveOfRow
<1>4. ASSUME NEW i \in DOMAIN g PROVE g[i].live \subseteq Live(h)
  <2>1. Len(f) + i \in 1 .. Len(h) /\ h[Len(f) + i] = g[i]
    BY <1>0, <1>2
  <2> QED
    BY <1>2, <2>1, LiveOfRow
<1>5. ASSUME NEW i \in DOMAIN h PROVE h[i].live \subseteq Live(f) \cup Live(g)
  <2>0. i \in 1 .. Len(f) + Len(g)
    BY <1>2
  <2>1. CASE i <= Len(f)
    <3>1. i \in 1 .. Len(f) /\ h[i] = f[i]
      BY <1>0, <1>2, <2>0, <2>1
    <3> QED
      BY <3>1, LiveOfRow
  <2>2. CASE ~(i <= Len(f))
    <3>1. i - Len(f) \in 1 .. Len(g) /\ h[i] = g[i - Len(f)]
      BY <1>0, <1>2, <2>0, <2>2
    <3> QED
      BY <3>1, LiveOfRow
  <2> QED
    BY <2>1, <2>2
<1>6. Live(f) \subseteq Live(h) /\ Live(g) \subseteq Live(h) /\ Live(h) \subseteq Live(f) \cup Live(g)
  BY <1>3, <1>4, <1>5 DEF Live
<1> QED
  BY <1>6 DEF h

\* The rows of a stripped sequence say what the rows themselves said and what followed a
\* standalone summary.
LEMMA LiveOfStripped ==
    ASSUME NEW k, NEW f \in Seq(Row), \A i \in 1 .. Len(f) : GoodRow(f[i], k)
    PROVE  /\ StripAll(f) \in Seq(Row)
           /\ Live(StripAll(f)) \subseteq 0 .. k
           /\ \A i \in 1 .. Len(f) :
                 /\ f[i].live \subseteq Live(StripAll(f))
                 /\ f[i].handoff = "standalone" => f[i].after \subseteq Live(StripAll(f))
<1> DEFINE g == StripAll(f)
<1>1. /\ g \in Seq(Row)
      /\ \A j \in 1 .. Len(g) : \E i \in 1 .. Len(f) :
             StripHandoff(f[i]) # <<>> /\ g[j] = StripHandoff(f[i])[1]
      /\ \A i \in 1 .. Len(f) : StripHandoff(f[i]) # <<>> =>
             \E j \in 1 .. Len(g) : g[j] = StripHandoff(f[i])[1]
  BY StripAllRows
<1> HIDE DEF g
<1>2. \A i \in 1 .. Len(f) : f[i] \in Row
  OBVIOUS
<1>3. ASSUME NEW j \in 1 .. Len(g) PROVE g[j].live \subseteq 0 .. k
  <2>1. PICK i \in 1 .. Len(f) : StripHandoff(f[i]) # <<>> /\ g[j] = StripHandoff(f[i])[1]
    BY <1>1
  <2> DEFINE r == f[i]
  <2>2. r \in Row /\ r.live \subseteq 0 .. k /\ r.after \subseteq 0 .. k
    BY <1>2 DEF GoodRow
  <2> HIDE DEF r
  <2>3. \/ g[j] = r
        \/ g[j] = [r EXCEPT !.handoff = "none", !.sum = {}, !.after = {}]
        \/ g[j] = [r EXCEPT !.handoff = "none", !.sum = {}, !.after = {},
                            !.live = r.after, !.text = TRUE]
    <3>1. StripHandoff(r) # <<>> /\ g[j] = StripHandoff(r)[1]
      BY <2>1 DEF r
    <3>2. \/ StripHandoff(r) = <<r>>
          \/ StripHandoff(r) = <<[r EXCEPT !.handoff = "none", !.sum = {}, !.after = {}]>>
          \/ StripHandoff(r) = <<[r EXCEPT !.handoff = "none", !.sum = {}, !.after = {},
                                          !.live = r.after, !.text = TRUE]>>
      BY <2>2, <3>1, StripOne
    <3> QED
      BY <3>1, <3>2
  <2> QED
    BY <2>2, <2>3 DEF Row
<1>4. Live(g) \subseteq 0 .. k
  BY <1>1, <1>3 DEF Live
<1>5. ASSUME NEW i \in 1 .. Len(f)
      PROVE  /\ f[i].live \subseteq Live(g)
             /\ f[i].handoff = "standalone" => f[i].after \subseteq Live(g)
  <2> DEFINE r == f[i]
  <2>0. GoodRow(r, k) /\ r \in Row
    BY <1>2
  <2>1. StripHandoff(r) # <<>> => \E j \in 1 .. Len(g) : g[j] = StripHandoff(r)[1]
    BY <1>1
  <2> HIDE DEF r
  <2>2. ASSUME NEW v \in Row, StripHandoff(r) = <<v>> PROVE v.live \subseteq Live(g)
    <3>1. PICK j \in 1 .. Len(g) : g[j] = StripHandoff(r)[1]
      BY <2>1, <2>2
    <3>2. g[j] = v
      BY <2>2, <3>1
    <3> QED
      BY <1>1, <3>1, <3>2, LiveOfRow
  <2>3. r.handoff \in {"none", "merged", "standalone"} /\ r.text \in BOOLEAN
    BY <2>0 DEF Row
  <2>4. CASE r.handoff = "none"
    <3>1. StripHandoff(r) = <<r>>
      BY <2>0, <2>4, StripOne
    <3> QED
      BY <2>0, <2>2, <2>4, <3>1 DEF r
  <2>5. CASE r.handoff = "merged"
    <3>1. CASE r.text
      <4> DEFINE v == [r EXCEPT !.handoff = "none", !.sum = {}, !.after = {}]
      <4>1. StripHandoff(r) = <<v>>
        BY <2>0, <2>5, <3>1, StripOne
      <4>2. v \in Row /\ v.live = r.live
        BY <2>0 DEF Row
      <4> HIDE DEF v
      <4> QED
        BY <2>2, <2>5, <4>1, <4>2 DEF r
    <3>2. CASE ~r.text
      BY <2>0, <2>5, <3>2 DEF GoodRow, r
    <3> QED
      BY <3>1, <3>2
  <2>6. CASE r.handoff = "standalone"
    <3>0. r.live = {}
      BY <2>0, <2>6 DEF GoodRow
    <3>1. CASE r.after # {}
      <4> DEFINE v == [r EXCEPT !.handoff = "none", !.sum = {}, !.after = {},
                                !.live = r.after, !.text = TRUE]
      <4>1. StripHandoff(r) = <<v>>
        BY <2>0, <2>6, <3>1, StripOne
      <4>2. v \in Row /\ v.live = r.after
        BY <2>0 DEF Row
      <4> HIDE DEF v
      <4> QED
        BY <2>2, <3>0, <4>1, <4>2 DEF r
    <3>2. CASE r.after = {}
      BY <3>0, <3>2 DEF r
    <3> QED
      BY <3>1, <3>2
  <2> QED
    BY <2>3, <2>4, <2>5, <2>6
<1> QED
  BY <1>1, <1>4, <1>5 DEF g

-----------------------------------------------------------------------------
(* The scan: what is read, and what is left of head and tail. *)

\* The positions of handoffs, and the newest of them.
LEMMA HandoffPositions ==
    ASSUME NEW m \in Seq(Row)
    PROVE  /\ Handoffs(m) \in SUBSET Int
           /\ \A x \in Handoffs(m) : x >= 0 /\ x < Len(m) /\ m[x + 1].handoff # "none"
           /\ \A i \in 1 .. Len(m) : m[i].handoff # "none" => i - 1 \in Handoffs(m)
           /\ Handoffs(m) # {} => Max(Handoffs(m)) \in Handoffs(m)
           /\ \A x \in Handoffs(m) : x <= Max(Handoffs(m))
<1>0. Len(m) \in Int /\ Len(m) >= 0
  OBVIOUS
<1>1. Handoffs(m) = {x \in 0 .. Len(m) - 1 : m[x + 1].handoff # "none"}
  BY DEF Handoffs, Positions, At, IsContextSummary
<1>2. Handoffs(m) \in SUBSET Int /\ \A x \in Handoffs(m) : x <= Len(m)
  BY <1>0, <1>1
<1>3. \A x \in Handoffs(m) : x >= 0 /\ x < Len(m) /\ m[x + 1].handoff # "none"
  BY <1>0, <1>1
<1>4. ASSUME NEW i \in 1 .. Len(m), m[i].handoff # "none" PROVE i - 1 \in Handoffs(m)
  <2>1. i - 1 \in 0 .. Len(m) - 1 /\ i - 1 + 1 = i
    BY <1>0
  <2> QED
    BY <1>1, <1>4, <2>1
<1>5. Handoffs(m) # {} => Max(Handoffs(m)) \in Handoffs(m) /\ \A x \in Handoffs(m) : Max(Handoffs(m)) >= x
  BY <1>0, <1>2, MaxOf
<1>6. ASSUME NEW x \in Handoffs(m) PROVE x <= Max(Handoffs(m))
  <2>1. Max(Handoffs(m)) \in Handoffs(m) /\ Max(Handoffs(m)) >= x
    BY <1>5
  <2>2. x \in Int /\ Max(Handoffs(m)) \in Int
    BY <1>2, <2>1
  <2> QED
    BY <2>1, <2>2
<1> QED
  BY <1>2, <1>3, <1>4, <1>5, <1>6

\* A handoff outside the probe's reach that makes calls is the first row of the window.
LEMMA CallingCarrier ==
    ASSUME NEW k, NEW m, Shaped(m, k), NEW decayed \in BOOLEAN,
           NEW w, w = CompressWindow(m, decayed), w.start < w.end, w.start > 1,
           NEW c \in 1 .. Len(m), m[c].handoff # "none", m[c].calls # {}
    PROVE  c = w.start + 1
<1> DEFINE s == w.start
<1>0. m \in Seq(Row) /\ Len(m) \in Int /\ c \in Int /\ c >= 1 /\ c <= Len(m)
  BY DEF Shaped
<1>1. ProtectFirst \in Int /\ ProtectFirst >= 0
  BY WindowAssumption
<1>2. /\ s \in Int /\ s < Len(m) /\ ~RestartHandoffProbe(m)
      /\ s = AlignBoundaryForward(m, 1 + ProtectFirst)
      /\ \A i \in 1 .. s : m[i].handoff = "none"
  BY HeadRows
<1> HIDE DEF s
<1>3. c >= 2 + ProtectFirst
  <2>1. c # 1
    BY DEF Shaped
  <2>2. c \notin 2 .. 1 + ProtectFirst
    BY <1>0, <1>2, ProbeFinds
  <2> QED
    BY <1>0, <1>1, <2>1, <2>2
<1>4. c > s
  <2>1. ~(c \in 1 .. s)
    BY <1>2
  <2> QED
    BY <1>0, <1>2, <2>1
<1>5. m[c].role # "tool" /\ \A j \in 2 + ProtectFirst .. c - 1 : m[j].role = "tool"
  BY DEF Shaped, Placed
<1>6. At(m, s).role # "tool" /\ 1 + ProtectFirst <= s
  <2>1. 1 + ProtectFirst \in Int
    BY <1>1
  <2> QED
    BY <1>0, <1>2, <2>1, AlignForward
<1>7. m[s + 1].role # "tool"
  BY <1>6 DEF At
<1>8. ~(s + 1 <= c - 1)
  <2>1. ~(s + 1 \in 2 + ProtectFirst .. c - 1)
    BY <1>5, <1>7
  <2> QED
    BY <1>0, <1>1, <1>2, <1>6, <2>1
<1> QED
  BY <1>0, <1>2, <1>4, <1>8 DEF s

\* What the summarizer is given covers the rows between head and tail; the tail holds no
\* handoff, and begins with a tool row only after a head that is the system row alone.
LEMMA ScanRows ==
    ASSUME NEW k, NEW m, Shaped(m, k), NEW decayed \in BOOLEAN,
           NEW w, w = CompressWindow(m, decayed), w.start < w.end,
           NEW scan, scan = ScanWindowHandoffs(m, w)
    PROVE  /\ scan.tail \in Int /\ w.start < scan.tail /\ scan.tail <= Len(m)
           /\ \A i \in scan.tail + 1 .. Len(m) : m[i].handoff = "none"
           /\ w.start > 1 /\ scan.tail < Len(m) => m[scan.tail + 1].role # "tool"
           /\ scan.turns \in Seq(Row) /\ Live(scan.turns) \subseteq 0 .. k
           /\ \A i \in w.start + 1 .. scan.tail :
                 /\ m[i].live \subseteq Live(scan.turns)
                 /\ m[i].handoff = "standalone" => m[i].after \subseteq Live(scan.turns)
           /\ \/ scan.previous = NoSummary /\ \A i \in 1 .. Len(m) : m[i].handoff = "none"
              \/ scan.previous = IF previousSummary = NoSummary THEN Summaries(m) ELSE previousSummary
<1> DEFINE s == w.start
           e == w.end
           t == scan.tail
           n == Len(m)
           hits == Handoffs(m)
           newest == Max(hits)
<1>0. m \in Seq(Row) /\ n \in Nat
  BY DEF Shaped
<1>1. /\ s \in Nat /\ s >= 1 /\ s < n
      /\ \A i \in 1 .. s : m[i].handoff = "none"
  BY HeadRows
<1>2. e \in Int /\ e <= n /\ s < e /\ (e < n => m[e + 1].role # "tool")
  BY <1>0, WindowRange DEF At
<1>3. \A i \in 1 .. n : GoodRow(m[i], k)
  BY DEF Shaped
<1> HIDE DEF s, e, t
<1>4. CASE hits = {}
  <2>1. scan = [previous |-> NoSummary, turns |-> Slice(m, s, e), tail |-> e]
    BY <1>4 DEF ScanWindowHandoffs, s, e
  <2>2. \A i \in 1 .. n : m[i].handoff = "none"
    BY <1>0, <1>4, HandoffPositions
  <2> DEFINE f == Slice(m, s, e)
  <2>3. f \in Seq(Row) /\ Len(f) = e - s /\ \A j \in 1 .. e - s : f[j] = m[s + j]
    <3>1. /\ f \in Seq(Row) /\ Len(f) = (IF s < e THEN e - s ELSE 0)
          /\ \A j \in 1 .. e - s : f[j] = m[s + j]
      BY <1>0, <1>1, <1>2, SliceRows
    <3> QED
      BY <1>2, <3>1
  <2> HIDE DEF f
  <2>4. Live(f) \subseteq 0 .. k
    <3>1. ASSUME NEW j \in DOMAIN f PROVE f[j].live \subseteq 0 .. k
      <4>1. j \in 1 .. e - s /\ s + j \in 1 .. n
        BY <1>0, <1>1, <1>2, <2>3
      <4> QED
        BY <1>3, <2>3, <4>1 DEF GoodRow
    <3> QED
      BY <3>1 DEF Live
  <2>5. ASSUME NEW i \in s + 1 .. e PROVE m[i].live \subseteq Live(f) /\ m[i].handoff = "none"
    <3>1. i - s \in 1 .. Len(f) /\ s + (i - s) = i /\ i \in 1 .. n
      BY <1>0, <1>1, <1>2, <2>3
    <3>2. f[i - s] = m[i]
      BY <2>3, <3>1
    <3> QED
      BY <2>2, <2>3, <3>1, <3>2, LiveOfRow
  <2>6. t = e /\ scan.turns = f /\ scan.previous = NoSummary
    BY <2>1 DEF f, t
  <2>7. \A i \in e + 1 .. n : m[i].handoff = "none"
    BY <1>0, <1>1, <1>2, <2>2
  <2> QED
    BY <1>2, <2>2, <2>3, <2>4, <2>5, <2>6, <2>7 DEF s, e, t
<1>5. CASE hits # {}
  <2>1. scan = [previous |-> IF previousSummary = NoSummary THEN Summaries(m) ELSE previousSummary,
                turns |-> StripAll(Slice(m, s, newest + 1)) \o Slice(m, newest + 1, e),
                tail |-> Larger(e, newest + 1)]
    BY <1>5 DEF ScanWindowHandoffs, s, e
  <2>2. /\ newest \in hits /\ newest \in Int /\ newest >= 0 /\ newest < n
        /\ m[newest + 1].handoff # "none"
        /\ \A i \in 1 .. n : m[i].handoff # "none" => i - 1 <= newest
    BY <1>0, <1>5, HandoffPositions
  <2> HIDE DEF newest, hits
  <2>3. newest + 1 > s
    <3>1. ~(newest + 1 \in 1 .. s)
      BY <1>1, <2>2
    <3> QED
      BY <1>1, <2>2, <3>1
  <2> DEFINE p == newest + 1
             f == Slice(m, s, p)
             g == Slice(m, p, e)
             F == StripAll(f)
  <2>4. p \in Nat /\ p <= n /\ s < p /\ p \in 1 .. n
    BY <1>0, <1>1, <2>2, <2>3
  <2>5. m[p].handoff # "none" /\ \A i \in p + 1 .. n : m[i].handoff = "none"
    BY <1>0, <2>2
  <2>6. /\ scan.previous = IF previousSummary = NoSummary THEN Summaries(m) ELSE previousSummary
        /\ scan.turns = F \o g /\ t = Larger(e, p)
    BY <2>1 DEF t
  <2> HIDE DEF p
  <2>7. f \in Seq(Row) /\ Len(f) = p - s /\ \A j \in 1 .. p - s : f[j] = m[s + j]
    <3>0. s \in Nat /\ p \in Int /\ p <= Len(m) /\ m \in Seq(Row)
      BY <1>0, <1>1, <2>4
    <3>1. /\ f \in Seq(Row) /\ Len(f) = (IF s < p THEN p - s ELSE 0)
          /\ \A j \in 1 .. p - s : f[j] = m[s + j]
      BY <3>0, SliceRows
    <3> QED
      BY <2>4, <3>1
  <2>8. g \in Seq(Row) /\ Len(g) = (IF p < e THEN e - p ELSE 0) /\ \A j \in 1 .. e - p : g[j] = m[p + j]
    BY <1>0, <1>2, <2>4, SliceRows
  <2> HIDE DEF f, g
  <2>9. \A j \in 1 .. Len(f) : s + j \in 1 .. n /\ f[j] = m[s + j]
    BY <1>0, <1>1, <2>4, <2>7
  <2>10. \A j \in 1 .. Len(f) : GoodRow(f[j], k)
    BY <1>3, <2>9
  <2>11. /\ F \in Seq(Row) /\ Live(F) \subseteq 0 .. k
         /\ \A j \in 1 .. Len(f) : /\ f[j].live \subseteq Live(F)
                                   /\ f[j].handoff = "standalone" => f[j].after \subseteq Live(F)
    BY <2>7, <2>10, LiveOfStripped
  <2> HIDE DEF F
  <2>12. F \o g \in Seq(Row) /\ Live(F) \cup Live(g) = Live(F \o g)
    BY <2>8, <2>11, LiveOfConcat, ConcatProperties
  <2>13. \A j \in 1 .. Len(g) : p + j \in 1 .. n /\ j \in 1 .. e - p /\ g[j] = m[p + j]
    <3> SUFFICES ASSUME NEW j \in 1 .. Len(g)
                 PROVE  p + j \in 1 .. n /\ j \in 1 .. e - p /\ g[j] = m[p + j]
      OBVIOUS
    <3>1. p < e /\ Len(g) = e - p
      BY <2>8
    <3>2. j \in 1 .. e - p /\ p + j \in 1 .. n
      BY <1>0, <1>2, <2>4, <3>1
    <3> QED
      BY <2>8, <3>2
  <2>14. Live(g) \subseteq 0 .. k
    <3>1. ASSUME NEW j \in DOMAIN g PROVE g[j].live \subseteq 0 .. k
      <4>1. j \in 1 .. Len(g)
        BY <2>8
      <4> QED
        BY <1>3, <2>13, <4>1 DEF GoodRow
    <3> QED
      BY <3>1 DEF Live
  <2>15. t \in Int /\ t >= e /\ t >= p /\ (t = e \/ t = p)
    BY <1>2, <2>4, <2>6 DEF Larger
  <2>16. ASSUME NEW i \in s + 1 .. t
         PROVE  /\ m[i].live \subseteq Live(F \o g)
                /\ m[i].handoff = "standalone" => m[i].after \subseteq Live(F \o g)
    <3>1. CASE i <= p
      <4>1. i - s \in 1 .. Len(f) /\ s + (i - s) = i
        BY <1>1, <2>4, <2>7, <2>15, <3>1
      <4>2. f[i - s] = m[i]
        BY <2>9, <4>1
      <4> QED
        BY <2>11, <2>12, <4>1, <4>2
    <3>2. CASE ~(i <= p)
      <4>1. i - p \in 1 .. Len(g) /\ p + (i - p) = i /\ i \in p + 1 .. n
        BY <1>0, <1>1, <1>2, <2>4, <2>8, <2>15, <3>2
      <4>2. g[i - p] = m[i]
        BY <2>13, <4>1
      <4>3. m[i].handoff = "none"
        BY <2>5, <4>1
      <4> QED
        BY <2>8, <2>12, <4>1, <4>2, <4>3, LiveOfRow
    <3> QED
      BY <3>1, <3>2
  <2>17. ASSUME s > 1, t < n PROVE m[t + 1].role # "tool"
    <3>1. CASE t = e
      BY <1>2, <2>17, <3>1
    <3>2. CASE t # e
      <4>1. t = p /\ p > e
        BY <1>2, <2>4, <2>15, <3>2
      <4>2. m[p].calls = {}
        <5>1. SUFFICES ASSUME m[p].calls # {} PROVE FALSE
          OBVIOUS
        <5>2. p = s + 1
          BY <1>2, <2>4, <2>5, <2>17, <5>1, CallingCarrier DEF s, e
        <5> QED
          BY <1>1, <1>2, <4>1, <5>2
      <4>3. p + 1 \in 1 .. n /\ p + 1 - 1 = p
        BY <1>0, <2>4, <2>17, <4>1
      <4>4. m[p + 1].role = "tool" => m[p + 1].ans \in m[p].calls
        <5>1. Paired(m)
          BY DEF Shaped
        <5> DEFINE i == p + 1
        <5>2. i \in 1 .. Len(m) /\ i - 1 = p
          BY <2>4, <4>3
        <5> HIDE DEF i
        <5>3. m[i].role = "tool" => m[i].ans \in m[i - 1].calls
          BY <5>1, <5>2 DEF Paired
        <5> QED
          BY <5>2, <5>3 DEF i
      <4> QED
        BY <4>1, <4>2, <4>3, <4>4
    <3> QED
      BY <3>1, <3>2
  <2>18. \A i \in t + 1 .. n : m[i].handoff = "none"
    BY <1>0, <2>4, <2>5, <2>15
  <2>19. s < t /\ t <= n
    BY <1>0, <1>1, <1>2, <2>4, <2>15
  <2> QED
    BY <2>6, <2>11, <2>12, <2>14, <2>15, <2>16, <2>17, <2>18, <2>19 DEF s, e, t
<1> QED
  BY <1>4, <1>5

-----------------------------------------------------------------------------
(* Assembly: the summary put between head and tail, or into the tail. *)

\* The row says x: as its own text, in the summary it carries, or after a summary that stands
\* alone.
Says(r, x) ==
    \/ x \in r.live
    \/ x \in r.sum
    \/ r.handoff = "standalone" /\ x \in r.after

\* A row other than a tool result says x.
Kept(m, x) == \E i \in 1 .. Len(m) : m[i].role # "tool" /\ Says(m[i], x)

\* A is put together from the first s rows of m, the rows after the first t, and the summary body
\* in its row c; a tool row stands after its call, or no row before it makes any.
Assembled(A, c, m, s, t, body, k) ==
    /\ A \in Seq(Row) /\ c \in 1 .. Len(A)
    /\ \A i \in 1 .. Len(A) : GoodRow(A[i], k)
    /\ A[1] = m[1]
    /\ \A i \in 1 .. Len(A) : A[i].handoff # "none" <=> i = c
    /\ A[c].sum = body /\ A[c].role # "tool"
    /\ A[c].calls = {} \/ \A j \in 2 + ProtectFirst .. c - 1 : A[j].role = "tool"
    /\ \A i \in 1 .. Len(A) : A[i].role = "tool" =>
          \/ i > 1 /\ A[i - 1].role = "assistant" /\ A[i].ans \in A[i - 1].calls
          \/ \A j \in 1 .. i - 1 : A[j].calls = {}
    /\ \A i \in (1 .. s) \cup (t + 1 .. Len(m)) : \A x \in m[i].live :
          m[i].role # "tool" => Kept(A, x)

\* The merged row is the row with the summary, and what it said stays before or after it.
LEMMA MergedRow ==
    ASSUME NEW k \in Nat, NEW r, GoodRow(r, k), r.handoff = "none",
           NEW body \in SUBSET (1 .. k), NEW force \in BOOLEAN,
           NEW M, M = MergeSummaryIntoTailRow(r, body, force)
    PROVE  /\ GoodRow(M, k) /\ M.role = r.role /\ M.calls = r.calls /\ M.ans = r.ans
           /\ M.handoff # "none" /\ M.sum = body
           /\ \A x \in r.live : Says(M, x)
<1>0. r \in Row
  BY DEF GoodRow
<1>1. body \subseteq Nat
  OBVIOUS
<1>2. CASE force
  <2> DEFINE kd == IF r.kind = "blank" THEN "plain" ELSE r.kind
  <2>1. M = [r EXCEPT !.handoff = "standalone", !.sum = body, !.live = {},
                      !.after = r.live, !.text = TRUE, !.kind = kd]
    BY <1>0, <1>2 DEF MergeSummaryIntoTailRow, Row
  <2>2. kd \in {"plain", "scaffold"}
    BY <1>0 DEF Row
  <2> HIDE DEF kd
  <2>5. M \in Row
    BY ONLY <1>0, <1>1, <2>1, <2>2 DEF Row
  <2>6. /\ M.role = r.role /\ M.calls = r.calls /\ M.ans = r.ans
        /\ M.handoff = "standalone" /\ M.sum = body /\ M.live = {} /\ M.after = r.live
        /\ M.text = TRUE /\ M.kind = kd
    BY ONLY <1>0, <2>1 DEF Row
  <2>3. /\ M \in Row /\ M.role = r.role /\ M.calls = r.calls /\ M.ans = r.ans
        /\ M.handoff = "standalone" /\ M.sum = body /\ M.live = {} /\ M.after = r.live
        /\ M.text = TRUE /\ M.kind = kd
    BY ONLY <2>5, <2>6
  <2>4. GoodRow(M, k)
    BY <2>2, <2>3 DEF GoodRow
  <2> QED
    BY <2>3, <2>4 DEF Says
<1>3. CASE ~force
  <2>1. M = [r EXCEPT !.handoff = "merged", !.sum = body]
    BY <1>3 DEF MergeSummaryIntoTailRow
  <2>2. M \in Row
    BY ONLY <1>0, <1>1, <2>1 DEF Row
  <2>5. /\ M.role = r.role /\ M.calls = r.calls /\ M.ans = r.ans
        /\ M.handoff = "merged" /\ M.sum = body /\ M.live = r.live /\ M.after = r.after
        /\ M.text = r.text /\ M.kind = r.kind
    BY ONLY <1>0, <2>1 DEF Row
  <2>3. /\ M \in Row /\ M.role = r.role /\ M.calls = r.calls /\ M.ans = r.ans
        /\ M.handoff = "merged" /\ M.sum = body /\ M.live = r.live /\ M.after = r.after
        /\ M.text = r.text /\ M.kind = r.kind
    BY ONLY <2>2, <2>5
  <2>4. GoodRow(M, k)
    BY <2>3 DEF GoodRow
  <2> QED
    BY <2>3, <2>4 DEF Says
<1> QED
  BY <1>2, <1>3

\* A new summary row is good.
LEMMA NewSummaryRow ==
    ASSUME NEW k \in Nat, NEW role \in {"user", "assistant"}, NEW body \in SUBSET (1 .. k)
    PROVE  LET M == SummaryRow(role, body)
           IN  /\ GoodRow(M, k) /\ M.role = role /\ M.calls = {} /\ M.handoff = "standalone"
               /\ M.sum = body
<1> DEFINE M == SummaryRow(role, body)
<1>1. body \subseteq Nat
  OBVIOUS
<1>2. PlainRow(role, 0) \in Row
  BY DEF PlainRow, Row
<1>3. /\ M.role = role /\ M.calls = {} /\ M.handoff = "standalone" /\ M.sum = body
      /\ M.live = {} /\ M.after = {} /\ M.text = TRUE /\ M.kind = "plain"
  BY DEF SummaryRow, PlainRow
<1>4. M \in Row
  BY <1>1, <1>2 DEF SummaryRow, Row
<1> HIDE DEF M
<1>5. GoodRow(M, k)
  BY <1>3, <1>4 DEF GoodRow
<1> QED
  BY <1>3, <1>5 DEF M

\* A row the first visible one of a tail is no tool row and makes no call.
LEMMA FirstVisibleRow ==
    ASSUME NEW k, NEW f \in Seq(Row), \A i \in 1 .. Len(f) : GoodRow(f[i], k), FirstVisible(f) >= 0
    PROVE  /\ FirstVisible(f) \in Int /\ FirstVisible(f) + 1 \in 1 .. Len(f)
           /\ f[FirstVisible(f) + 1].role # "tool" /\ f[FirstVisible(f) + 1].calls = {}
<1> DEFINE seen == {i \in Positions(f, 0) : VisibleRole(At(f, i)) # "none"}
<1>0. Len(f) \in Int
  OBVIOUS
<1>1. seen \in SUBSET Int /\ \A x \in seen : 0 <= x
  BY <1>0 DEF Positions
<1>2. FirstVisible(f) = IF seen = {} THEN -1 ELSE Min(seen)
  BY DEF FirstVisible
<1>3. seen # {}
  BY <1>2
<1> HIDE DEF seen
<1>4. Min(seen) \in seen
  BY <1>1, <1>3, MinOf
<1> DEFINE v == FirstVisible(f)
<1>5. v \in seen
  BY <1>2, <1>3, <1>4
<1> HIDE DEF v
<1>6. v \in 0 .. Len(f) - 1 /\ VisibleRole(f[v + 1]) # "none"
  BY <1>5 DEF seen, Positions, At
<1>7. v \in Int /\ v + 1 \in 1 .. Len(f)
  BY <1>0, <1>6
<1>8. f[v + 1].role # "tool" /\ ~(f[v + 1].role = "assistant" /\ f[v + 1].calls # {})
  BY <1>6 DEF VisibleRole
<1>9. f[v + 1].calls = {}
  BY <1>7, <1>8 DEF GoodRow
<1> QED
  BY <1>7, <1>8, <1>9 DEF v

\* The roles a summary may get; it leads after a head that is the system row alone.
LEMMA PlacementFacts ==
    ASSUME NEW head \in Seq(Row), NEW tail \in Seq(Row), NEW s \in Nat
    PROVE  LET place == SummaryPlacement(head, tail, s)
           IN  /\ place.role \in {"user", "assistant"} /\ place.force \in BOOLEAN
               /\ place.merge \in BOOLEAN
               /\ place.merge => FirstVisible(tail) >= 0
               /\ Len(head) = 1 /\ head[1].role = "system" => place.force
<1> DEFINE lastHead == IF head = <<>> THEN "user" ELSE LastVisibleRole(head)
           force == \/ s = 0 \/ lastHead = "system"
                    \/ ~ \E i \in DOMAIN (head \o tail) :
                           (head \o tail)[i].role = "user" /\ (head \o tail)[i].text
           role == IF force \/ lastHead \in {"none", "assistant", "tool"} THEN "user" ELSE "assistant"
           collides == FirstVisible(tail) >= 0 /\ VisibleRole(At(tail, FirstVisible(tail))) = role
           flips == collides /\ ~force /\ lastHead \notin {"none", Flipped(role)}
           place == [role |-> IF flips THEN Flipped(role) ELSE role,
                     merge |-> collides /\ ~flips, force |-> force]
<1>1. SummaryPlacement(head, tail, s) = place
  BY DEF SummaryPlacement
<1>2. Len(head) = 1 /\ head[1].role = "system" => lastHead = "system"
  <2> SUFFICES ASSUME Len(head) = 1, head[1].role = "system" PROVE lastHead = "system"
    OBVIOUS
  <2> DEFINE seen == {i \in Positions(head, 0) : VisibleRole(At(head, i)) # "none"}
  <2>1. \A i \in Positions(head, 0) : i = 0 /\ At(head, i) = head[1]
    BY DEF Positions, At
  <2>2. 0 \in Positions(head, 0)
    BY DEF Positions
  <2>3. VisibleRole(head[1]) = "system"
    BY DEF VisibleRole
  <2>4. seen = {0}
    BY <2>1, <2>2, <2>3
  <2>5. seen \in SUBSET Int /\ seen # {} /\ \A x \in seen : x <= 0
    BY <2>4
  <2>6. LastVisibleRole(head) = IF seen = {} THEN "none" ELSE VisibleRole(At(head, Max(seen)))
    BY DEF LastVisibleRole
  <2> HIDE DEF seen
  <2>7. Max(seen) \in seen
    BY <2>5, MaxOf
  <2>8. Max(seen) = 0
    BY <2>4, <2>7
  <2>9. At(head, Max(seen)) = head[1]
    BY <2>1, <2>2, <2>8
  <2>10. head # <<>>
    <3>1. Len(head) # 0
      OBVIOUS
    <3> QED
      BY <3>1, EmptySeq
  <2> QED
    BY <2>3, <2>5, <2>6, <2>9, <2>10
<1> HIDE DEF lastHead
<1>3. force \in BOOLEAN /\ (lastHead = "system" => force)
  OBVIOUS
<1> HIDE DEF force
<1>4. role \in {"user", "assistant"} /\ Flipped(role) \in {"user", "assistant"}
  BY DEF Flipped
<1>5. (collides /\ ~flips) \in BOOLEAN /\ (collides => FirstVisible(tail) >= 0)
  OBVIOUS
<1>6. /\ place.role \in {"user", "assistant"} /\ place.force = force
      /\ place.merge = (collides /\ ~flips)
  BY <1>4
<1> HIDE DEF role, collides, flips, place
<1> QED
  BY <1>1, <1>2, <1>3, <1>5, <1>6

\* A is the first s rows of m, the rows after the first t, and a row c, R, with the summary: a row
\* of its own right after the head (d = 1), or one of the tail's rows with the summary in it (d = 0).
Spliced(A, c, d, R, m, s, t) ==
    /\ A \in Seq(Row) /\ d \in {0, 1} /\ c \in s + 1 .. Len(A) /\ A[c] = R
    /\ Len(A) = Len(m) - t + s + d
    /\ \A i \in 1 .. s : A[i] = m[i]
    /\ \A i \in s + 1 .. Len(A) : i # c => A[i] = m[i - s + t - d]
    /\ d = 1 => c = s + 1 /\ A[c].calls = {}
    /\ d = 0 => /\ A[c].role = m[c - s + t].role /\ A[c].calls = m[c - s + t].calls
                /\ \A x \in m[c - s + t].live : Says(A[c], x)

\* Where a row of the spliced transcript comes from.
LEMMA SplicedRow ==
    ASSUME NEW m \in Seq(Row), NEW s \in Int, NEW t \in Int, 1 <= s, s < t, t <= Len(m),
           NEW A, NEW c, NEW d, NEW R, Spliced(A, c, d, R, m, s, t), NEW i \in 1 .. Len(A), i # c
    PROVE  \/ i <= s /\ i \in 1 .. Len(m) /\ A[i] = m[i]
           \/ i > s /\ i - s + t - d \in t + 1 .. Len(m) /\ A[i] = m[i - s + t - d]
<1>0. Len(m) \in Int /\ i \in Int /\ d \in Int /\ d >= 0 /\ d <= 1 /\ Len(A) \in Int /\ c \in Int
  BY DEF Spliced
<1>1. CASE i <= s
  BY <1>0, <1>1 DEF Spliced
<1>2. CASE i > s
  <2>1. i \in s + 1 .. Len(A) /\ A[i] = m[i - s + t - d] /\ Len(A) = Len(m) - t + s + d
    BY <1>0, <1>2 DEF Spliced
  <2>2. d = 1 => i # s + 1
    BY DEF Spliced
  <2>3. i - s + t - d >= t + 1 /\ i - s + t - d <= Len(m)
    <3>1. CASE d = 0
      BY <1>0, <1>2, <2>1, <3>1
    <3>2. CASE d = 1
      BY <1>0, <1>2, <2>1, <2>2, <3>2
    <3> QED
      BY <1>0, <3>1, <3>2
  <2> QED
    BY <1>0, <1>2, <2>1, <2>3
<1> QED
  BY <1>0, <1>1, <1>2

\* A tool row of the spliced transcript stands after its call, or after no call at all.
LEMMA SplicedTools ==
    ASSUME NEW k, NEW m, Shaped(m, k), NEW s \in Int, NEW t \in Int, 1 <= s, s < t, t <= Len(m),
           s > 1 /\ t < Len(m) => m[t + 1].role # "tool",
           NEW A, NEW c, NEW d, NEW R, Spliced(A, c, d, R, m, s, t), A[c].role # "tool",
           NEW i \in 1 .. Len(A), A[i].role = "tool"
    PROVE  \/ i > 1 /\ A[i - 1].role = "assistant" /\ A[i].ans \in A[i - 1].calls
           \/ \A j \in 1 .. i - 1 : A[j].calls = {}
<1>0. /\ m \in Seq(Row) /\ Len(m) \in Int /\ i \in Int /\ i >= 1 /\ d \in Int /\ c \in Int
      /\ Len(A) \in Int /\ i <= Len(A) /\ c >= s + 1 /\ c <= Len(A)
  BY DEF Spliced, Shaped
<1>1. i # c
  OBVIOUS
<1>2. m[1].calls = {}
  <2>1. 1 \in 1 .. Len(m)
    BY <1>0
  <2>2. GoodRow(m[1], k) /\ m[1].role = "system"
    BY <2>1 DEF Shaped
  <2> QED
    BY <2>2 DEF GoodRow
<1>3. A[1] = m[1]
  <2>1. 1 \in 1 .. s
    OBVIOUS
  <2> QED
    BY <2>1 DEF Spliced
<1>4. CASE i <= s
  <2>1. i \in 1 .. Len(m) /\ A[i] = m[i]
    BY <1>0, <1>4 DEF Spliced
  <2>2. i > 1 /\ m[i - 1].role = "assistant" /\ m[i].ans \in m[i - 1].calls
    BY <2>1 DEF Shaped, Paired
  <2>3. i - 1 \in 1 .. s
    BY <1>0, <1>4, <2>2
  <2>4. A[i - 1] = m[i - 1]
    BY <2>3 DEF Spliced
  <2> QED
    BY <2>1, <2>2, <2>4
<1>5. CASE i > s
  <2> DEFINE q == i - s + t - d
  <2>1. q \in t + 1 .. Len(m) /\ A[i] = m[q]
    <3>1. \/ i <= s /\ i \in 1 .. Len(m) /\ A[i] = m[i]
          \/ i > s /\ i - s + t - d \in t + 1 .. Len(m) /\ A[i] = m[i - s + t - d]
      <4>1. /\ m \in Seq(Row) /\ s \in Int /\ t \in Int /\ 1 <= s /\ s < t /\ t <= Len(m)
            /\ Spliced(A, c, d, R, m, s, t) /\ i \in 1 .. Len(A) /\ i # c
        BY <1>0, <1>1
      <4> HIDE DEF q
      <4> QED
        BY ONLY <4>1, SplicedRow
    <3> QED
      BY <1>0, <1>5, <3>1
  <2>2. q \in Int /\ q = i - s + t - d /\ q \in 1 .. Len(m)
    BY <1>0, <2>1
  <2> HIDE DEF q
  <2>3. q > 1 /\ m[q - 1].role = "assistant" /\ m[q].ans \in m[q - 1].calls
    BY <2>1, <2>2 DEF Shaped, Paired
  <2>4. CASE q = t + 1
    <3>1. s = 1
      <4>1. t < Len(m) /\ m[t + 1].role = "tool"
        BY <1>0, <2>1, <2>4
      <4> QED
        BY <4>1
    <3>2. CASE d = 0
      <4>1. i = 2
        BY <1>0, <2>2, <2>4, <3>1, <3>2
      <4> QED
        BY <1>2, <1>3, <4>1
    <3>3. CASE d = 1
      <4>1. c = s + 1 /\ A[c].calls = {}
        BY ONLY <1>0, <3>3, Spliced(A, c, d, R, m, s, t) DEF Spliced
      <4>4. i = 3 /\ c = 2
        BY ONLY <1>0, <2>2, <2>4, <3>1, <3>3, <4>1
      <4>2. A[2].calls = {}
        BY ONLY <4>1, <4>4
      <4>3. \A j \in 1 .. i - 1 : j = 1 \/ j = 2
        BY ONLY <4>4
      <4> QED
        BY <1>2, <1>3, <4>2, <4>3
    <3> QED
      BY <3>2, <3>3 DEF Spliced
  <2>5. CASE q # t + 1
    <3>1. i - 1 \in s + 1 .. Len(A) /\ q - 1 = i - 1 - s + t - d /\ i > 1
      <4>1. d = 0 \/ d = 1
        BY DEF Spliced
      <4>2. q >= t + 2
        <5>1. t \in Int /\ q \in Int /\ q \in t + 1 .. Len(m) /\ q # t + 1 /\ Len(m) \in Int
          BY <1>0, <2>1, <2>2, <2>5
        <5> QED
          BY ONLY <5>1
      <4> QED
        BY <1>0, <2>2, <4>1, <4>2
    <3>2. CASE i - 1 # c
      <4>1. A[i - 1] = m[q - 1]
        BY <3>1, <3>2 DEF Spliced
      <4> QED
        BY <2>1, <2>3, <3>1, <4>1
    <3>3. CASE i - 1 = c
      <4>1. d = 0
        <5>1. SUFFICES ASSUME d = 1 PROVE FALSE
          BY DEF Spliced
        <5>2. c = s + 1
          BY <5>1 DEF Spliced
        <5> QED
          BY <1>0, <2>2, <2>5, <3>3, <5>1, <5>2
      <4>2. c - s + t = q - 1
        BY <1>0, <3>1, <3>3, <4>1
      <4>3. A[i - 1].role = m[q - 1].role /\ A[i - 1].calls = m[q - 1].calls
        BY <3>3, <4>1, <4>2 DEF Spliced
      <4> QED
        BY <2>1, <2>3, <3>1, <4>3
    <3> QED
      BY <3>2, <3>3
  <2> QED
    BY <2>4, <2>5
<1> QED
  BY <1>0, <1>4, <1>5

\* What the rows of m outside the replaced ones say is said in the spliced transcript.
LEMMA SplicedKeeps ==
    ASSUME NEW m \in Seq(Row), NEW s \in Int, NEW t \in Int, 1 <= s, s < t, t <= Len(m),
           NEW A, NEW c, NEW d, NEW R, Spliced(A, c, d, R, m, s, t), A[c].role # "tool",
           NEW i \in (1 .. s) \cup (t + 1 .. Len(m)), m[i].role # "tool", NEW x, Says(m[i], x),
           m[i].handoff = "none", m[i].sum = {}
    PROVE  Kept(A, x)
<1>0. Len(m) \in Int /\ Len(A) \in Int /\ c \in Int /\ d \in Int /\ i \in Int
  BY DEF Spliced
<1>1. x \in m[i].live
  BY DEF Says
<1>2. CASE i \in 1 .. s
  <2>1. A[i] = m[i] /\ i \in 1 .. Len(A)
    BY <1>0, <1>2 DEF Spliced
  <2> QED
    BY <2>1 DEF Kept
<1>3. CASE i \in t + 1 .. Len(m)
  <2> DEFINE q == i - t + s + d
  <2>1. q \in s + 1 .. Len(A) /\ q - s + t - d = i /\ q \in 1 .. Len(A) /\ q \in Int
    BY <1>0, <1>3 DEF Spliced
  <2> HIDE DEF q
  <2>2. CASE q # c
    <3>1. A[q] = m[i]
      BY <2>1, <2>2 DEF Spliced
    <3> QED
      BY <2>1, <3>1 DEF Kept
  <2>3. CASE q = c
    <3>1. d = 0
      <4>1. SUFFICES ASSUME d = 1 PROVE FALSE
        BY DEF Spliced
      <4>2. c = s + 1
        BY <4>1 DEF Spliced
      <4> QED
        BY <1>0, <1>3, <2>1, <2>3, <4>1, <4>2
    <3>2. c - s + t = i
      BY <1>0, <2>1, <2>3, <3>1
    <3>3. Says(A[c], x)
      BY <1>1, <3>1, <3>2 DEF Spliced
    <3> QED
      BY <2>1, <2>3, <3>3 DEF Kept
  <2> QED
    BY <2>2, <2>3
<1> QED
  BY <1>2, <1>3

\* A spliced transcript with a good summary row is an assembled one.
LEMMA SplicedAssembled ==
    ASSUME NEW k, NEW m, Shaped(m, k), NEW s \in Int, NEW t \in Int, 1 <= s, s < t, t <= Len(m),
           s > 1 /\ t < Len(m) => m[t + 1].role # "tool",
           \A i \in (1 .. s) \cup (t + 1 .. Len(m)) : m[i].handoff = "none",
           NEW A, NEW c, NEW d, NEW R, Spliced(A, c, d, R, m, s, t), NEW body,
           GoodRow(A[c], k), A[c].role # "tool", A[c].handoff # "none", A[c].sum = body,
           A[c].calls = {} \/ \A j \in 2 + ProtectFirst .. c - 1 : A[j].role = "tool"
    PROVE  Assembled(A, c, m, s, t, body, k)
<1>0. /\ m \in Seq(Row) /\ Len(m) \in Int /\ A \in Seq(Row) /\ Len(A) \in Int
      /\ c \in Int /\ s + 1 <= c /\ c <= Len(A)
  BY DEF Spliced, Shaped
<1>1. c \in 1 .. Len(A)
  BY <1>0
<1>2. ASSUME NEW i \in 1 .. Len(A), i # c
      PROVE  GoodRow(A[i], k) /\ A[i].handoff = "none"
  <2>1. \/ i <= s /\ i \in 1 .. Len(m) /\ A[i] = m[i]
        \/ i > s /\ i - s + t - d \in t + 1 .. Len(m) /\ A[i] = m[i - s + t - d]
    <3>1. i \in 1 .. Len(A) /\ i # c
      BY <1>2
    <3> QED
      BY <1>0, <3>1, SplicedRow
  <2>2. CASE i <= s /\ i \in 1 .. Len(m) /\ A[i] = m[i]
    <3>1. i \in 1 .. s
      BY <2>2
    <3> QED
      BY <2>2, <3>1 DEF Shaped
  <2>3. CASE i - s + t - d \in t + 1 .. Len(m) /\ A[i] = m[i - s + t - d]
    <3> DEFINE q == i - s + t - d
    <3>1. q \in t + 1 .. Len(m) /\ A[i] = m[q]
      BY <2>3
    <3> HIDE DEF q
    <3>2. q \in 1 .. Len(m)
      BY <1>0, <3>1
    <3> QED
      BY <3>1, <3>2 DEF Shaped
  <2> QED
    BY <2>1, <2>2, <2>3
<1>3. \A i \in 1 .. Len(A) : GoodRow(A[i], k)
  BY <1>2
<1>4. \A i \in 1 .. Len(A) : A[i].handoff # "none" <=> i = c
  BY <1>2
<1>5. A[1] = m[1]
  <2>1. 1 \in 1 .. s
    OBVIOUS
  <2> QED
    BY <2>1 DEF Spliced
<1>6. ASSUME NEW i \in 1 .. Len(A), A[i].role = "tool"
      PROVE  \/ i > 1 /\ A[i - 1].role = "assistant" /\ A[i].ans \in A[i - 1].calls
             \/ \A j \in 1 .. i - 1 : A[j].calls = {}
  BY <1>6, SplicedTools
<1>7. ASSUME NEW i \in (1 .. s) \cup (t + 1 .. Len(m)), NEW x \in m[i].live, m[i].role # "tool"
      PROVE  Kept(A, x)
  <2>1. i \in 1 .. Len(m) /\ m[i].handoff = "none"
    BY <1>0, <1>7
  <2>2. m[i].sum = {}
    BY <2>1 DEF Shaped, GoodRow
  <2>3. Says(m[i], x)
    BY DEF Says
  <2> QED
    BY <1>0, <1>7, <2>1, <2>2, <2>3, SplicedKeeps
<1>8. /\ A \in Seq(Row) /\ c \in 1 .. Len(A) /\ A[c].sum = body /\ A[c].role # "tool"
      /\ A[c].calls = {} \/ \A j \in 2 + ProtectFirst .. c - 1 : A[j].role = "tool"
  BY <1>0, <1>1
<1> QED
  BY <1>3, <1>4, <1>5, <1>6, <1>7, <1>8 DEF Assembled

\* The protected head and the tail, row by row.
LEMMA HeadTailRows ==
    ASSUME NEW m \in Seq(Row), NEW s \in Int, NEW t \in Int, 1 <= s, s < t, t <= Len(m)
    PROVE  /\ Slice(m, 0, s) \in Seq(Row) /\ Len(Slice(m, 0, s)) = s
           /\ \A j \in 1 .. s : Slice(m, 0, s)[j] = m[j]
           /\ Slice(m, t, Len(m)) \in Seq(Row) /\ Len(Slice(m, t, Len(m))) = Len(m) - t
           /\ \A j \in 1 .. Len(m) - t : Slice(m, t, Len(m))[j] = m[t + j]
<1>0. Len(m) \in Int /\ s \in Nat /\ t \in Nat /\ Len(m) <= Len(m) /\ s <= Len(m) /\ 0 \in Nat
  OBVIOUS
<1>1. /\ Slice(m, 0, s) \in Seq(Row) /\ Len(Slice(m, 0, s)) = (IF 0 < s THEN s - 0 ELSE 0)
      /\ \A j \in 1 .. s - 0 : Slice(m, 0, s)[j] = m[0 + j]
  <2>1. m \in Seq(Row) /\ 0 \in Nat /\ s \in Int /\ s <= Len(m)
    BY <1>0
  <2> QED
    BY ONLY <2>1, SliceRows
<1>2. /\ Slice(m, t, Len(m)) \in Seq(Row)
      /\ Len(Slice(m, t, Len(m))) = (IF t < Len(m) THEN Len(m) - t ELSE 0)
      /\ \A j \in 1 .. Len(m) - t : Slice(m, t, Len(m))[j] = m[t + j]
  <2>1. m \in Seq(Row) /\ t \in Nat /\ Len(m) \in Int /\ Len(m) <= Len(m)
    BY <1>0
  <2> QED
    BY ONLY <2>1, SliceRows
<1>3. Len(Slice(m, 0, s)) = s /\ Len(Slice(m, t, Len(m))) = Len(m) - t
  BY <1>0, <1>1, <1>2
<1>4. \A j \in 1 .. s : Slice(m, 0, s)[j] = m[j]
  <2>1. \A j \in 1 .. s : j \in 1 .. s - 0 /\ 0 + j = j
    OBVIOUS
  <2> QED
    BY <1>1, <2>1
<1> QED
  BY <1>1, <1>2, <1>3, <1>4

\* The rows of m before the replaced ones, and those after them.
HeadTail(head, tail, m, s, t) ==
    /\ head \in Seq(Row) /\ Len(head) = s /\ \A j \in 1 .. s : head[j] = m[j]
    /\ tail \in Seq(Row) /\ Len(tail) = Len(m) - t
    /\ \A j \in 1 .. Len(m) - t : tail[j] = m[t + j]

\* The assembled transcript when the summary has a row of its own.
LEMMA SummaryRowSpliced ==
    ASSUME NEW m \in Seq(Row), NEW s \in Int, NEW t \in Int, 1 <= s, s < t, t <= Len(m),
           NEW head, NEW tail, HeadTail(head, tail, m, s, t),
           NEW R \in Row, R.calls = {}, NEW A, A = (head \o <<R>>) \o tail
    PROVE  Spliced(A, s + 1, 1, R, m, s, t)
<1>rows. /\ head \in Seq(Row) /\ Len(head) = s /\ \A j \in 1 .. s : head[j] = m[j]
       /\ tail \in Seq(Row) /\ Len(tail) = Len(m) - t
       /\ \A j \in 1 .. Len(m) - t : tail[j] = m[t + j]
  BY DEF HeadTail
<1>0. Len(m) \in Int
  OBVIOUS
<1>1. PICK lead : lead = head \o <<R>>
  OBVIOUS
<1>2. /\ lead \in Seq(Row) /\ Len(lead) = s + 1 /\ lead[s + 1] = R
      /\ \A i \in 1 .. s : lead[i] = m[i]
  <2>1. /\ head \o <<R>> \in Seq(Row) /\ Len(head \o <<R>>) = s + 1
        /\ (head \o <<R>>)[s + 1] = R /\ \A i \in 1 .. s : (head \o <<R>>)[i] = head[i]
    BY ONLY <1>rows, R \in Row, s \in Int
  <2> QED
    BY ONLY <1>1, <2>1, <1>rows
<1>4. /\ lead \o tail \in Seq(Row) /\ Len(lead \o tail) = Len(lead) + Len(tail)
      /\ \A i \in 1 .. Len(lead) + Len(tail) :
           (lead \o tail)[i] = IF i <= Len(lead) THEN lead[i] ELSE tail[i - Len(lead)]
  <2>1. lead \in Seq(Row) /\ tail \in Seq(Row)
    BY <1>2, <1>rows
  <2> QED
    BY ONLY <2>1, ConcatProperties
<1>5. /\ A \in Seq(Row) /\ Len(A) = Len(m) - t + s + 1
      /\ \A i \in 1 .. Len(A) : A[i] = IF i <= s + 1 THEN lead[i] ELSE tail[i - (s + 1)]
  <2>0. A = lead \o tail
    BY ONLY <1>1, A = (head \o <<R>>) \o tail
  <2>1. A \in Seq(Row) /\ Len(A) = (s + 1) + (Len(m) - t)
    BY ONLY <1>2, <1>4, <2>0, <1>rows
  <2>2. Len(A) = Len(m) - t + s + 1
    BY ONLY <1>0, <2>1, s \in Int, t \in Int
  <2>3. \A i \in 1 .. Len(A) : A[i] = IF i <= s + 1 THEN lead[i] ELSE tail[i - (s + 1)]
    BY ONLY <1>2, <1>4, <2>0
  <2> QED
    BY <2>1, <2>2, <2>3
<1>6. A[s + 1] = R /\ \A i \in 1 .. s : A[i] = m[i]
  <2>1. /\ s + 1 \in 1 .. Len(A) /\ s + 1 <= s + 1
        /\ \A i \in 1 .. s : i \in 1 .. Len(A) /\ i <= s + 1
    BY ONLY <1>0, <1>5, s \in Int, t \in Int, 1 <= s, s < t, t <= Len(m)
  <2> QED
    BY ONLY <1>2, <1>5, <2>1
<1>7. ASSUME NEW i \in s + 1 .. Len(A), i # s + 1 PROVE A[i] = m[i - s + t - 1]
  <2>1. PICK j : j = i - (s + 1)
    OBVIOUS
  <2>2. /\ i \in 1 .. Len(A) /\ ~(i <= s + 1) /\ j \in 1 .. Len(m) - t
        /\ t + j = i - s + t - 1
    BY ONLY <1>0, <1>5, <1>7, <2>1, s \in Int, t \in Int, 1 <= s
  <2>3. A[i] = tail[j]
    BY ONLY <1>5, <2>1, <2>2
  <2>4. tail[j] = m[t + j]
    BY <1>rows, <2>2
  <2> QED
    BY ONLY <2>2, <2>3, <2>4
<1>8. s + 1 \in s + 1 .. Len(A)
  BY ONLY <1>0, <1>5, s \in Int, t \in Int, t <= Len(m)
<1>9. A \in Seq(Row) /\ Len(A) = Len(m) - t + s + 1
  BY ONLY <1>5
<1>10. A[s + 1].calls = {}
  BY ONLY <1>6, R.calls = {}
<1> QED
  BY ONLY <1>6, <1>7, <1>8, <1>9, <1>10 DEF Spliced

\* The assembled transcript when the summary goes into the tail's row v.
LEMMA MergeSpliced ==
    ASSUME NEW m \in Seq(Row), NEW s \in Int, NEW t \in Int, 1 <= s, s < t, t <= Len(m),
           NEW head, NEW tail, HeadTail(head, tail, m, s, t),
           NEW v \in 1 .. Len(m) - t, NEW R \in Row, R.role = m[t + v].role,
           R.calls = m[t + v].calls, \A x \in m[t + v].live : Says(R, x),
           NEW A, A = head \o [tail EXCEPT ![v] = R]
    PROVE  Spliced(A, s + v, 0, R, m, s, t)
<1>rows. /\ head \in Seq(Row) /\ Len(head) = s /\ \A j \in 1 .. s : head[j] = m[j]
       /\ tail \in Seq(Row) /\ Len(tail) = Len(m) - t
       /\ \A j \in 1 .. Len(m) - t : tail[j] = m[t + j]
  BY DEF HeadTail
<1>0. Len(m) \in Int /\ v \in Int /\ v >= 1 /\ v <= Len(m) - t
  BY ONLY v \in 1 .. Len(m) - t, m \in Seq(Row), t \in Int
<1>1. PICK new : new = [tail EXCEPT ![v] = R]
  OBVIOUS
<1>2. new \in Seq(Row) /\ Len(new) = Len(m) - t
  BY ONLY R \in Row, <1>rows, v \in 1 .. Len(m) - t, <1>1
<1>3. new[v] = R /\ \A j \in 1 .. Len(m) - t : j # v => new[j] = m[t + j]
  <2>1. new[v] = R /\ \A j \in 1 .. Len(m) - t : j # v => new[j] = tail[j]
    BY ONLY <1>rows, v \in 1 .. Len(m) - t, <1>1
  <2> QED
    BY ONLY <2>1, <1>rows
<1>4. /\ head \o new \in Seq(Row) /\ Len(head \o new) = Len(head) + Len(new)
      /\ \A i \in 1 .. Len(head) + Len(new) :
           (head \o new)[i] = IF i <= Len(head) THEN head[i] ELSE new[i - Len(head)]
  <2>1. head \in Seq(Row) /\ new \in Seq(Row)
    BY <1>2, <1>rows
  <2> QED
    BY ONLY <2>1, ConcatProperties
<1>5. /\ A \in Seq(Row) /\ Len(A) = Len(m) - t + s + 0
      /\ \A i \in 1 .. Len(A) : A[i] = IF i <= s THEN head[i] ELSE new[i - s]
  <2>0. A = head \o new
    BY ONLY <1>1, A = head \o [tail EXCEPT ![v] = R]
  <2>1. A \in Seq(Row) /\ Len(A) = s + (Len(m) - t)
    BY ONLY <1>2, <1>4, <2>0, <1>rows
  <2>2. Len(A) = Len(m) - t + s + 0
    BY ONLY <1>0, <2>1, s \in Int, t \in Int
  <2>3. \A i \in 1 .. Len(A) : A[i] = IF i <= s THEN head[i] ELSE new[i - s]
    BY ONLY <1>rows, <1>4, <2>0
  <2> QED
    BY <2>1, <2>2, <2>3
<1>6. PICK c : c = s + v
  OBVIOUS
<1>7. c \in Int /\ c \in s + 1 .. Len(A) /\ c \in 1 .. Len(A) /\ ~(c <= s) /\ c - s = v /\ c - s + t = t + v
  BY ONLY <1>0, <1>5, <1>6, s \in Int, t \in Int, 1 <= s
<1>8. A[c] = R
  BY ONLY <1>3, <1>5, <1>7
<1>9. ASSUME NEW i \in s + 1 .. Len(A), i # c PROVE A[i] = m[i - s + t - 0]
  <2>1. PICK j : j = i - s
    OBVIOUS
  <2>2. i \in 1 .. Len(A) /\ ~(i <= s) /\ j \in 1 .. Len(m) - t /\ j # v /\ t + j = i - s + t - 0
    BY ONLY <1>0, <1>5, <1>6, <1>9, <2>1, s \in Int, t \in Int, 1 <= s
  <2>3. A[i] = new[j]
    BY ONLY <1>5, <2>1, <2>2
  <2> QED
    BY ONLY <1>3, <2>2, <2>3
<1>10. \A i \in 1 .. s : A[i] = m[i]
  <2>1. \A i \in 1 .. s : i \in 1 .. Len(A) /\ i <= s
    BY ONLY <1>0, <1>5, s \in Int, t \in Int, t <= Len(m)
  <2> QED
    BY ONLY <1>5, <2>1, <1>rows
<1>11. /\ A[c].role = m[c - s + t].role /\ A[c].calls = m[c - s + t].calls
       /\ \A x \in m[c - s + t].live : Says(A[c], x)
  BY ONLY <1>7, <1>8, R.role = m[t + v].role, R.calls = m[t + v].calls,
          \A x \in m[t + v].live : Says(R, x)
<1>12. A \in Seq(Row) /\ Len(A) = Len(m) - t + s + 0
  BY ONLY <1>5
<1>13. Spliced(A, c, 0, R, m, s, t)
  BY ONLY <1>7, <1>8, <1>9, <1>10, <1>11, <1>12 DEF Spliced
<1> QED
  BY ONLY <1>6, <1>13

\* Head and tail are what the transcript has there: no handoff is left to strip.
LEMMA HeadTailPlain ==
    ASSUME NEW m \in Seq(Row), NEW s \in Int, NEW t \in Int, 1 <= s, s < t, t <= Len(m),
           \A i \in (1 .. s) \cup (t + 1 .. Len(m)) : m[i].handoff = "none"
    PROVE  AssembleHead(m, s) = Slice(m, 0, s) /\ AssembleTail(m, t) = Slice(m, t, Len(m))
<1>0. Len(m) \in Int
  BY ONLY m \in Seq(Row)
<1>1. PICK head : head = Slice(m, 0, s)
  OBVIOUS
<1>2. PICK tail : tail = Slice(m, t, Len(m))
  OBVIOUS
<1>3. /\ head \in Seq(Row) /\ Len(head) = s /\ \A j \in 1 .. s : head[j] = m[j]
      /\ tail \in Seq(Row) /\ Len(tail) = Len(m) - t
      /\ \A j \in 1 .. Len(m) - t : tail[j] = m[t + j]
  BY <1>1, <1>2, HeadTailRows
<1>4. \A j \in 1 .. Len(head) : head[j].handoff = "none"
  BY <1>3
<1>5. ASSUME NEW j \in 1 .. Len(tail) PROVE tail[j].handoff = "none"
  <2>1. j \in 1 .. Len(m) - t /\ t + j \in t + 1 .. Len(m)
    BY ONLY <1>0, <1>3, <1>5, t \in Int
  <2> QED
    BY <1>3, <2>1
<1>6. StripAll(head) = head
  BY ONLY <1>3, <1>4, StripAllPlain
<1>7. StripAll(tail) = tail
  BY ONLY <1>3, <1>5, StripAllPlain
<1> QED
  BY ONLY <1>1, <1>2, <1>6, <1>7 DEF AssembleHead, AssembleTail

\* The summary replaces the rows between head and tail.
LEMMA AssembleRows ==
    ASSUME NEW k \in Nat, NEW m, Shaped(m, k), NEW decayed \in BOOLEAN,
           NEW w, w = CompressWindow(m, decayed), w.start < w.end,
           NEW scan, scan = ScanWindowHandoffs(m, w),
           NEW body \in SUBSET (1 .. k), NEW A, A = AssembleCompressed(m, w, scan, body)
    PROVE  \E c : Assembled(A, c, m, w.start, scan.tail, body, k)
<1>1. PICK s, t : s = w.start /\ t = scan.tail
  OBVIOUS
<1>2. /\ s \in Nat /\ s >= 1 /\ s < Len(m)
      /\ \A i \in 1 .. s : m[i].handoff = "none"
      /\ s > 1 => \A i \in 2 + ProtectFirst .. s : m[i].role = "tool"
  BY <1>1, HeadRows
<1>3. /\ t \in Int /\ s < t /\ t <= Len(m)
      /\ \A i \in t + 1 .. Len(m) : m[i].handoff = "none"
      /\ s > 1 /\ t < Len(m) => m[t + 1].role # "tool"
  BY <1>1, ScanRows
<1>4. m \in Seq(Row) /\ Len(m) \in Int /\ s \in Int /\ 1 <= s /\ ProtectFirst \in Int /\ ProtectFirst >= 0
  BY <1>2, WindowAssumption DEF Shaped
<1>5. \A i \in (1 .. s) \cup (t + 1 .. Len(m)) : m[i].handoff = "none"
  BY <1>2, <1>3
<1>6. PICK head, tail : head = AssembleHead(m, s) /\ tail = AssembleTail(m, t)
  OBVIOUS
<1>7. head = Slice(m, 0, s) /\ tail = Slice(m, t, Len(m))
  BY ONLY <1>3, <1>4, <1>5, <1>6, HeadTailPlain
<1>8. /\ head \in Seq(Row) /\ Len(head) = s /\ \A j \in 1 .. s : head[j] = m[j]
      /\ tail \in Seq(Row) /\ Len(tail) = Len(m) - t
      /\ \A j \in 1 .. Len(m) - t : tail[j] = m[t + j]
  BY ONLY <1>3, <1>4, <1>7, HeadTailRows
<1>rows. HeadTail(head, tail, m, s, t)
  BY ONLY <1>8 DEF HeadTail
<1>9. PICK place : place = SummaryPlacement(head, tail, s)
  OBVIOUS
<1>10. /\ place.role \in {"user", "assistant"} /\ place.force \in BOOLEAN
       /\ place.merge \in BOOLEAN /\ (place.merge => FirstVisible(tail) >= 0)
       /\ (Len(head) = 1 /\ head[1].role = "system" => place.force)
  BY ONLY <1>2, <1>8, <1>9, PlacementFacts
<1>11. PICK v : v = IF place.force THEN FirstVisible(tail) + 1 ELSE 1
  OBVIOUS
<1>12. A = IF place.merge
           THEN head \o [tail EXCEPT ![v] = MergeSummaryIntoTailRow(tail[v], body, place.force)]
           ELSE head \o <<SummaryRow(place.role, body)>> \o tail
  BY ONLY A = AssembleCompressed(m, w, scan, body), <1>1, <1>6, <1>9, <1>11 DEF AssembleCompressed
<1>13. CASE ~place.merge
  <2>1. PICK R : R = SummaryRow(place.role, body)
    OBVIOUS
  <2>2. /\ GoodRow(R, k) /\ R.role = place.role /\ R.calls = {} /\ R.handoff = "standalone"
        /\ R.sum = body
    BY ONLY <1>10, <2>1, k \in Nat, body \in SUBSET (1 .. k), NewSummaryRow
  <2>3. R \in Row
    BY <2>2 DEF GoodRow
  <2>4. A = (head \o <<R>>) \o tail
    BY ONLY <1>12, <1>13, <2>1
  <2>5. PICK c : c = s + 1 /\ Spliced(A, c, 1, R, m, s, t)
    <3>1. m \in Seq(Row) /\ s \in Int /\ t \in Int /\ 1 <= s /\ s < t /\ t <= Len(m)
      BY ONLY <1>3, <1>4
    <3>2. R \in Row /\ R.calls = {}
      BY ONLY <2>2, <2>3
    <3> QED
      BY ONLY <1>rows, <2>4, <3>1, <3>2, SummaryRowSpliced
  <2>6. Spliced(A, c, 1, R, m, s, t) /\ A[c] = R
    BY ONLY <2>5 DEF Spliced
  <2>7. /\ GoodRow(A[c], k) /\ A[c].role # "tool" /\ A[c].handoff # "none" /\ A[c].sum = body
        /\ A[c].calls = {}
    BY ONLY <1>10, <2>2, <2>6
  <2>8. Assembled(A, c, m, s, t, body, k)
    BY ONLY Shaped(m, k), <1>3, <1>4, <1>5, <2>6, <2>7, SplicedAssembled
  <2> QED
    BY ONLY <1>1, <2>8
<1>14. CASE place.merge
  <2>1. /\ v \in 1 .. Len(m) - t /\ m[t + v].role # "tool"
        /\ m[t + v].calls = {} \/ (s > 1 /\ v = 1)
    <3>1. \A j \in 1 .. Len(tail) : GoodRow(tail[j], k)
      <4> SUFFICES ASSUME NEW j \in 1 .. Len(tail) PROVE GoodRow(tail[j], k)
        OBVIOUS
      <4>1. j \in 1 .. Len(m) - t /\ t + j \in 1 .. Len(m)
        BY ONLY <1>3, <1>4, <1>8, j \in 1 .. Len(tail)
      <4>2. GoodRow(m[t + j], k)
        BY <4>1 DEF Shaped
      <4> QED
        BY ONLY <1>8, <4>1, <4>2
    <3>2. PICK u : u = FirstVisible(tail) + 1
      OBVIOUS
    <3>3. u \in 1 .. Len(tail) /\ tail[u].role # "tool" /\ tail[u].calls = {}
      BY ONLY <1>8, <1>10, <1>14, <3>1, <3>2, FirstVisibleRow
    <3>4. u \in 1 .. Len(m) - t /\ m[t + u].role # "tool" /\ m[t + u].calls = {}
      BY ONLY <1>8, <3>3
    <3>5. CASE place.force
      <4>1. v = u
        BY ONLY <1>11, <3>2, <3>5
      <4> QED
        BY ONLY <3>4, <4>1
    <3>6. CASE ~place.force
      <4>1. s > 1
        <5>1. SUFFICES ASSUME s = 1 PROVE FALSE
          BY ONLY <1>4, <5>1
        <5>2. head[1].role = "system" /\ Len(head) = 1
          <6>1. 1 \in 1 .. s
            BY ONLY <1>4
          <6>2. head[1] = m[1] /\ Len(head) = 1
            BY ONLY <1>8, <5>1, <6>1
          <6> QED
            BY <6>2 DEF Shaped
        <5> QED
          BY ONLY <1>10, <3>6, <5>2
      <4>2. 1 \in 1 .. Len(m) - t /\ t < Len(m)
        BY ONLY <1>3, <1>4, <3>4
      <4>3. m[t + 1].role # "tool"
        BY ONLY <1>3, <4>1, <4>2
      <4> QED
        BY ONLY <1>11, <3>6, <4>1, <4>2, <4>3
    <3> QED
      BY ONLY <1>10, <3>5, <3>6
  <2>2. t + v \in 1 .. Len(m) /\ t + v \in t + 1 .. Len(m) /\ v \in Int /\ v >= 1
    BY ONLY <1>3, <1>4, <2>1
  <2>3. PICK r : r = m[t + v]
    OBVIOUS
  <2>4. GoodRow(r, k) /\ r.handoff = "none" /\ tail[v] = r
    <3>1. GoodRow(r, k)
      BY <2>2, <2>3 DEF Shaped
    <3>2. r.handoff = "none"
      BY ONLY <1>5, <2>2, <2>3
    <3> QED
      BY ONLY <1>8, <2>1, <2>3, <3>1, <3>2
  <2>5. PICK R : R = MergeSummaryIntoTailRow(r, body, place.force)
    OBVIOUS
  <2>6. /\ GoodRow(R, k) /\ R.role = r.role /\ R.calls = r.calls /\ R.ans = r.ans
        /\ R.handoff # "none" /\ R.sum = body /\ \A x \in r.live : Says(R, x)
    <3>1. PICK force \in BOOLEAN : force = place.force
      BY ONLY <1>10
    <3>2. R = MergeSummaryIntoTailRow(r, body, force)
      BY ONLY <2>5, <3>1
    <3> QED
      BY ONLY k \in Nat, body \in SUBSET (1 .. k), <2>4, <3>1, <3>2, MergedRow
  <2>7. R \in Row
    BY <2>6 DEF GoodRow
  <2>8. A = head \o [tail EXCEPT ![v] = R]
    BY ONLY <1>12, <1>14, <2>4, <2>5
  <2>9. PICK c : c = s + v /\ Spliced(A, c, 0, R, m, s, t)
    <3>1. R.role = m[t + v].role /\ R.calls = m[t + v].calls /\ \A x \in m[t + v].live : Says(R, x)
      BY ONLY <2>3, <2>6
    <3>2. m \in Seq(Row) /\ s \in Int /\ t \in Int /\ 1 <= s /\ s < t /\ t <= Len(m)
      BY ONLY <1>3, <1>4
    <3>3. v \in 1 .. Len(m) - t
      BY ONLY <2>1
    <3> QED
      BY ONLY <1>rows, <2>7, <2>8, <3>1, <3>2, <3>3, MergeSpliced
  <2>10. Spliced(A, c, 0, R, m, s, t) /\ A[c] = R
    BY ONLY <2>9 DEF Spliced
  <2>11. GoodRow(A[c], k) /\ A[c].role # "tool" /\ A[c].handoff # "none" /\ A[c].sum = body
    BY ONLY <2>1, <2>3, <2>6, <2>10
  <2>12. A[c].calls = {} \/ \A j \in 2 + ProtectFirst .. c - 1 : A[j].role = "tool"
    <3>1. CASE m[t + v].calls = {}
      BY ONLY <2>3, <2>6, <2>10, <3>1
    <3>2. CASE s > 1 /\ v = 1
      <4> SUFFICES ASSUME NEW j \in 2 + ProtectFirst .. c - 1 PROVE A[j].role = "tool"
        OBVIOUS
      <4>1. j \in 2 + ProtectFirst .. s /\ j \in 1 .. s
        BY ONLY <1>4, <2>9, <3>2, j \in 2 + ProtectFirst .. c - 1
      <4>2. A[j] = m[j]
        BY <2>10, <4>1 DEF Spliced
      <4> QED
        BY ONLY <1>2, <3>2, <4>1, <4>2
    <3> QED
      BY ONLY <2>1, <3>1, <3>2
  <2>13. Assembled(A, c, m, s, t, body, k)
    BY ONLY Shaped(m, k), <1>3, <1>4, <1>5, <2>10, <2>11, <2>12, SplicedAssembled
  <2> QED
    BY ONLY <1>1, <2>13
<1> QED
  BY <1>10, <1>13, <1>14

-----------------------------------------------------------------------------
(* The repair: orphaned results and unanswered calls dropped. *)

\* What a repair keeps, row by row, of the rows it drops orphans from.
Thinned(F, m, pos) ==
    /\ F \in Seq(Row) /\ pos \in [1 .. Len(F) -> 1 .. Len(m)]
    /\ \A k, l \in 1 .. Len(F) : k < l => pos[k] < pos[l]
    /\ \A k \in 1 .. Len(F) : F[k] = m[pos[k]] /\ ~OrphanedResult(m, pos[k])
    /\ \A i \in 1 .. Len(m) : ~OrphanedResult(m, i) => \E k \in 1 .. Len(F) : pos[k] = i

\* The rows that _sanitize_tool_pairs keeps: no results but those right after their call.
WithoutOrphans(m) ==
    FlattenSeq([i \in DOMAIN m |-> IF OrphanedResult(m, i) THEN <<>> ELSE <<m[i]>>])

\* Dropping orphans keeps the other rows, in their order.
LEMMA OrphansDropped ==
    ASSUME NEW m \in Seq(Row)
    PROVE  \E pos : Thinned(WithoutOrphans(m), m, pos)
<1>1. PICK ss : ss = [i \in DOMAIN m |-> IF OrphanedResult(m, i) THEN <<>> ELSE <<m[i]>>]
  OBVIOUS
<1>2. DOMAIN m = 1 .. Len(m) /\ Len(m) \in Nat
  OBVIOUS
<1>3. ASSUME NEW i \in 1 .. Len(m)
      PROVE  /\ ss[i] \in Seq(Row) /\ Len(ss[i]) <= 1
             /\ OrphanedResult(m, i) => ss[i] = <<>>
             /\ ~OrphanedResult(m, i) => ss[i] = <<m[i]>> /\ ss[i] # <<>> /\ ss[i][1] = m[i]
  <2>1. m[i] \in Row
    OBVIOUS
  <2>2. ss[i] = IF OrphanedResult(m, i) THEN <<>> ELSE <<m[i]>>
    BY <1>1, <1>2
  <2>3. CASE OrphanedResult(m, i)
    <3>1. ss[i] = <<>>
      BY <2>2, <2>3
    <3> QED
      BY ONLY <2>3, <3>1
  <2>4. CASE ~OrphanedResult(m, i)
    <3>1. ss[i] = <<m[i]>>
      BY <2>2, <2>4
    <3> QED
      BY ONLY <2>1, <2>4, <3>1
  <2> QED
    BY <2>3, <2>4
<1>4. ss \in Seq(Seq(Row)) /\ Len(ss) = Len(m)
  <2>1. ss \in [1 .. Len(m) -> Seq(Row)]
    BY ONLY <1>1, <1>2, <1>3
  <2> QED
    BY ONLY <1>2, <2>1
<1>5. WithoutOrphans(m) = FlattenSeq(ss)
  BY <1>1 DEF WithoutOrphans
<1>6. \A i \in 1 .. Len(ss) : Len(ss[i]) <= 1
  BY <1>3, <1>4
<1>7. PICK F : F = FlattenSeq(ss)
  OBVIOUS
<1>8. F \in Seq(Row) /\ \E pos : Picks(ss, Len(ss), F, pos)
  BY ONLY <1>4, <1>6, <1>7, FlattenShort
<1>9. PICK pos : Picks(ss, Len(ss), F, pos)
  BY <1>8
<1>10. /\ pos \in [1 .. Len(F) -> 1 .. Len(m)]
       /\ \A k, l \in 1 .. Len(F) : k < l => pos[k] < pos[l]
       /\ \A k \in 1 .. Len(F) : ss[pos[k]] # <<>> /\ F[k] = ss[pos[k]][1]
       /\ \A i \in 1 .. Len(m) : ss[i] # <<>> => \E k \in 1 .. Len(F) : pos[k] = i
  BY ONLY <1>4, <1>9 DEF Picks
<1>11. ASSUME NEW k \in 1 .. Len(F) PROVE F[k] = m[pos[k]] /\ ~OrphanedResult(m, pos[k])
  <2>1. PICK i : i = pos[k]
    OBVIOUS
  <2>2. i \in 1 .. Len(m) /\ ss[i] # <<>> /\ F[k] = ss[i][1]
    BY <1>10, <2>1
  <2> QED
    BY <1>3, <2>1, <2>2
<1>12. ASSUME NEW i \in 1 .. Len(m), ~OrphanedResult(m, i) PROVE \E k \in 1 .. Len(F) : pos[k] = i
  BY <1>3, <1>10, <1>12
<1>13. Thinned(F, m, pos)
  BY ONLY <1>8, <1>10, <1>11, <1>12 DEF Thinned
<1> QED
  BY <1>5, <1>7, <1>13

\* A row is not moved to a later place.
LEMMA ThinnedPlaces ==
    ASSUME NEW m \in Seq(Row), NEW F, NEW pos, Thinned(F, m, pos)
    PROVE  \A k \in 1 .. Len(F) : pos[k] >= k
<1>1. PICK T : T = {n \in Nat : n \in 1 .. Len(F) => pos[n] >= n}
  OBVIOUS
<1>2. F \in Seq(Row) /\ pos \in [1 .. Len(F) -> 1 .. Len(m)] /\ Len(F) \in Nat /\ Len(m) \in Nat
  BY DEF Thinned
<1>3. 0 \in T
  BY <1>1
<1>4. ASSUME NEW n \in Nat, n \in T PROVE n + 1 \in T
  <2>1. SUFFICES ASSUME n + 1 \in 1 .. Len(F) PROVE pos[n + 1] >= n + 1
    BY <1>1
  <2>2. PICK i : i = n + 1
    OBVIOUS
  <2>3. i \in 1 .. Len(F) /\ pos[i] \in 1 .. Len(m) /\ pos[i] \in Int /\ pos[i] >= 1
    BY <1>2, <2>1, <2>2
  <2>4. CASE n = 0
    BY <2>2, <2>3, <2>4
  <2>5. CASE n # 0
    <3>1. n \in 1 .. Len(F) /\ n < i
      BY <1>2, <2>1, <2>2, <2>5
    <3>2. pos[n] >= n /\ pos[n] \in Int
      BY <1>1, <1>2, <1>4, <3>1
    <3>3. pos[n] < pos[i]
      BY <2>3, <3>1 DEF Thinned
    <3> QED
      BY <2>2, <2>3, <3>2, <3>3
  <2> QED
    BY <2>4, <2>5
<1>5. Nat \subseteq T
  BY ONLY <1>3, <1>4, InductiveSet
<1> QED
  BY <1>1, <1>2, <1>5

\* The row before a kept tool result, when it makes the call, is the kept row before it.
LEMMA ThinnedBefore ==
    ASSUME NEW m \in Seq(Row), NEW F, NEW pos, Thinned(F, m, pos), NEW k \in 1 .. Len(F),
           pos[k] > 1, m[pos[k] - 1].role # "tool"
    PROVE  k > 1 /\ F[k - 1] = m[pos[k] - 1]
<1>1. F \in Seq(Row) /\ pos \in [1 .. Len(F) -> 1 .. Len(m)] /\ Len(F) \in Nat /\ Len(m) \in Nat
  BY DEF Thinned
<1>2. PICK i : i = pos[k] - 1
  OBVIOUS
<1>3. pos[k] \in Int /\ i \in 1 .. Len(m) /\ i \in Int /\ pos[k] = i + 1 /\ k \in Int
  BY <1>1, <1>2
<1>4. ~OrphanedResult(m, i)
  BY <1>2 DEF OrphanedResult
<1>5. PICK l \in 1 .. Len(F) : pos[l] = i
  BY <1>3, <1>4 DEF Thinned
<1>6. l < k
  <2>1. ~(k < l)
    <3>1. k < l => pos[k] < pos[l]
      BY DEF Thinned
    <3> QED
      BY <1>3, <1>5, <3>1
  <2>2. k # l
    BY <1>3, <1>5
  <2> QED
    BY <1>3, <2>1, <2>2
<1>7. ~(l < k - 1)
  <2>1. SUFFICES ASSUME l < k - 1 PROVE FALSE
    OBVIOUS
  <2>2. PICK j : j = k - 1
    OBVIOUS
  <2>3. j \in 1 .. Len(F) /\ l < j /\ j < k
    BY <1>1, <1>3, <1>5, <2>1, <2>2
  <2>4. \A x, y \in 1 .. Len(F) : x < y => pos[x] < pos[y]
    BY DEF Thinned
  <2>5. pos[l] < pos[j] /\ pos[j] < pos[k]
    BY ONLY <1>5, <2>3, <2>4, k \in 1 .. Len(F)
  <2>6. pos[j] \in Int
    BY ONLY <1>1, <2>3
  <2> QED
    BY ONLY <1>3, <1>5, <2>5, <2>6
<1>8. l = k - 1 /\ k > 1
  BY <1>3, <1>6, <1>7
<1>9. F[l] = m[i]
  BY <1>5 DEF Thinned
<1> QED
  BY <1>2, <1>8, <1>9

\* Without its orphans an assembled transcript has the shape of every transcript.
LEMMA ThinnedShape ==
    ASSUME NEW k, NEW m, Shaped(m, k), NEW A, NEW c, NEW s, NEW t, NEW body,
           Assembled(A, c, m, s, t, body, k), NEW F, NEW pos, Thinned(F, A, pos)
    PROVE  /\ Shaped(F, k)
           /\ \A i \in 1 .. Len(F) : F[i].sum \subseteq body
           /\ \A x \in body : Kept(F, x)
           /\ \A x : Kept(A, x) => Kept(F, x)
<1>1. /\ A \in Seq(Row) /\ c \in 1 .. Len(A) /\ A[1] = m[1]
      /\ \A i \in 1 .. Len(A) : GoodRow(A[i], k)
      /\ \A i \in 1 .. Len(A) : A[i].handoff # "none" <=> i = c
      /\ A[c].sum = body /\ A[c].role # "tool"
      /\ A[c].calls = {} \/ \A j \in 2 + ProtectFirst .. c - 1 : A[j].role = "tool"
  BY DEF Assembled
<1>2. \A i \in 1 .. Len(A) : A[i].role = "tool" =>
          \/ i > 1 /\ A[i - 1].role = "assistant" /\ A[i].ans \in A[i - 1].calls
          \/ \A j \in 1 .. i - 1 : A[j].calls = {}
  BY DEF Assembled
<1>3. m[1].role = "system" /\ m[1].handoff = "none"
  BY DEF Shaped
<1>4. /\ F \in Seq(Row) /\ pos \in [1 .. Len(F) -> 1 .. Len(A)] /\ Len(F) \in Nat /\ Len(A) \in Nat
      /\ \A i, j \in 1 .. Len(F) : i < j => pos[i] < pos[j]
      /\ \A i \in 1 .. Len(F) : F[i] = A[pos[i]] /\ ~OrphanedResult(A, pos[i])
      /\ \A i \in 1 .. Len(A) : ~OrphanedResult(A, i) => \E n \in 1 .. Len(F) : pos[n] = i
  BY <1>1 DEF Thinned
<1>5. \A i \in 1 .. Len(F) : pos[i] >= i
  BY ONLY <1>1, Thinned(F, A, pos), ThinnedPlaces
<1>6. ASSUME NEW i \in 1 .. Len(A), A[i].role # "tool"
      PROVE  \E n \in 1 .. Len(F) : pos[n] = i /\ F[n] = A[i]
  <2>1. ~OrphanedResult(A, i)
    BY <1>6 DEF OrphanedResult
  <2>2. PICK n \in 1 .. Len(F) : pos[n] = i
    BY ONLY <1>4, <2>1, i \in 1 .. Len(A)
  <2>3. F[n] = A[i]
    BY ONLY <1>4, <2>2
  <2> QED
    BY ONLY <2>2, <2>3
<1>7. Len(F) >= 1 /\ F[1] = m[1]
  <2>1. 1 \in 1 .. Len(A) /\ A[1].role # "tool"
    BY <1>1, <1>3, <1>4
  <2>2. PICK n \in 1 .. Len(F) : pos[n] = 1 /\ F[n] = A[1]
    BY ONLY <1>6, <2>1
  <2>3. n = 1
    BY ONLY <1>4, <1>5, <2>2
  <2> QED
    BY ONLY <1>1, <1>4, <2>2, <2>3
<1>8. \A i \in 1 .. Len(F) : GoodRow(F[i], k)
  BY ONLY <1>1, <1>4
<1>9. Paired(F)
  <2> SUFFICES ASSUME NEW i \in 1 .. Len(F), F[i].role = "tool"
               PROVE  i > 1 /\ F[i - 1].role = "assistant" /\ F[i].ans \in F[i - 1].calls
    BY DEF Paired
  <2>1. PICK p : p = pos[i]
    OBVIOUS
  <2>2. p \in 1 .. Len(A) /\ F[i] = A[p] /\ ~OrphanedResult(A, p)
    BY ONLY <1>4, <2>1, i \in 1 .. Len(F)
  <2>3. p > 1 /\ A[p - 1].role = "assistant" /\ A[p].ans \in A[p - 1].calls
    <3>1. PICK j \in 1 .. p - 1 : A[p].ans \in A[j].calls
      BY <2>2 DEF OrphanedResult
    <3>2. ~(\A q \in 1 .. p - 1 : A[q].calls = {})
      BY <3>1
    <3>3. A[p].role = "tool"
      BY <2>2
    <3> QED
      BY ONLY <1>2, <2>2, <3>2, <3>3
  <2>4. i > 1 /\ F[i - 1] = A[p - 1]
    <3>1. A \in Seq(Row) /\ pos[i] > 1 /\ A[pos[i] - 1].role # "tool"
      BY <1>1, <2>1, <2>3
    <3>2. i > 1 /\ F[i - 1] = A[pos[i] - 1]
      BY ONLY <3>1, Thinned(F, A, pos), i \in 1 .. Len(F), ThinnedBefore
    <3> QED
      BY ONLY <2>1, <3>2
  <2> QED
    BY ONLY <2>2, <2>3, <2>4
<1>10. ASSUME NEW i \in 1 .. Len(F), F[i].handoff # "none" PROVE pos[i] = c /\ F[i] = A[c]
  <2>1. pos[i] \in 1 .. Len(A) /\ F[i] = A[pos[i]]
    BY ONLY <1>4, i \in 1 .. Len(F)
  <2> QED
    BY ONLY <1>1, <1>10, <2>1
<1>11. OneHandoff(F)
  <2> SUFFICES ASSUME NEW i \in 1 .. Len(F), NEW j \in 1 .. Len(F),
                      F[i].handoff # "none", F[j].handoff # "none"
               PROVE  i = j
    BY DEF OneHandoff
  <2>1. pos[i] = c /\ pos[j] = c
    BY <1>10
  <2>2. ~(i < j) /\ ~(j < i)
    BY ONLY <1>1, <1>4, <2>1, i \in 1 .. Len(F), j \in 1 .. Len(F)
  <2> QED
    BY ONLY <1>4, <2>2, i \in 1 .. Len(F), j \in 1 .. Len(F)
<1>12. Placed(F)
  <2> SUFFICES ASSUME NEW i \in 1 .. Len(F), F[i].handoff # "none"
               PROVE  /\ F[i].role # "tool"
                      /\ F[i].calls = {} \/ \A j \in 2 + ProtectFirst .. i - 1 : F[j].role = "tool"
    BY DEF Placed
  <2>1. pos[i] = c /\ F[i] = A[c]
    BY <1>10
  <2>2. F[i].role # "tool"
    BY <1>1, <2>1
  <2>3. CASE A[c].calls = {}
    BY <2>1, <2>2, <2>3
  <2>4. CASE \A j \in 2 + ProtectFirst .. c - 1 : A[j].role = "tool"
    <3>1. ASSUME NEW j \in 2 + ProtectFirst .. i - 1 PROVE F[j].role = "tool"
      <4>1. ProtectFirst \in Int /\ ProtectFirst >= 0
        BY WindowAssumption
      <4>2. PICK p : p = pos[j]
        OBVIOUS
      <4>3. j \in 1 .. Len(F) /\ j < i
        BY ONLY <1>4, <4>1, j \in 2 + ProtectFirst .. i - 1, i \in 1 .. Len(F)
      <4>4. p \in 1 .. Len(A) /\ p >= j /\ p < c /\ F[j] = A[p]
        BY ONLY <1>4, <1>5, <2>1, <4>2, <4>3, i \in 1 .. Len(F)
      <4>5. p \in 2 + ProtectFirst .. c - 1
        BY ONLY <1>1, <4>1, <4>4, j \in 2 + ProtectFirst .. i - 1
      <4> QED
        BY ONLY <2>4, <4>4, <4>5
    <3> QED
      BY <2>2, <3>1
  <2> QED
    BY <1>1, <2>3, <2>4
<1>13. Shaped(F, k)
  BY ONLY <1>3, <1>4, <1>7, <1>8, <1>9, <1>11, <1>12 DEF Shaped
<1>14. ASSUME NEW i \in 1 .. Len(F) PROVE F[i].sum \subseteq body
  <2>1. CASE F[i].handoff # "none"
    BY <1>1, <1>10, <2>1
  <2>2. CASE F[i].handoff = "none"
    BY <1>8, <2>2 DEF GoodRow
  <2> QED
    BY <2>1, <2>2
<1>15. ASSUME NEW x \in body PROVE Kept(F, x)
  <2>1. PICK n \in 1 .. Len(F) : F[n] = A[c]
    BY ONLY <1>1, <1>6
  <2> QED
    BY <1>1, <2>1 DEF Kept, Says
<1>16. ASSUME NEW x, Kept(A, x) PROVE Kept(F, x)
  <2>1. PICK i \in 1 .. Len(A) : A[i].role # "tool" /\ Says(A[i], x)
    BY ONLY Kept(A, x) DEF Kept
  <2>2. PICK n \in 1 .. Len(F) : F[n] = A[i]
    BY ONLY <1>6, <2>1
  <2> QED
    BY ONLY <2>1, <2>2 DEF Kept
<1> QED
  BY ONLY <1>13, <1>14, <1>15, <1>16

\* Two transcripts that differ at most in the calls that rows make, and in whether a row that lost
\* all its calls has text.
SameButCalls(R, F) ==
    /\ R \in Seq(Row) /\ Len(R) = Len(F)
    /\ \A i \in 1 .. Len(F) :
          /\ R[i].role = F[i].role /\ R[i].kind = F[i].kind /\ R[i].live = F[i].live
          /\ R[i].ans = F[i].ans /\ R[i].handoff = F[i].handoff /\ R[i].sum = F[i].sum
          /\ R[i].after = F[i].after
          /\ R[i].calls \subseteq F[i].calls
          /\ F[i].calls \cap Answered(F) \subseteq R[i].calls
          /\ R[i].text = F[i].text \/ (R[i].text /\ R[i].role = "assistant")

\* What the repair returns differs from the rows without orphans in calls only.
LEMMA SanitizeRows ==
    ASSUME NEW m \in Seq(Row), NEW F \in Seq(Row), F = WithoutOrphans(m)
    PROVE  SameButCalls(SanitizeToolPairs(m), F)
<1>1. PICK inflight :
        inflight = LastOf({i \in Positions(F, 0) : At(F, i).role # "tool"}) + 1
  OBVIOUS
<1>2. PICK answered : answered = Answered(F)
  OBVIOUS
<1>3. PICK R : R = [i \in DOMAIN F |->
            IF F[i].role # "assistant" \/ i = inflight \/ F[i].calls \cap answered = F[i].calls
            THEN F[i]
            ELSE [F[i] EXCEPT !.calls = F[i].calls \cap answered,
                              !.text = F[i].text \/ F[i].calls \cap answered = {}]]
  OBVIOUS
<1>4. SanitizeToolPairs(m) = R
  BY ONLY F = WithoutOrphans(m), <1>1, <1>2, <1>3, Zenon DEF SanitizeToolPairs, WithoutOrphans
<1>5. DOMAIN F = 1 .. Len(F) /\ Len(F) \in Nat
  OBVIOUS
<1>6. ASSUME NEW i \in 1 .. Len(F)
      PROVE  /\ R[i] \in Row
             /\ R[i].role = F[i].role /\ R[i].kind = F[i].kind /\ R[i].live = F[i].live
             /\ R[i].ans = F[i].ans /\ R[i].handoff = F[i].handoff /\ R[i].sum = F[i].sum
             /\ R[i].after = F[i].after
             /\ R[i].calls \subseteq F[i].calls
             /\ F[i].calls \cap answered \subseteq R[i].calls
             /\ R[i].text = F[i].text \/ (R[i].text /\ R[i].role = "assistant")
  <2>1. PICK f, r : f = F[i] /\ r = R[i]
    OBVIOUS
  <2>2. f \in Row
    BY ONLY <2>1, F \in Seq(Row), i \in 1 .. Len(F)
  <2>3. r = IF f.role # "assistant" \/ i = inflight \/ f.calls \cap answered = f.calls
            THEN f
            ELSE [f EXCEPT !.calls = f.calls \cap answered,
                           !.text = f.text \/ f.calls \cap answered = {}]
    BY ONLY <1>3, <1>5, <2>1, i \in 1 .. Len(F)
  <2>4. CASE f.role # "assistant" \/ i = inflight \/ f.calls \cap answered = f.calls
    <3>1. r = f
      BY ONLY <2>3, <2>4
    <3> QED
      BY ONLY <2>1, <2>2, <3>1
  <2>5. CASE ~(f.role # "assistant" \/ i = inflight \/ f.calls \cap answered = f.calls)
    <3>1. PICK kept, text : kept = f.calls \cap answered /\ text = (f.text \/ f.calls \cap answered = {})
      OBVIOUS
    <3>2. r = [f EXCEPT !.calls = kept, !.text = text]
      BY ONLY <2>3, <2>5, <3>1
    <3>3. kept \in SUBSET Nat /\ text \in BOOLEAN /\ f.role = "assistant"
      BY ONLY <2>2, <2>5, <3>1 DEF Row
    <3>4. /\ r \in Row /\ r.role = f.role /\ r.kind = f.kind /\ r.live = f.live
          /\ r.ans = f.ans /\ r.handoff = f.handoff /\ r.sum = f.sum
          /\ r.after = f.after /\ r.calls = kept /\ r.text = text
      BY ONLY <2>2, <3>2, <3>3 DEF Row
    <3>5. text = f.text \/ text
      BY ONLY <2>2, <3>1 DEF Row
    <3> QED
      BY ONLY <2>1, <3>1, <3>3, <3>4, <3>5
  <2> QED
    BY <2>4, <2>5
<1>7. R \in Seq(Row) /\ Len(R) = Len(F)
  <2>1. R \in [1 .. Len(F) -> Row]
    BY ONLY <1>3, <1>5, <1>6
  <2> QED
    BY ONLY <1>5, <2>1
<1>8. SameButCalls(R, F)
  BY ONLY <1>2, <1>6, <1>7 DEF SameButCalls
<1> QED
  BY ONLY <1>4, <1>8

\* Dropping calls that have no result keeps the shape, and everything the rows say.
LEMMA SanitizedShape ==
    ASSUME NEW k, NEW F, Shaped(F, k), NEW R, SameButCalls(R, F)
    PROVE  /\ Shaped(R, k)
           /\ \A i \in 1 .. Len(R) : \E j \in 1 .. Len(F) : R[i].sum = F[j].sum
           /\ \A x : Kept(F, x) => Kept(R, x)
<1>1. /\ R \in Seq(Row) /\ Len(R) = Len(F) /\ Len(F) \in Int
      /\ \A i \in 1 .. Len(F) :
          /\ R[i].role = F[i].role /\ R[i].kind = F[i].kind /\ R[i].live = F[i].live
          /\ R[i].ans = F[i].ans /\ R[i].handoff = F[i].handoff /\ R[i].sum = F[i].sum
          /\ R[i].after = F[i].after
          /\ R[i].calls \subseteq F[i].calls
          /\ F[i].calls \cap Answered(F) \subseteq R[i].calls
          /\ R[i].text = F[i].text \/ (R[i].text /\ R[i].role = "assistant")
  BY DEF SameButCalls, Shaped
<1>2. /\ F \in Seq(Row) /\ Len(F) >= 1 /\ \A i \in 1 .. Len(F) : GoodRow(F[i], k)
      /\ F[1].role = "system" /\ F[1].handoff = "none"
      /\ Paired(F) /\ OneHandoff(F) /\ Placed(F)
  BY DEF Shaped
<1>3. ASSUME NEW i \in 1 .. Len(R) PROVE GoodRow(R[i], k)
  <2>1. i \in 1 .. Len(F) /\ GoodRow(F[i], k) /\ R[i] \in Row
    BY <1>1, <1>2
  <2>2. PICK f, r : f = F[i] /\ r = R[i]
    OBVIOUS
  <2>3. /\ r.role = f.role /\ r.kind = f.kind /\ r.live = f.live
        /\ r.handoff = f.handoff /\ r.sum = f.sum
        /\ r.after = f.after /\ r.calls \subseteq f.calls
        /\ r.text = f.text \/ (r.text /\ r.role = "assistant")
    BY <1>1, <2>1, <2>2
  <2>4. GoodRow(f, k) /\ r \in Row
    BY <2>1, <2>2
  <2>5. GoodRow(r, k)
    BY ONLY <2>3, <2>4 DEF GoodRow
  <2> QED
    BY <2>2, <2>5
<1>4. Paired(R)
  <2> SUFFICES ASSUME NEW i \in 1 .. Len(R), R[i].role = "tool"
               PROVE  i > 1 /\ R[i - 1].role = "assistant" /\ R[i].ans \in R[i - 1].calls
    BY DEF Paired
  <2>1. i \in 1 .. Len(F) /\ F[i].role = "tool" /\ R[i].ans = F[i].ans /\ i \in Int
    BY <1>1
  <2>2. i > 1 /\ F[i - 1].role = "assistant" /\ F[i].ans \in F[i - 1].calls
    BY <1>2, <2>1 DEF Paired
  <2>3. PICK j : j = i - 1
    OBVIOUS
  <2>4. j \in 1 .. Len(F)
    BY ONLY <1>1, <2>1, <2>2, <2>3
  <2>5. F[i].ans \in Answered(F)
    BY <1>2, <2>1 DEF Answered
  <2>6. F[i].ans \in R[j].calls /\ R[j].role = "assistant"
    BY <1>1, <2>2, <2>3, <2>4, <2>5
  <2> QED
    BY <2>1, <2>2, <2>3, <2>6
<1>5. OneHandoff(R)
  BY <1>1, <1>2 DEF OneHandoff
<1>6. Placed(R)
  <2> SUFFICES ASSUME NEW i \in 1 .. Len(R), R[i].handoff # "none"
               PROVE  /\ R[i].role # "tool"
                      /\ R[i].calls = {} \/ \A j \in 2 + ProtectFirst .. i - 1 : R[j].role = "tool"
    BY DEF Placed
  <2>1. i \in 1 .. Len(F) /\ F[i].handoff # "none" /\ R[i].role = F[i].role
    BY <1>1
  <2>2. /\ F[i].role # "tool"
        /\ F[i].calls = {} \/ \A j \in 2 + ProtectFirst .. i - 1 : F[j].role = "tool"
    BY <1>2, <2>1 DEF Placed
  <2>3. CASE F[i].calls = {}
    <3>1. R[i].calls = {}
      BY <1>1, <2>1, <2>3
    <3> QED
      BY <2>1, <2>2, <3>1
  <2>4. CASE \A j \in 2 + ProtectFirst .. i - 1 : F[j].role = "tool"
    <3>1. ASSUME NEW j \in 2 + ProtectFirst .. i - 1 PROVE R[j].role = "tool"
      <4>1. ProtectFirst \in Int /\ ProtectFirst >= 0
        BY WindowAssumption
      <4>2. j \in 1 .. Len(F)
        BY ONLY <1>1, <2>1, <4>1, j \in 2 + ProtectFirst .. i - 1
      <4> QED
        BY <1>1, <2>4, <4>2
    <3> QED
      BY <2>1, <2>2, <3>1
  <2> QED
    BY <2>2, <2>3, <2>4
<1>7. 1 \in 1 .. Len(F) /\ R[1].role = "system" /\ R[1].handoff = "none"
  BY <1>1, <1>2
<1>8. Shaped(R, k)
  BY ONLY <1>1, <1>2, <1>3, <1>4, <1>5, <1>6, <1>7 DEF Shaped
<1>9. ASSUME NEW x, Kept(F, x) PROVE Kept(R, x)
  <2>1. PICK i \in 1 .. Len(F) : F[i].role # "tool" /\ Says(F[i], x)
    BY ONLY Kept(F, x) DEF Kept
  <2>2. i \in 1 .. Len(R) /\ R[i].role # "tool" /\ Says(R[i], x)
    BY <1>1, <2>1 DEF Says
  <2> QED
    BY ONLY <2>2 DEF Kept
<1> QED
  BY <1>1, <1>8, <1>9

-----------------------------------------------------------------------------
(* The compaction as a whole. *)

\* The transcript of a compaction before a request is restated: its shape, and what it says.
LEMMA CompactedShape ==
    ASSUME NEW k \in Nat, NEW m, Shaped(m, k), NEW decayed \in BOOLEAN,
           NEW w, w = CompressWindow(m, decayed), w.start < w.end,
           NEW scan, scan = ScanWindowHandoffs(m, w), NEW body \in SUBSET (1 .. k),
           NEW R, R = SanitizeToolPairs(AssembleCompressed(m, w, scan, body))
    PROVE  /\ Shaped(R, k)
           /\ Summaries(R) \subseteq body
           /\ \A x \in body : Kept(R, x)
           /\ \A i \in (1 .. w.start) \cup (scan.tail + 1 .. Len(m)) : \A x \in m[i].live :
                 m[i].role # "tool" => Kept(R, x)
<1>1. PICK A : A = AssembleCompressed(m, w, scan, body)
  OBVIOUS
<1>2. PICK c : Assembled(A, c, m, w.start, scan.tail, body, k)
  BY <1>1, AssembleRows
<1>3. A \in Seq(Row)
  BY ONLY <1>2 DEF Assembled
<1>4. PICK F : F = WithoutOrphans(A)
  OBVIOUS
<1>5. PICK pos : Thinned(F, A, pos)
  BY ONLY <1>3, <1>4, OrphansDropped
<1>6. PICK s, t : s = w.start /\ t = scan.tail
  OBVIOUS
<1>7. Assembled(A, c, m, s, t, body, k)
  BY ONLY <1>2, <1>6
<1>8. /\ Shaped(F, k)
      /\ \A i \in 1 .. Len(F) : F[i].sum \subseteq body
      /\ \A x \in body : Kept(F, x)
      /\ \A x : Kept(A, x) => Kept(F, x)
  BY ONLY Shaped(m, k), <1>5, <1>7, ThinnedShape
<1>9. SameButCalls(R, F)
  <2>1. F \in Seq(Row)
    BY ONLY <1>8 DEF Shaped
  <2>2. SameButCalls(SanitizeToolPairs(A), F)
    BY ONLY <1>3, <1>4, <2>1, SanitizeRows
  <2> QED
    BY <1>1, <2>2
<1>10. /\ Shaped(R, k)
       /\ \A i \in 1 .. Len(R) : \E j \in 1 .. Len(F) : R[i].sum = F[j].sum
       /\ \A x : Kept(F, x) => Kept(R, x)
  BY ONLY <1>8, <1>9, SanitizedShape
<1>11. Summaries(R) \subseteq body
  <2>1. R \in Seq(Row)
    BY ONLY <1>10 DEF Shaped
  <2>2. ASSUME NEW i \in DOMAIN R PROVE R[i].sum \subseteq body
    <3>1. i \in 1 .. Len(R)
      BY ONLY <2>1, i \in DOMAIN R
    <3> QED
      BY ONLY <1>8, <1>10, <3>1
  <2> QED
    BY <2>2 DEF Summaries
<1>12. \A i \in (1 .. s) \cup (t + 1 .. Len(m)) : \A x \in m[i].live :
           m[i].role # "tool" => Kept(A, x)
  BY ONLY <1>7 DEF Assembled
<1> QED
  BY ONLY <1>6, <1>8, <1>10, <1>11, <1>12

\* The summaries of a transcript are sets of ids that were handed out.
LEMMA SummariesRange ==
    ASSUME NEW k, NEW m, Shaped(m, k)
    PROVE  Summaries(m) \subseteq 1 .. k
<1>1. ASSUME NEW i \in DOMAIN m PROVE m[i].sum \subseteq 1 .. k
  <2>1. i \in 1 .. Len(m) /\ GoodRow(m[i], k)
    BY DEF Shaped
  <2> QED
    BY <2>1 DEF GoodRow
<1> QED
  BY <1>1 DEF Summaries

\* What the new summary stands for, and what the scan makes of the remembered one.
LEMMA BodyRange ==
    ASSUME NEW k \in Nat, NEW m, Shaped(m, k), NEW decayed \in BOOLEAN,
           NEW w, w = CompressWindow(m, decayed), w.start < w.end,
           NEW scan, scan = ScanWindowHandoffs(m, w),
           previousSummary = NoSummary \/ previousSummary \subseteq 1 .. k,
           NEW body, body = Contents(scan.previous) \cup (Live(scan.turns) \ {0})
    PROVE  /\ body \subseteq 1 .. k
           /\ scan.previous = NoSummary \/ scan.previous \subseteq 1 .. k
           /\ Contents(scan.previous) \subseteq body
           /\ \A x \in Live(scan.turns) : x # 0 => x \in body
<1>1. /\ Live(scan.turns) \subseteq 0 .. k
      /\ \/ scan.previous = NoSummary
         \/ scan.previous = IF previousSummary = NoSummary THEN Summaries(m) ELSE previousSummary
  BY ScanRows
<1>2. scan.previous = NoSummary \/ scan.previous \subseteq 1 .. k
  BY <1>1, SummariesRange
<1>3. Contents(scan.previous) \subseteq 1 .. k
  BY <1>2 DEF Contents
<1>4. Live(scan.turns) \ {0} \subseteq 1 .. k
  BY <1>1
<1> QED
  BY <1>2, <1>3, <1>4

\* A compaction keeps what the rows say: in the head, in the tail, or in its summary.
LEMMA CompactionKeeps ==
    ASSUME NEW k \in Nat, NEW m, Shaped(m, k), NEW decayed \in BOOLEAN,
           NEW w, w = CompressWindow(m, decayed), w.start < w.end,
           NEW scan, scan = ScanWindowHandoffs(m, w),
           previousSummary = NoSummary \/ previousSummary \subseteq 1 .. k,
           NEW body, body = Contents(scan.previous) \cup (Live(scan.turns) \ {0}),
           NEW R, R = SanitizeToolPairs(AssembleCompressed(m, w, scan, body)),
           previousSummary # NoSummary => Summaries(m) \subseteq previousSummary,
           NEW x, x # 0, Kept(m, x)
    PROVE  Kept(R, x)
<1>1. /\ body \subseteq 1 .. k
      /\ Contents(scan.previous) \subseteq body
      /\ \A y \in Live(scan.turns) : y # 0 => y \in body
  BY BodyRange
<1>2. /\ \A y \in body : Kept(R, y)
      /\ \A i \in (1 .. w.start) \cup (scan.tail + 1 .. Len(m)) : \A y \in m[i].live :
            m[i].role # "tool" => Kept(R, y)
  <2>1. body \in SUBSET (1 .. k)
    BY <1>1
  <2> QED
    BY <2>1, CompactedShape
<1>3. PICK i \in 1 .. Len(m) : m[i].role # "tool" /\ Says(m[i], x)
  BY DEF Kept
<1>4. PICK s, t : s = w.start /\ t = scan.tail
  OBVIOUS
<1>5. /\ s \in Int /\ t \in Int /\ Len(m) \in Int /\ i \in Int
      /\ \A j \in 1 .. s : m[j].handoff = "none"
      /\ \A j \in t + 1 .. Len(m) : m[j].handoff = "none"
  <2>1. s \in Nat /\ \A j \in 1 .. s : m[j].handoff = "none"
    BY <1>4, HeadRows
  <2>2. t \in Int /\ \A j \in t + 1 .. Len(m) : m[j].handoff = "none"
    BY <1>4, ScanRows
  <2>3. m \in Seq(Row)
    BY DEF Shaped
  <2> QED
    BY <2>1, <2>2, <2>3
<1>6. GoodRow(m[i], k)
  BY DEF Shaped
<1>7. CASE i \in (1 .. s) \cup (t + 1 .. Len(m))
  <2>1. m[i].handoff = "none"
    BY <1>5, <1>7
  <2>2. m[i].sum = {}
    BY <1>6, <2>1 DEF GoodRow
  <2>3. x \in m[i].live
    BY <1>3, <2>1, <2>2 DEF Says
  <2> QED
    BY <1>2, <1>3, <1>4, <1>7, <2>3
<1>8. CASE i \in s + 1 .. t
  <2>1. /\ m[i].live \subseteq Live(scan.turns)
        /\ m[i].handoff = "standalone" => m[i].after \subseteq Live(scan.turns)
    <3>1. \A j \in w.start + 1 .. scan.tail :
             /\ m[j].live \subseteq Live(scan.turns)
             /\ m[j].handoff = "standalone" => m[j].after \subseteq Live(scan.turns)
      BY ScanRows
    <3> QED
      BY ONLY <1>4, <1>8, <3>1
  <2>2. CASE x \in m[i].sum
    <3>1. m[i].handoff # "none"
      BY <1>6, <2>2 DEF GoodRow
    <3>2. scan.previous = IF previousSummary = NoSummary THEN Summaries(m) ELSE previousSummary
      <4>1. \/ scan.previous = NoSummary /\ \A j \in 1 .. Len(m) : m[j].handoff = "none"
            \/ scan.previous = IF previousSummary = NoSummary THEN Summaries(m) ELSE previousSummary
        BY ScanRows
      <4> QED
        BY <3>1, <4>1
    <3>3. x \in Summaries(m)
      <4>1. m \in Seq(Row)
        BY DEF Shaped
      <4>2. m[i].sum \subseteq Summaries(m)
        BY <4>1, LiveOfRow
      <4> QED
        BY <2>2, <4>2
    <3>4. x \in scan.previous
      BY <3>2, <3>3
    <3>5. x \in Contents(scan.previous)
      BY <3>4 DEF Contents, NoSummary
    <3> QED
      BY <1>1, <1>2, <3>5
  <2>3. CASE x \notin m[i].sum
    <3>1. x \in Live(scan.turns)
      BY <1>3, <2>1, <2>3 DEF Says
    <3> QED
      BY <1>1, <1>2, <3>1
  <2> QED
    BY <2>2, <2>3
<1>9. i \in (1 .. s) \cup (t + 1 .. Len(m)) \/ i \in s + 1 .. t
  BY <1>5
<1> QED
  BY <1>7, <1>8, <1>9

-----------------------------------------------------------------------------
(* What the other steps do to a transcript. *)

\* R says all that m says, and its summaries are among those of m.
Covers(R, m) ==
    /\ \A x : Kept(m, x) => Kept(R, x)
    /\ Summaries(R) \subseteq Summaries(m)

\* A good row stays good when more ids are handed out.
LEMMA GoodRowGrows ==
    ASSUME NEW k \in Nat, NEW l \in Nat, k <= l, NEW r, GoodRow(r, k)
    PROVE  GoodRow(r, l)
<1>1. 0 .. k \subseteq 0 .. l /\ 1 .. k \subseteq 1 .. l
  OBVIOUS
<1> QED
  BY <1>1 DEF GoodRow

\* An appended row keeps the shape when it is a user's or the model's, or a result of the call
\* before it; a handoff may be appended, in a user row, when there is none yet.
LEMMA AppendShape ==
    ASSUME NEW k \in Nat, NEW l \in Nat, k <= l, NEW m, Shaped(m, k), NEW r, GoodRow(r, l),
           r.role = "tool" => m[Len(m)].role = "assistant" /\ r.ans \in m[Len(m)].calls,
           \/ r.handoff = "none"
           \/ r.role = "user" /\ \A i \in 1 .. Len(m) : m[i].handoff = "none"
    PROVE  Shaped(Append(m, r), l)
<1>1. PICK A : A = Append(m, r)
  OBVIOUS
<1>2. m \in Seq(Row) /\ Len(m) \in Int /\ Len(m) >= 1 /\ r \in Row
  BY DEF Shaped, GoodRow
<1>3. /\ A \in Seq(Row) /\ Len(A) = Len(m) + 1 /\ A[Len(m) + 1] = r
      /\ \A i \in 1 .. Len(m) : A[i] = m[i]
  BY ONLY <1>1, <1>2
<1>4. PICK n : n = Len(m) + 1
  OBVIOUS
<1>5. /\ n \in Int /\ n >= 2 /\ Len(A) = n /\ A[n] = r /\ n - 1 = Len(m)
      /\ \A i \in 1 .. Len(A) : i = n \/ i \in 1 .. Len(m)
  BY ONLY <1>2, <1>3, <1>4
<1>6. ASSUME NEW i \in 1 .. Len(A) PROVE GoodRow(A[i], l)
  <2>1. CASE i = n
    BY <1>5, <2>1
  <2>2. CASE i \in 1 .. Len(m)
    <3>1. GoodRow(m[i], k)
      BY <2>2 DEF Shaped
    <3>2. GoodRow(m[i], l)
      BY <3>1, GoodRowGrows
    <3> QED
      BY ONLY <1>3, <2>2, <3>2
  <2> QED
    BY <1>5, <2>1, <2>2
<1>7. Paired(A)
  <2> SUFFICES ASSUME NEW i \in 1 .. Len(A), A[i].role = "tool"
               PROVE  i > 1 /\ A[i - 1].role = "assistant" /\ A[i].ans \in A[i - 1].calls
    BY DEF Paired
  <2>1. CASE i = n
    <3>1. Len(m) \in 1 .. Len(m)
      BY <1>2
    <3>2. A[n - 1] = m[Len(m)]
      BY <1>3, <1>5, <3>1
    <3> QED
      BY <1>5, <2>1, <3>2
  <2>2. CASE i \in 1 .. Len(m)
    <3>1. i > 1 /\ m[i - 1].role = "assistant" /\ m[i].ans \in m[i - 1].calls /\ A[i] = m[i]
      BY <1>3, <2>2 DEF Shaped, Paired
    <3>2. i - 1 \in 1 .. Len(m)
      BY <1>2, <2>2, <3>1
    <3> QED
      BY <1>3, <3>1, <3>2
  <2> QED
    BY <1>5, <2>1, <2>2
<1>8. OneHandoff(A)
  <2> SUFFICES ASSUME NEW i \in 1 .. Len(A), NEW j \in 1 .. Len(A),
                      A[i].handoff # "none", A[j].handoff # "none"
               PROVE  i = j
    BY DEF OneHandoff
  <2>1. CASE r.handoff = "none"
    <3>1. i \in 1 .. Len(m) /\ j \in 1 .. Len(m)
      BY <1>5, <2>1
    <3> QED
      BY <1>3, <3>1 DEF Shaped, OneHandoff
  <2>2. CASE \A p \in 1 .. Len(m) : m[p].handoff = "none"
    <3>1. i = n /\ j = n
      BY <1>3, <1>5, <2>2
    <3> QED
      BY <3>1
  <2> QED
    BY <2>1, <2>2
<1>9. Placed(A)
  <2> SUFFICES ASSUME NEW i \in 1 .. Len(A), A[i].handoff # "none"
               PROVE  /\ A[i].role # "tool"
                      /\ A[i].calls = {} \/ \A j \in 2 + ProtectFirst .. i - 1 : A[j].role = "tool"
    BY DEF Placed
  <2>1. CASE i = n
    <3>1. r.role = "user"
      BY <1>5, <2>1
    <3>2. r.calls = {}
      BY <3>1 DEF GoodRow
    <3> QED
      BY <1>5, <2>1, <3>1, <3>2
  <2>2. CASE i \in 1 .. Len(m)
    <3>1. A[i] = m[i]
      BY <1>3, <2>2
    <3>2. /\ m[i].role # "tool"
          /\ m[i].calls = {} \/ \A j \in 2 + ProtectFirst .. i - 1 : m[j].role = "tool"
      BY <2>2, <3>1 DEF Shaped, Placed
    <3>3. ProtectFirst \in Int /\ ProtectFirst >= 0
      BY WindowAssumption
    <3>4. \A j \in 2 + ProtectFirst .. i - 1 : j \in 1 .. Len(m)
      BY ONLY <1>2, <2>2, <3>3
    <3> QED
      BY <1>3, <3>1, <3>2, <3>4
  <2> QED
    BY <1>5, <2>1, <2>2
<1>10. A[1].role = "system" /\ A[1].handoff = "none"
  <2>1. 1 \in 1 .. Len(m)
    BY <1>2
  <2>2. A[1] = m[1]
    BY <1>3, <2>1
  <2> QED
    BY <2>2 DEF Shaped
<1>11. Len(A) >= 1
  BY <1>5
<1> QED
  BY ONLY <1>1, <1>3, <1>6, <1>7, <1>8, <1>9, <1>10, <1>11 DEF Shaped

\* An appended row says what it says, and the others go on.
LEMMA AppendSays ==
    ASSUME NEW m \in Seq(Row), NEW r \in Row
    PROVE  /\ \A x : Kept(m, x) => Kept(Append(m, r), x)
           /\ \A x : r.role # "tool" /\ Says(r, x) => Kept(Append(m, r), x)
           /\ Summaries(Append(m, r)) = Summaries(m) \cup r.sum
<1>1. PICK A : A = Append(m, r)
  OBVIOUS
<1>2. PICK n : n = Len(m) + 1
  OBVIOUS
<1>3. /\ A \in Seq(Row) /\ Len(A) = n /\ A[n] = r /\ n \in 1 .. Len(A) /\ n \in Int /\ Len(m) \in Int
      /\ \A i \in 1 .. Len(m) : i \in 1 .. Len(A) /\ A[i] = m[i]
      /\ \A i \in 1 .. Len(A) : i = n \/ i \in 1 .. Len(m)
      /\ DOMAIN A = 1 .. Len(A) /\ DOMAIN m = 1 .. Len(m)
  BY <1>1, <1>2
<1>4. ASSUME NEW x, Kept(m, x) PROVE Kept(A, x)
  BY ONLY <1>3, <1>4 DEF Kept
<1>5. ASSUME NEW x, r.role # "tool", Says(r, x) PROVE Kept(A, x)
  BY ONLY <1>3, <1>5 DEF Kept
<1>6. Summaries(A) = Summaries(m) \cup r.sum
  <2>1. Summaries(A) \subseteq Summaries(m) \cup r.sum
    BY ONLY <1>3 DEF Summaries
  <2>2. Summaries(m) \subseteq Summaries(A)
    BY ONLY <1>3 DEF Summaries
  <2>3. r.sum \subseteq Summaries(A)
    BY ONLY <1>3 DEF Summaries
  <2> QED
    BY ONLY <2>1, <2>2, <2>3
<1> QED
  BY ONLY <1>1, <1>4, <1>5, <1>6

\* A transcript cut off after a row has the shape still.
LEMMA PrefixShape ==
    ASSUME NEW k, NEW m, Shaped(m, k), NEW n \in 1 .. Len(m)
    PROVE  /\ Shaped(SubSeq(m, 1, n), k) /\ Len(SubSeq(m, 1, n)) = n
           /\ \A i \in 1 .. n : SubSeq(m, 1, n)[i] = m[i]
<1>1. PICK A : A = SubSeq(m, 1, n)
  OBVIOUS
<1>2. m \in Seq(Row) /\ Len(m) \in Int /\ n \in Int /\ n >= 1 /\ n <= Len(m)
  BY DEF Shaped
<1>3. A \in Seq(Row) /\ Len(A) = n /\ \A i \in 1 .. n : A[i] = m[i] /\ i \in 1 .. Len(m)
  BY ONLY <1>1, <1>2
<1>4. \A i \in 1 .. Len(A) : GoodRow(A[i], k)
  BY <1>3 DEF Shaped
<1>5. Paired(A)
  <2> SUFFICES ASSUME NEW i \in 1 .. Len(A), A[i].role = "tool"
               PROVE  i > 1 /\ A[i - 1].role = "assistant" /\ A[i].ans \in A[i - 1].calls
    BY DEF Paired
  <2>1. i > 1 /\ m[i - 1].role = "assistant" /\ m[i].ans \in m[i - 1].calls /\ A[i] = m[i]
    BY <1>3 DEF Shaped, Paired
  <2>2. i - 1 \in 1 .. n
    BY <1>2, <1>3, <2>1
  <2> QED
    BY <1>3, <2>1, <2>2
<1>6. OneHandoff(A)
  BY <1>3 DEF Shaped, OneHandoff
<1>7. Placed(A)
  <2> SUFFICES ASSUME NEW i \in 1 .. Len(A), A[i].handoff # "none"
               PROVE  /\ A[i].role # "tool"
                      /\ A[i].calls = {} \/ \A j \in 2 + ProtectFirst .. i - 1 : A[j].role = "tool"
    BY DEF Placed
  <2>1. i \in 1 .. Len(m) /\ A[i] = m[i] /\ i \in Int /\ i <= n
    BY <1>2, <1>3
  <2>2. /\ m[i].role # "tool"
        /\ m[i].calls = {} \/ \A j \in 2 + ProtectFirst .. i - 1 : m[j].role = "tool"
    BY <2>1 DEF Shaped, Placed
  <2>3. ProtectFirst \in Int /\ ProtectFirst >= 0
    BY WindowAssumption
  <2>4. \A j \in 2 + ProtectFirst .. i - 1 : j \in 1 .. n
    BY ONLY <1>2, <2>1, <2>3
  <2> QED
    BY <1>3, <2>1, <2>2, <2>4
<1>8. A[1].role = "system" /\ A[1].handoff = "none"
  <2>1. 1 \in 1 .. n
    BY <1>2
  <2>2. A[1] = m[1]
    BY <1>3, <2>1
  <2> QED
    BY <2>2 DEF Shaped
<1>9. Len(A) >= 1
  BY <1>2, <1>3
<1>10. Shaped(A, k)
  BY ONLY <1>3, <1>4, <1>5, <1>6, <1>7, <1>8, <1>9 DEF Shaped
<1> QED
  BY <1>1, <1>3, <1>10

\* D is m without its rows u+1 to u+d, which are blank echoes before an assistant's row.
EchoesGone(D, m, u, d) ==
    /\ D \in Seq(Row) /\ u \in Int /\ d \in Int /\ 1 <= u /\ 0 <= d /\ u + d < Len(m)
    /\ Len(D) = Len(m) - d
    /\ \A i \in 1 .. u : D[i] = m[i]
    /\ \A i \in u + 1 .. Len(D) : D[i] = m[i + d]
    /\ \A i \in u + 1 .. u + d : IsBlankUserTurn(m[i])
    /\ m[u + d + 1].role = "assistant"

\* The blank echoes that are dropped.
LEMMA DroppedRows ==
    ASSUME NEW m \in Seq(Row)
    PROVE  DropBlankEchoes(m) = m \/ \E u, d : EchoesGone(DropBlankEchoes(m), m, u, d)
<1>1. PICK user : user = LastUserMessage(m, 0)
  OBVIOUS
<1>2. PICK ends : ends = {i \in user + 1 .. Len(m) : i = Len(m) \/ ~IsBlankUserTurn(At(m, i))}
  OBVIOUS
<1>3. PICK stop : stop = Min(ends)
  OBVIOUS
<1>4. DropBlankEchoes(m) =
         IF user < 0 \/ stop >= Len(m) THEN m
         ELSE IF At(m, stop).role # "assistant" THEN m
         ELSE SubSeq(m, 1, user + 1) \o SubSeq(m, stop + 1, Len(m))
  BY ONLY <1>1, <1>2, <1>3, Zenon DEF DropBlankEchoes
<1>5. user \in Int /\ -1 <= user /\ user < Len(m) /\ Len(m) \in Int
  BY <1>1, LastUserRange
<1>6. CASE user < 0 \/ stop >= Len(m) \/ At(m, stop).role # "assistant"
  BY ONLY <1>4, <1>6
<1>7. CASE ~(user < 0 \/ stop >= Len(m) \/ At(m, stop).role # "assistant")
  <2>1. ends \in SUBSET Int /\ ends # {} /\ \A x \in ends : user + 1 <= x
    <3>1. Len(m) \in ends
      BY ONLY <1>2, <1>5
    <3> QED
      BY ONLY <1>2, <1>5, <3>1
  <2>2. stop \in ends /\ \A y \in ends : stop <= y
    <3>1. user + 1 \in Int
      BY ONLY <1>5
    <3> QED
      BY ONLY <1>3, <2>1, <3>1, MinOf
  <2>3. /\ user >= 0 /\ stop \in Int /\ user + 1 <= stop /\ stop < Len(m)
        /\ At(m, stop).role = "assistant"
    BY ONLY <1>2, <1>5, <1>7, <2>1, <2>2
  <2>4. PICK P, Q : P = SubSeq(m, 1, user + 1) /\ Q = SubSeq(m, stop + 1, Len(m))
    OBVIOUS
  <2>5. /\ P \in Seq(Row) /\ Len(P) = user + 1 /\ \A i \in 1 .. user + 1 : P[i] = m[i]
    <3>1. user + 1 \in Int /\ 1 <= user + 1 /\ user + 1 <= Len(m)
      BY ONLY <1>5, <2>3
    <3> QED
      BY ONLY m \in Seq(Row), <2>4, <3>1
  <2>6. /\ Q \in Seq(Row) /\ Len(Q) = Len(m) - stop
        /\ \A i \in 1 .. Len(m) - stop : Q[i] = m[i + stop]
    <3>1. stop + 1 \in Int /\ 1 <= stop + 1 /\ stop + 1 <= Len(m) /\ stop \in Int /\ stop >= 0
      BY ONLY <1>5, <2>3
    <3>2. Q \in Seq(Row) /\ Len(Q) = Len(m) - stop
      BY ONLY m \in Seq(Row), <1>5, <2>4, <3>1
    <3>3. ASSUME NEW i \in 1 .. Len(m) - stop PROVE Q[i] = m[i + stop]
      <4>1. Q[i] = m[stop + 1 + i - 1]
        BY ONLY m \in Seq(Row), <1>5, <2>4, <3>1, i \in 1 .. Len(m) - stop
      <4>2. stop + 1 + i - 1 = i + stop
        BY ONLY <1>5, <3>1, i \in 1 .. Len(m) - stop
      <4> QED
        BY ONLY <4>1, <4>2
    <3> QED
      BY <3>2, <3>3
  <2>7. PICK D : D = P \o Q
    OBVIOUS
  <2>8. DropBlankEchoes(m) = D
    BY ONLY <1>4, <1>7, <2>4, <2>7
  <2>9. /\ D \in Seq(Row) /\ Len(D) = Len(P) + Len(Q)
        /\ \A i \in 1 .. Len(P) + Len(Q) : D[i] = IF i <= Len(P) THEN P[i] ELSE Q[i - Len(P)]
    BY ONLY <2>5, <2>6, <2>7, ConcatProperties
  <2>10. PICK u, d : u = user + 1 /\ d = stop - (user + 1)
    OBVIOUS
  <2>11. /\ u \in Int /\ d \in Int /\ 1 <= u /\ 0 <= d /\ u + d = stop /\ u + d < Len(m)
         /\ Len(D) = Len(m) - d /\ Len(D) = Len(P) + Len(Q) /\ Len(P) = u /\ Len(D) \in Int
    BY ONLY <1>5, <2>3, <2>5, <2>6, <2>9, <2>10
  <2>12. ASSUME NEW i \in 1 .. u PROVE D[i] = m[i]
    <3>1. i \in 1 .. Len(P) + Len(Q) /\ i <= Len(P) /\ i \in 1 .. user + 1
      <4>1. Len(P) \in Nat /\ Len(Q) \in Nat
        BY ONLY <2>5, <2>6
      <4> QED
        BY ONLY <2>10, <2>11, <4>1, i \in 1 .. u
    <3> QED
      BY ONLY <2>5, <2>9, <3>1
  <2>13. ASSUME NEW i \in u + 1 .. Len(D) PROVE D[i] = m[i + d]
    <3>1. PICK j : j = i - u
      OBVIOUS
    <3>2. /\ i \in 1 .. Len(P) + Len(Q) /\ ~(i <= Len(P)) /\ j \in 1 .. Len(m) - stop
          /\ j + stop = i + d
      <4>1. /\ i \in Int /\ u < i /\ i <= Len(D) /\ u \in Int /\ d \in Int /\ stop \in Int
            /\ Len(m) \in Int /\ u + d = stop /\ Len(D) = Len(m) - d /\ 1 <= u
        BY ONLY <1>5, <2>3, <2>11, i \in u + 1 .. Len(D)
      <4>2. Len(P) = u /\ Len(P) + Len(Q) = Len(D)
        BY ONLY <2>11
      <4>3. i \in 1 .. Len(D) /\ ~(i <= u) /\ j \in 1 .. Len(m) - stop /\ j + stop = i + d
        BY ONLY <3>1, <4>1
      <4> QED
        BY ONLY <4>2, <4>3
    <3>3. D[i] = Q[j]
      BY ONLY <2>9, <2>11, <3>1, <3>2
    <3> QED
      BY ONLY <2>6, <3>2, <3>3
  <2>14. ASSUME NEW i \in u + 1 .. u + d PROVE IsBlankUserTurn(m[i])
    <3>1. PICK j : j = i - 1
      OBVIOUS
    <3>2. j \in user + 1 .. Len(m) /\ j # Len(m) /\ j < stop /\ j \in Int /\ j + 1 = i
      BY ONLY <1>5, <2>3, <2>10, <2>11, <3>1, i \in u + 1 .. u + d
    <3>3. j \notin ends
      BY ONLY <2>2, <2>3, <3>2
    <3>4. IsBlankUserTurn(At(m, j))
      BY ONLY <1>2, <3>2, <3>3
    <3> QED
      BY ONLY <3>2, <3>4 DEF At
  <2>15. m[u + d + 1].role = "assistant"
    BY ONLY <2>3, <2>11 DEF At
  <2>16. EchoesGone(D, m, u, d)
    BY ONLY <2>9, <2>11, <2>12, <2>13, <2>14, <2>15 DEF EchoesGone
  <2> QED
    BY ONLY <2>8, <2>16
<1> QED
  BY ONLY <1>6, <1>7

\* Without them the transcript has its shape, and says what it said.
LEMMA EchoesGoneShape ==
    ASSUME NEW k, NEW m, Shaped(m, k), NEW D, NEW u, NEW d, EchoesGone(D, m, u, d)
    PROVE  Shaped(D, k) /\ Covers(D, m)
<1>1. /\ D \in Seq(Row) /\ u \in Int /\ d \in Int /\ 1 <= u /\ 0 <= d /\ u + d < Len(m)
      /\ Len(D) = Len(m) - d /\ Len(m) \in Int /\ Len(D) \in Int /\ u < Len(D)
      /\ \A i \in 1 .. u : D[i] = m[i]
      /\ \A i \in u + 1 .. Len(D) : D[i] = m[i + d]
      /\ \A i \in u + 1 .. u + d : IsBlankUserTurn(m[i])
      /\ m[u + d + 1].role = "assistant"
  BY DEF EchoesGone, Shaped
<1>2. /\ m \in Seq(Row) /\ \A i \in 1 .. Len(m) : GoodRow(m[i], k)
      /\ m[1].role = "system" /\ m[1].handoff = "none"
      /\ Paired(m) /\ OneHandoff(m) /\ Placed(m)
  BY DEF Shaped
<1>3. ASSUME NEW i \in 1 .. Len(D)
      PROVE  \/ i <= u /\ i \in 1 .. Len(m) /\ D[i] = m[i]
             \/ i > u /\ i + d \in 1 .. Len(m) /\ D[i] = m[i + d]
  <2>1. CASE i <= u
    <3>1. i \in 1 .. u /\ i \in 1 .. Len(m)
      BY ONLY <1>1, <2>1, i \in 1 .. Len(D)
    <3> QED
      BY ONLY <1>1, <2>1, <3>1
  <2>2. CASE i > u
    <3>1. i \in u + 1 .. Len(D) /\ i + d \in 1 .. Len(m)
      BY ONLY <1>1, <2>2, i \in 1 .. Len(D)
    <3> QED
      BY ONLY <1>1, <2>2, <3>1
  <2> QED
    BY <1>1, <2>1, <2>2
<1>4. PICK o : o = [i \in 1 .. Len(D) |-> IF i <= u THEN i ELSE i + d]
  OBVIOUS
<1>5. ASSUME NEW i \in 1 .. Len(D)
      PROVE  o[i] \in 1 .. Len(m) /\ o[i] \in Int /\ D[i] = m[o[i]] /\ o[i] >= i /\ (i > u => o[i] = i + d)
             /\ (i <= u => o[i] = i)
  <2>1. o[i] = IF i <= u THEN i ELSE i + d
    BY <1>4
  <2> QED
    BY <1>1, <1>3, <2>1
<1>6. \A i, j \in 1 .. Len(D) : i < j => o[i] < o[j]
  <2> SUFFICES ASSUME NEW i \in 1 .. Len(D), NEW j \in 1 .. Len(D), i < j PROVE o[i] < o[j]
    OBVIOUS
  <2>1. /\ (i > u => o[i] = i + d) /\ (i <= u => o[i] = i)
        /\ (j > u => o[j] = j + d) /\ (j <= u => o[j] = j)
    BY ONLY <1>5, i \in 1 .. Len(D), j \in 1 .. Len(D)
  <2> QED
    BY ONLY <1>1, <2>1, i \in 1 .. Len(D), j \in 1 .. Len(D), i < j
<1>7. \A i \in 1 .. Len(D) : GoodRow(D[i], k)
  BY ONLY <1>2, <1>5
<1>8. Paired(D)
  <2> SUFFICES ASSUME NEW i \in 1 .. Len(D), D[i].role = "tool"
               PROVE  i > 1 /\ D[i - 1].role = "assistant" /\ D[i].ans \in D[i - 1].calls
    BY DEF Paired
  <2>1. PICK p : p = o[i]
    OBVIOUS
  <2>2. p \in 1 .. Len(m) /\ D[i] = m[p] /\ p > 1 /\ m[p - 1].role = "assistant" /\ m[p].ans \in m[p - 1].calls
    BY <1>2, <1>5, <2>1 DEF Paired
  <2>3. i - 1 \in 1 .. Len(D) /\ o[i - 1] = p - 1 /\ i > 1
    <3>1. CASE i <= u
      <4>1. p = i /\ i \in Int
        BY ONLY <1>5, <2>1, <3>1, i \in 1 .. Len(D)
      <4>2. i - 1 \in 1 .. Len(D) /\ i - 1 <= u
        BY ONLY <1>1, <2>2, <3>1, <4>1, i \in 1 .. Len(D)
      <4>3. o[i - 1] = i - 1
        BY ONLY <1>5, <4>2
      <4> QED
        BY ONLY <2>2, <4>1, <4>2, <4>3
    <3>2. CASE i > u
      <4>1. p = i + d
        BY ONLY <1>5, <2>1, <3>2, i \in 1 .. Len(D)
      <4>2. i # u + 1
        <5>1. SUFFICES ASSUME i = u + 1 PROVE FALSE
          OBVIOUS
        <5>2. p = u + d + 1
          BY ONLY <1>1, <4>1, <5>1
        <5>3. m[p].role = "assistant" /\ m[p].role = "tool"
          BY ONLY <1>1, <2>2, <5>2, D[i].role = "tool"
        <5> QED
          BY ONLY <5>3
      <4>3. i - 1 \in 1 .. Len(D) /\ i - 1 > u /\ i > 1
        BY ONLY <1>1, <3>2, <4>2, i \in 1 .. Len(D)
      <4>4. o[i - 1] = i - 1 + d
        BY ONLY <1>5, <4>3
      <4>5. i - 1 + d = p - 1
        BY ONLY <1>1, <4>1, i \in 1 .. Len(D)
      <4> QED
        BY ONLY <4>3, <4>4, <4>5
    <3> QED
      BY <1>1, <3>1, <3>2
  <2>4. D[i - 1] = m[p - 1]
    BY ONLY <1>5, <2>3
  <2> QED
    BY ONLY <2>2, <2>3, <2>4
<1>9. OneHandoff(D)
  <2> SUFFICES ASSUME NEW i \in 1 .. Len(D), NEW j \in 1 .. Len(D),
                      D[i].handoff # "none", D[j].handoff # "none"
               PROVE  i = j
    BY DEF OneHandoff
  <2>1. o[i] = o[j]
    BY <1>2, <1>5 DEF OneHandoff
  <2>2. ~(i < j) /\ ~(j < i)
    BY ONLY <1>5, <1>6, <2>1, i \in 1 .. Len(D), j \in 1 .. Len(D)
  <2> QED
    BY ONLY <1>1, <2>2, i \in 1 .. Len(D), j \in 1 .. Len(D)
<1>10. Placed(D)
  <2> SUFFICES ASSUME NEW i \in 1 .. Len(D), D[i].handoff # "none"
               PROVE  /\ D[i].role # "tool"
                      /\ D[i].calls = {} \/ \A j \in 2 + ProtectFirst .. i - 1 : D[j].role = "tool"
    BY DEF Placed
  <2>1. PICK p : p = o[i]
    OBVIOUS
  <2>2. /\ p \in 1 .. Len(m) /\ p \in Int /\ D[i] = m[p] /\ m[p].role # "tool"
        /\ m[p].calls = {} \/ \A j \in 2 + ProtectFirst .. p - 1 : m[j].role = "tool"
    BY <1>2, <1>5, <2>1 DEF Placed
  <2>3. CASE m[p].calls = {}
    BY ONLY <2>2, <2>3
  <2>4. CASE \A j \in 2 + ProtectFirst .. p - 1 : m[j].role = "tool"
    <3>1. ASSUME NEW j \in 2 + ProtectFirst .. i - 1 PROVE D[j].role = "tool"
      <4>1. ProtectFirst \in Int /\ ProtectFirst >= 0
        BY WindowAssumption
      <4>2. PICK q : q = o[j]
        OBVIOUS
      <4>3. j \in 1 .. Len(D) /\ j < i
        BY ONLY <1>1, <4>1, j \in 2 + ProtectFirst .. i - 1, i \in 1 .. Len(D)
      <4>4. q >= j /\ q < p /\ q \in Int /\ D[j] = m[q]
        BY ONLY <1>5, <1>6, <2>1, <4>2, <4>3, i \in 1 .. Len(D)
      <4>5. q \in 2 + ProtectFirst .. p - 1
        BY ONLY <2>2, <4>1, <4>4, j \in 2 + ProtectFirst .. i - 1
      <4> QED
        BY ONLY <2>4, <4>4, <4>5
    <3> QED
      BY ONLY <2>2, <3>1
  <2> QED
    BY ONLY <2>2, <2>3, <2>4
<1>11. D[1].role = "system" /\ D[1].handoff = "none" /\ Len(D) >= 1
  <2>1. 1 \in 1 .. u
    BY <1>1
  <2> QED
    BY <1>1, <1>2, <2>1
<1>12. Shaped(D, k)
  BY ONLY <1>1, <1>7, <1>8, <1>9, <1>10, <1>11 DEF Shaped
<1>13. ASSUME NEW x, Kept(m, x) PROVE Kept(D, x)
  <2>1. PICK i \in 1 .. Len(m) : m[i].role # "tool" /\ Says(m[i], x)
    BY ONLY Kept(m, x) DEF Kept
  <2>2. ~(i \in u + 1 .. u + d)
    <3>1. SUFFICES ASSUME i \in u + 1 .. u + d PROVE FALSE
      OBVIOUS
    <3>2. m[i].kind = "blank" /\ m[i].handoff = "none"
      BY ONLY <1>1, <3>1 DEF IsBlankUserTurn, IsContextSummary
    <3>3. GoodRow(m[i], k)
      BY ONLY <1>2, i \in 1 .. Len(m)
    <3> QED
      BY ONLY <2>1, <3>2, <3>3 DEF GoodRow, Says
  <2>3. CASE i <= u
    <3>1. i \in 1 .. u /\ i \in 1 .. Len(D)
      BY ONLY <1>1, <2>3, i \in 1 .. Len(m)
    <3>2. D[i] = m[i]
      BY ONLY <1>1, <3>1
    <3> QED
      BY ONLY <2>1, <3>1, <3>2 DEF Kept
  <2>4. CASE i > u
    <3>1. PICK j : j = i - d
      OBVIOUS
    <3>2. j \in u + 1 .. Len(D) /\ j \in 1 .. Len(D) /\ j + d = i
      BY ONLY <1>1, <2>2, <2>4, <3>1, i \in 1 .. Len(m)
    <3>3. D[j] = m[i]
      BY ONLY <1>1, <3>2
    <3> QED
      BY ONLY <2>1, <3>2, <3>3 DEF Kept
  <2> QED
    BY <1>1, <2>3, <2>4
<1>14. Summaries(D) \subseteq Summaries(m)
  <2>1. DOMAIN D = 1 .. Len(D) /\ DOMAIN m = 1 .. Len(m)
    BY ONLY <1>1, <1>2
  <2>2. \A i \in DOMAIN D : o[i] \in DOMAIN m /\ D[i].sum = m[o[i]].sum
    BY ONLY <1>5, <2>1
  <2> QED
    BY ONLY <2>2 DEF Summaries
<1> QED
  BY ONLY <1>12, <1>13, <1>14 DEF Covers

\* Either way: the transcript that a compaction starts from.
LEMMA EchoesDropped ==
    ASSUME NEW k, NEW m, Shaped(m, k), NEW D, D = DropBlankEchoes(m)
    PROVE  Shaped(D, k) /\ Covers(D, m)
<1>1. m \in Seq(Row)
  BY DEF Shaped
<1>2. D = m \/ \E u, d : EchoesGone(D, m, u, d)
  BY <1>1, DroppedRows
<1>3. Covers(m, m)
  BY DEF Covers
<1> QED
  BY <1>2, <1>3, EchoesGoneShape

\* R differs from m at most in the text after a handoff, which it keeps, and in memory's flags.
SameButMarks(R, m) ==
    /\ R \in Seq(Row) /\ Len(R) = Len(m)
    /\ \A i \in 1 .. Len(m) :
          /\ R[i].role = m[i].role /\ R[i].calls = m[i].calls /\ R[i].ans = m[i].ans
          /\ R[i].handoff = m[i].handoff /\ R[i].sum = m[i].sum /\ R[i].live = m[i].live
          /\ m[i].after \subseteq R[i].after

\* Such a transcript has the shape, and says what the other says.
LEMMA MarksShape ==
    ASSUME NEW k, NEW m, Shaped(m, k), NEW R, SameButMarks(R, m),
           \A i \in 1 .. Len(R) : GoodRow(R[i], k)
    PROVE  Shaped(R, k) /\ Covers(R, m)
<1>1. /\ R \in Seq(Row) /\ Len(R) = Len(m) /\ Len(m) \in Int /\ Len(m) >= 1
      /\ \A i \in 1 .. Len(m) :
          /\ R[i].role = m[i].role /\ R[i].calls = m[i].calls /\ R[i].ans = m[i].ans
          /\ R[i].handoff = m[i].handoff /\ R[i].sum = m[i].sum /\ R[i].live = m[i].live
          /\ m[i].after \subseteq R[i].after
  BY DEF SameButMarks, Shaped
<1>2. /\ m \in Seq(Row) /\ m[1].role = "system" /\ m[1].handoff = "none"
      /\ Paired(m) /\ OneHandoff(m) /\ Placed(m)
  BY DEF Shaped
<1>3. Paired(R)
  <2> SUFFICES ASSUME NEW i \in 1 .. Len(R), R[i].role = "tool"
               PROVE  i > 1 /\ R[i - 1].role = "assistant" /\ R[i].ans \in R[i - 1].calls
    BY DEF Paired
  <2>1. i \in 1 .. Len(m) /\ m[i].role = "tool" /\ R[i].ans = m[i].ans
    BY <1>1
  <2>2. i > 1 /\ m[i - 1].role = "assistant" /\ m[i].ans \in m[i - 1].calls
    BY <1>2, <2>1 DEF Paired
  <2>3. i - 1 \in 1 .. Len(m)
    BY ONLY <1>1, <2>1, <2>2
  <2> QED
    BY <1>1, <2>1, <2>2, <2>3
<1>4. OneHandoff(R)
  BY <1>1, <1>2 DEF OneHandoff
<1>5. Placed(R)
  <2> SUFFICES ASSUME NEW i \in 1 .. Len(R), R[i].handoff # "none"
               PROVE  /\ R[i].role # "tool"
                      /\ R[i].calls = {} \/ \A j \in 2 + ProtectFirst .. i - 1 : R[j].role = "tool"
    BY DEF Placed
  <2>1. i \in 1 .. Len(m) /\ m[i].handoff # "none"
    BY <1>1
  <2>2. /\ m[i].role # "tool"
        /\ m[i].calls = {} \/ \A j \in 2 + ProtectFirst .. i - 1 : m[j].role = "tool"
    BY <1>2, <2>1 DEF Placed
  <2>3. ProtectFirst \in Int /\ ProtectFirst >= 0
    BY WindowAssumption
  <2>4. \A j \in 2 + ProtectFirst .. i - 1 : j \in 1 .. Len(m)
    BY ONLY <1>1, <2>1, <2>3
  <2>5. R[i].role # "tool" /\ R[i].calls = m[i].calls
    BY <1>1, <2>1, <2>2
  <2> QED
    BY <1>1, <2>2, <2>4, <2>5
<1>6. 1 \in 1 .. Len(m) /\ R[1].role = "system" /\ R[1].handoff = "none"
  BY <1>1, <1>2
<1>7. Shaped(R, k)
  BY ONLY <1>1, <1>3, <1>4, <1>5, <1>6, \A i \in 1 .. Len(R) : GoodRow(R[i], k) DEF Shaped
<1>8. ASSUME NEW x, Kept(m, x) PROVE Kept(R, x)
  <2>1. PICK i \in 1 .. Len(m) : m[i].role # "tool" /\ Says(m[i], x)
    BY ONLY Kept(m, x) DEF Kept
  <2>2. i \in 1 .. Len(R) /\ R[i].role # "tool" /\ Says(R[i], x)
    BY ONLY <1>1, <2>1 DEF Says
  <2> QED
    BY ONLY <2>2 DEF Kept
<1>9. Summaries(R) \subseteq Summaries(m)
  <2>1. DOMAIN R = 1 .. Len(m) /\ DOMAIN m = 1 .. Len(m)
    BY ONLY <1>1, <1>2
  <2> QED
    BY ONLY <1>1, <2>1 DEF Summaries
<1> QED
  BY ONLY <1>7, <1>8, <1>9 DEF Covers

\* The request found open is one that was handed out.
LEMMA TaskRange ==
    ASSUME NEW k, NEW m, Shaped(m, k)
    PROVE  FindInflightUserTask(m) \in SUBSET (0 .. k)
<1>1. PICK tasks : tasks = {i \in Positions(m, 0) : IsTask(At(m, i))}
  OBVIOUS
<1>2. PICK task : task = LastOf(tasks)
  OBVIOUS
<1>3. FindInflightUserTask(m) = {} \/ (task >= 0 /\ FindInflightUserTask(m) = TaskText(At(m, task)))
  <2>1. task \in Int
    <3>1. Len(m) \in Int /\ Len(m) >= 0
      BY DEF Shaped
    <3>2. tasks \in SUBSET Int /\ \A x \in tasks : x >= 0 /\ x < Len(m)
      BY <1>1, <3>1 DEF Positions
    <3> QED
      BY <1>2, <3>1, <3>2, LastOfPositions
  <2>2. FindInflightUserTask(m) = {} \/ (~(task < 0) /\ FindInflightUserTask(m) = TaskText(At(m, task)))
    BY <1>1, <1>2 DEF FindInflightUserTask
  <2> QED
    BY ONLY <2>1, <2>2
<1>4. ASSUME task >= 0 PROVE TaskText(At(m, task)) \in SUBSET (0 .. k)
  <2>1. Len(m) \in Int /\ Len(m) >= 0
    BY DEF Shaped
  <2>2. tasks \in SUBSET Int /\ \A x \in tasks : x >= 0 /\ x < Len(m)
    BY <1>1, <2>1 DEF Positions
  <2>3. task \in tasks
    BY <1>2, <1>4, <2>1, <2>2, LastOfPositions
  <2>4. task + 1 \in 1 .. Len(m)
    BY <2>1, <2>2, <2>3
  <2>5. PICK r : r = m[task + 1]
    OBVIOUS
  <2>6. GoodRow(r, k) /\ At(m, task) = r
    BY <2>4, <2>5 DEF Shaped, At
  <2>7. r.live \subseteq 0 .. k /\ r.after \subseteq 0 .. k
    BY <2>6 DEF GoodRow
  <2> QED
    BY ONLY <2>6, <2>7 DEF TaskText
<1> QED
  BY <1>3, <1>4

\* A row in plain text.
LEMMA SpokenRow ==
    ASSUME NEW k \in Nat, NEW id \in 0 .. k, NEW role \in {"user", "assistant", "tool"},
           NEW r, r = PlainRow(role, id)
    PROVE  /\ GoodRow(r, k) /\ r \in Row /\ r.role = role /\ r.handoff = "none" /\ r.live = {id}
           /\ r.sum = {} /\ r.after = {} /\ r.calls = {}
<1>1. {id} \subseteq Nat /\ {id} \subseteq 0 .. k
  OBVIOUS
<1>2. r \in Row
  BY <1>1 DEF PlainRow, Row
<1>3. /\ r.role = role /\ r.handoff = "none" /\ r.live = {id} /\ r.sum = {} /\ r.after = {}
      /\ r.text = TRUE /\ r.kind = "plain" /\ r.calls = {}
  BY DEF PlainRow
<1> QED
  BY ONLY <1>1, <1>2, <1>3 DEF GoodRow

\* A user's row in plain text, whatever it says.
PlainTurn(live) == [PlainRow("user", 0) EXCEPT !.live = live]

\* Such a row is good when its ids were handed out.
LEMMA UserRow ==
    ASSUME NEW k \in Nat, NEW live \in SUBSET (0 .. k), NEW r, r = PlainTurn(live)
    PROVE  /\ GoodRow(r, k) /\ r \in Row /\ r.role = "user" /\ r.handoff = "none"
           /\ r.live = live /\ r.sum = {} /\ r.after = {}
<1>1. live \subseteq Nat
  OBVIOUS
<1>2. PlainRow("user", 0) \in Row
  BY DEF PlainRow, Row
<1>3. /\ r.role = "user" /\ r.handoff = "none" /\ r.live = live /\ r.sum = {} /\ r.after = {}
      /\ r.text = TRUE /\ r.kind = "plain" /\ r.calls = {}
  BY DEF PlainTurn, PlainRow
<1>4. r \in Row
  BY <1>1, <1>2 DEF PlainTurn, Row
<1> QED
  BY ONLY <1>3, <1>4, live \in SUBSET (0 .. k) DEF GoodRow

\* Restating the open request adds to a carrier that has no text after its summary, or a row.
LEMMA ReappendShape ==
    ASSUME NEW k \in Nat, NEW m, Shaped(m, k), NEW task \in SUBSET (0 .. k),
           NEW R, R = ReappendInflightUserTask(m, task)
    PROVE  Shaped(R, k) /\ Covers(R, m)
<1>1. PICK carrier : carrier = LastOf(Handoffs(m))
  OBVIOUS
<1>2. PICK r : r = PlainTurn(task)
  OBVIOUS
<1>3. PICK M : M = [m EXCEPT ![carrier + 1].after = task, ![carrier + 1].flag = TRUE]
  OBVIOUS
<1>4. m \in Seq(Row) /\ Len(m) \in Int /\ Len(m) >= 1
  BY DEF Shaped
<1>5. carrier \in Int
  <2>1. Handoffs(m) \in SUBSET Int /\ \A x \in Handoffs(m) : x >= 0 /\ x < Len(m)
    BY <1>4, HandoffPositions
  <2>2. Len(m) >= 0
    BY <1>4
  <2> QED
    BY <1>1, <1>4, <2>1, <2>2, LastOfPositions
<1>6. \/ R = m
      \/ R = M /\ carrier >= 0 /\ At(m, carrier).after = {}
      \/ R = Append(m, r)
  <2>1. \/ R = m
        \/ R = M /\ ~(carrier < 0) /\ ~(At(m, carrier).after # {})
        \/ R = Append(m, r)
    BY <1>1, <1>2, <1>3 DEF ReappendInflightUserTask, PlainTurn
  <2> QED
    BY ONLY <1>5, <2>1
<1>7. CASE R = m
  BY <1>7 DEF Covers
<1>8. CASE R = Append(m, r)
  <2>1. GoodRow(r, k) /\ r \in Row /\ r.role = "user" /\ r.handoff = "none" /\ r.sum = {}
    BY <1>2, UserRow
  <2>2. Shaped(Append(m, r), k)
    <3>1. k <= k /\ r.role # "tool"
      BY <2>1
    <3> QED
      BY <2>1, <3>1, AppendShape
  <2>3. /\ \A x : Kept(m, x) => Kept(Append(m, r), x)
        /\ Summaries(Append(m, r)) = Summaries(m) \cup r.sum
    BY <1>4, <2>1, AppendSays
  <2> QED
    BY ONLY <1>8, <2>1, <2>2, <2>3 DEF Covers
<1>9. CASE R = M /\ carrier >= 0 /\ At(m, carrier).after = {}
  <2>1. PICK c : c = carrier + 1
    OBVIOUS
  <2>2. c \in 1 .. Len(m) /\ m[c].handoff # "none" /\ m[c].after = {}
    <3>1. /\ Handoffs(m) \in SUBSET Int
          /\ \A x \in Handoffs(m) : x >= 0 /\ x < Len(m) /\ m[x + 1].handoff # "none"
      BY <1>4, HandoffPositions
    <3>2. Len(m) >= 0 /\ \A x \in Handoffs(m) : x >= 0 /\ x < Len(m)
      BY <1>4, <3>1
    <3>3. carrier \in Handoffs(m)
      BY <1>1, <1>4, <1>9, <3>1, <3>2, LastOfPositions
    <3> QED
      BY <1>4, <1>9, <2>1, <3>1, <3>3 DEF At
  <2>3. PICK f : f = m[c]
    OBVIOUS
  <2>4. f \in Row /\ GoodRow(f, k)
    BY <2>2, <2>3 DEF Shaped, GoodRow
  <2>5. PICK g : g = [f EXCEPT !.after = task, !.flag = TRUE]
    OBVIOUS
  <2>6. task \subseteq Nat
    OBVIOUS
  <2>7. /\ g \in Row /\ g.role = f.role /\ g.kind = f.kind /\ g.live = f.live /\ g.text = f.text
        /\ g.calls = f.calls /\ g.ans = f.ans /\ g.handoff = f.handoff /\ g.sum = f.sum
        /\ g.after = task
    BY ONLY <2>4, <2>5, <2>6 DEF Row
  <2>8. GoodRow(g, k)
    <3>1. f.handoff # "none"
      BY <2>2, <2>3
    <3> QED
      BY ONLY <2>4, <2>7, <3>1, task \in SUBSET (0 .. k) DEF GoodRow
  <2>9. /\ M \in Seq(Row) /\ Len(M) = Len(m) /\ M[c] = g
        /\ \A i \in 1 .. Len(m) : i # c => M[i] = m[i]
    <3>1. M = [m EXCEPT ![c] = g]
      BY ONLY <1>3, <1>4, <2>1, <2>2, <2>3, <2>5
    <3> QED
      BY ONLY <1>4, <2>2, <2>7, <3>1
  <2>10. \A i \in 1 .. Len(M) : GoodRow(M[i], k)
    <3> SUFFICES ASSUME NEW i \in 1 .. Len(M) PROVE GoodRow(M[i], k)
      OBVIOUS
    <3>1. i \in 1 .. Len(m) /\ GoodRow(m[i], k)
      BY <2>9 DEF Shaped
    <3> QED
      BY ONLY <2>8, <2>9, <3>1
  <2>11. SameButMarks(M, m)
    <3>1. ASSUME NEW i \in 1 .. Len(m)
          PROVE  /\ M[i].role = m[i].role /\ M[i].calls = m[i].calls /\ M[i].ans = m[i].ans
                 /\ M[i].handoff = m[i].handoff /\ M[i].sum = m[i].sum /\ M[i].live = m[i].live
                 /\ m[i].after \subseteq M[i].after
      <4>1. CASE i = c
        BY ONLY <2>2, <2>3, <2>7, <2>9, <4>1
      <4>2. CASE i # c
        BY ONLY <2>9, <4>2, i \in 1 .. Len(m)
      <4> QED
        BY <4>1, <4>2
    <3> QED
      BY ONLY <2>9, <3>1 DEF SameButMarks
  <2>12. Shaped(M, k) /\ Covers(M, m)
    BY ONLY Shaped(m, k), <2>10, <2>11, MarksShape
  <2> QED
    BY ONLY <1>9, <2>12
<1> QED
  BY ONLY <1>6, <1>7, <1>8, <1>9

\* Putting this turn's request back after a handoff adds a row.
LEMMA RestoreShape ==
    ASSUME NEW k \in Nat, NEW m, Shaped(m, k), owed \in 0 .. k,
           NEW R, R = RestoreUserAfterHandoff(m)
    PROVE  Shaped(R, k) /\ Covers(R, m)
<1>1. PICK r : r = PlainRow("user", owed)
  OBVIOUS
<1>2. R = m \/ R = Append(m, r)
  BY <1>1 DEF RestoreUserAfterHandoff
<1>5. GoodRow(r, k) /\ r \in Row /\ r.role = "user" /\ r.handoff = "none" /\ r.sum = {}
  BY <1>1, SpokenRow
<1>6. Shaped(Append(m, r), k)
  <2>1. k <= k /\ r.role # "tool"
    BY <1>5
  <2> QED
    BY ONLY k \in Nat, Shaped(m, k), <1>5, <2>1, AppendShape
<1>7. m \in Seq(Row)
  BY DEF Shaped
<1>8. /\ \A x : Kept(m, x) => Kept(Append(m, r), x)
      /\ Summaries(Append(m, r)) = Summaries(m) \cup r.sum
  BY ONLY <1>5, <1>7, AppendSays
<1>9. Covers(Append(m, r), m) /\ Covers(m, m)
  BY ONLY <1>5, <1>8 DEF Covers
<1> QED
  BY <1>2, <1>6, <1>9

\* The request in a row: the row is a user's, and says nothing else but the summary it may carry.
LEMMA AskOfRow ==
    ASSUME NEW k, NEW r, GoodRow(r, k), NEW ask \in UserTurn(r)
    PROVE  /\ r.role = "user" /\ ask.live \in SUBSET (0 .. k)
           /\ \A x : Says(r, x) => x \in ask.live \/ x \in r.sum
<1>1. r \in Row
  BY DEF GoodRow
<1>2. PICK u : u = [r EXCEPT !.handoff = "none", !.sum = {}, !.after = {}]
  OBVIOUS
<1>3. PICK v : v = [u EXCEPT !.live = r.after, !.text = TRUE]
  OBVIOUS
<1>4. u.role = r.role /\ u.live = r.live /\ v.role = r.role /\ v.live = r.after
  BY ONLY <1>1, <1>2, <1>3 DEF Row
<1>5. StripHandoff(r) =
        IF r.handoff = "none" THEN <<r>>
        ELSE IF r.handoff = "merged" THEN IF r.text THEN <<u>> ELSE <<>>
             ELSE IF r.after = {} THEN <<>> ELSE <<v>>
  BY ONLY <1>2, <1>3 DEF StripHandoff, IsContextSummary
<1>6. ask \in ToSet(StripHandoff(r)) /\ ask.role = "user"
  BY DEF UserTurn, IsActionableUserTurn
<1>7. /\ ToSet(<<r>>) = {r} /\ ToSet(<<u>>) = {u} /\ ToSet(<<v>>) = {v} /\ ToSet(<<>>) = {}
  BY ONLY DEF ToSet
<1>8. \/ r.handoff = "none" /\ ask = r
      \/ r.handoff = "merged" /\ ask = u
      \/ r.handoff = "standalone" /\ ask = v
  <2>1. CASE r.handoff = "none"
    BY ONLY <1>5, <1>6, <1>7, <2>1
  <2>2. CASE r.handoff = "merged"
    BY ONLY <1>5, <1>6, <1>7, <2>2
  <2>3. CASE r.handoff = "standalone"
    BY ONLY <1>5, <1>6, <1>7, <2>3
  <2>4. r.handoff \in {"none", "standalone", "merged"}
    BY ONLY <1>1 DEF Row
  <2> QED
    BY ONLY <2>1, <2>2, <2>3, <2>4
<1>9. /\ r.live \subseteq 0 .. k /\ r.after \subseteq 0 .. k
      /\ (r.handoff = "none" => r.sum = {} /\ r.after = {})
      /\ (r.handoff = "standalone" => r.live = {})
  BY DEF GoodRow
<1>10. r.role = "user" /\ ask.live \in SUBSET (0 .. k)
  BY ONLY <1>4, <1>6, <1>8, <1>9
<1>11. ASSUME NEW x, Says(r, x) PROVE x \in ask.live \/ x \in r.sum
  BY ONLY <1>4, <1>8, <1>9, <1>11 DEF Says
<1> QED
  BY ONLY <1>10, <1>11

\* The carrier without its request is a good row still, and carries what it carried.
LEMMA HandoffOnlyRow ==
    ASSUME NEW k, NEW r, GoodRow(r, k), r.role = "user", NEW h, h = HandoffOnly(r)
    PROVE  GoodRow(h, k) /\ h \in Row /\ h.role = "user" /\ h.handoff = "standalone" /\ h.sum = r.sum
<1>1. r \in Row
  BY DEF GoodRow
<1>2. /\ h \in Row /\ h.role = r.role /\ h.handoff = "standalone" /\ h.sum = r.sum /\ h.live = {}
      /\ h.after = {} /\ h.kind = "plain" /\ h.calls = r.calls
  BY ONLY <1>1, h = HandoffOnly(r) DEF HandoffOnly, Row
<1> QED
  BY ONLY <1>2, GoodRow(r, k), r.role = "user" DEF GoodRow

\* What is left before a request that is taken back: the rows before it, and its row's handoff.
LEMMA HistoryShape ==
    ASSUME NEW k \in Nat, NEW m, Shaped(m, k), NEW i \in 1 .. Len(m), m[i].role = "user",
           NEW H, H = HistoryBefore(m, i)
    PROVE  /\ Shaped(H, k) /\ Summaries(H) \subseteq Summaries(m)
           /\ \A x : (x \in m[i].sum \/ \E j \in 1 .. i - 1 : m[j].role # "tool" /\ Says(m[j], x))
                        => Kept(H, x)
<1>1. PICK P : P = SubSeq(m, 1, i - 1)
  OBVIOUS
<1>2. PICK r : r = m[i]
  OBVIOUS
<1>3. PICK h : h = HandoffOnly(r)
  OBVIOUS
<1>4. m \in Seq(Row) /\ Len(m) \in Int /\ m[1].role = "system" /\ i \in Int /\ GoodRow(r, k)
  BY <1>2 DEF Shaped
<1>5. i > 1 /\ i - 1 \in 1 .. Len(m)
  <2>1. i # 1
    BY <1>4
  <2> QED
    BY <1>4, <2>1
<1>6. PICK n : n = i - 1
  OBVIOUS
<1>7. n \in 1 .. Len(m) /\ n \in Int /\ P = SubSeq(m, 1, n) /\ i = n + 1
  BY ONLY <1>1, <1>4, <1>5, <1>6
<1>8. Shaped(P, k) /\ Len(P) = n /\ \A j \in 1 .. n : P[j] = m[j]
  BY ONLY Shaped(m, k), <1>7, PrefixShape
<1>9. P \in Seq(Row) /\ DOMAIN P = 1 .. n /\ DOMAIN m = 1 .. Len(m)
  <2>1. P \in Seq(Row)
    BY <1>8 DEF Shaped
  <2> QED
    BY ONLY <1>4, <1>8, <2>1
<1>10. Summaries(P) \subseteq Summaries(m)
  <2>1. \A j \in DOMAIN P : j \in DOMAIN m /\ P[j] = m[j]
    BY ONLY <1>4, <1>7, <1>8, <1>9
  <2> QED
    BY ONLY <2>1 DEF Summaries
<1>11. ASSUME NEW x, NEW j \in 1 .. i - 1, m[j].role # "tool", Says(m[j], x) PROVE Kept(P, x)
  <2>1. j \in 1 .. Len(P) /\ P[j] = m[j]
    BY ONLY <1>6, <1>8, j \in 1 .. i - 1
  <2> QED
    BY ONLY <1>11, <2>1 DEF Kept
<1>12. CASE r.handoff = "none"
  <2>1. H = P \o <<>>
    BY ONLY H = HistoryBefore(m, i), <1>1, <1>2, <1>12 DEF HistoryBefore, IsContextSummary
  <2>2. P \o <<>> = P
    BY ONLY <1>9, ConcatEmptySeq
  <2>3. m[i].sum = {}
    BY ONLY <1>2, <1>4, <1>12 DEF GoodRow
  <2> QED
    BY ONLY <1>8, <1>10, <1>11, <2>1, <2>2, <2>3
<1>13. CASE r.handoff # "none"
  <2>1. H = P \o <<h>>
    BY ONLY H = HistoryBefore(m, i), <1>1, <1>2, <1>3, <1>13 DEF HistoryBefore, IsContextSummary
  <2>2. GoodRow(h, k) /\ h \in Row /\ h.role = "user" /\ h.handoff = "standalone" /\ h.sum = r.sum
    BY ONLY <1>2, <1>3, <1>4, m[i].role = "user", HandoffOnlyRow
  <2>3. H = Append(P, h)
    BY ONLY <1>9, <2>1, <2>2
  <2>4. \A j \in 1 .. Len(P) : P[j].handoff = "none"
    <3> SUFFICES ASSUME NEW j \in 1 .. Len(P), P[j].handoff # "none" PROVE FALSE
      OBVIOUS
    <3>1. j \in 1 .. Len(m) /\ P[j] = m[j] /\ j # i
      BY ONLY <1>4, <1>7, <1>8, j \in 1 .. Len(P)
    <3>2. OneHandoff(m)
      BY DEF Shaped
    <3> QED
      BY ONLY <1>2, <1>13, <3>1, <3>2, i \in 1 .. Len(m), P[j].handoff # "none" DEF OneHandoff
  <2>5. Shaped(Append(P, h), k)
    <3>1. k <= k /\ h.role # "tool"
      BY <2>2
    <3> QED
      BY ONLY k \in Nat, <1>8, <2>2, <2>4, <3>1, AppendShape
  <2>6. /\ \A x : Kept(P, x) => Kept(Append(P, h), x)
        /\ \A x : h.role # "tool" /\ Says(h, x) => Kept(Append(P, h), x)
        /\ Summaries(Append(P, h)) = Summaries(P) \cup h.sum
    BY ONLY <1>9, <2>2, AppendSays
  <2>7. m[i].sum \subseteq Summaries(m)
    BY ONLY <1>9, i \in 1 .. Len(m) DEF Summaries
  <2>8. \A x \in m[i].sum : Says(h, x)
    BY ONLY <1>2, <2>2 DEF Says
  <2>9. Summaries(H) \subseteq Summaries(m)
    BY ONLY <1>2, <1>10, <2>2, <2>3, <2>6, <2>7
  <2>10. \A x \in m[i].sum : Kept(H, x)
    BY ONLY <2>2, <2>3, <2>6, <2>8
  <2> QED
    BY ONLY <1>11, <2>3, <2>5, <2>6, <2>9, <2>10
<1> QED
  BY <1>12, <1>13

\* What a retry of row i says again and what it takes back with the rows it removes.
AskedAgain(m, i, ask) == Append(HistoryBefore(m, i), PlainTurn(ask.live))
TakenBack(m, i) ==
    LET taken == SubSeq(m, i + 1, Len(m))
    IN  Live(taken) \cup Summaries(taken) \cup Restated(taken)

\* A request sent again: the transcript up to it, and nothing lost but what came after it.
LEMMA RetryShape ==
    ASSUME NEW k \in Nat, NEW m, Shaped(m, k), NEW i \in 1 .. Len(m), NEW ask,
           ask \in UserTurn(m[i]), NEW back, back = TakenBack(m, i),
           NEW R, R = AskedAgain(m, i, ask)
    PROVE  /\ Shaped(R, k) /\ Summaries(R) \subseteq Summaries(m)
           /\ ask.live \in SUBSET (0 .. k)
           /\ \A x \in ask.live : Kept(R, x)
           /\ \A x : Kept(m, x) /\ x \notin back => Kept(R, x)
<1>1. PICK H : H = HistoryBefore(m, i)
  OBVIOUS
<1>2. PICK r : r = PlainTurn(ask.live)
  OBVIOUS
<1>12. PICK taken : taken = SubSeq(m, i + 1, Len(m))
  OBVIOUS
<1>13. back = Live(taken) \cup Summaries(taken) \cup Restated(taken)
  BY <1>12 DEF TakenBack
<1>3. GoodRow(m[i], k) /\ m \in Seq(Row) /\ Len(m) \in Int /\ i \in Int /\ 1 <= i /\ i <= Len(m)
  BY DEF Shaped
<1>4. /\ m[i].role = "user" /\ ask.live \in SUBSET (0 .. k)
      /\ \A x : Says(m[i], x) => x \in ask.live \/ x \in m[i].sum
  BY ONLY <1>3, ask \in UserTurn(m[i]), AskOfRow
<1>5. /\ Shaped(H, k) /\ Summaries(H) \subseteq Summaries(m)
      /\ \A x : (x \in m[i].sum \/ \E j \in 1 .. i - 1 : m[j].role # "tool" /\ Says(m[j], x))
                    => Kept(H, x)
  BY ONLY k \in Nat, Shaped(m, k), i \in 1 .. Len(m), <1>1, <1>4, HistoryShape
<1>6. /\ GoodRow(r, k) /\ r \in Row /\ r.role = "user" /\ r.handoff = "none"
      /\ r.live = ask.live /\ r.sum = {}
  BY ONLY k \in Nat, <1>2, <1>4, UserRow
<1>7. R = Append(H, r)
  BY <1>1, <1>2 DEF AskedAgain
<1>8. Shaped(R, k)
  <2>1. k <= k /\ r.role # "tool"
    BY <1>6
  <2>2. Shaped(Append(H, r), k)
    BY ONLY k \in Nat, <1>5, <1>6, <2>1, AppendShape
  <2> QED
    BY ONLY <1>7, <2>2
<1>9. /\ \A x : Kept(H, x) => Kept(R, x)
      /\ \A x : r.role # "tool" /\ Says(r, x) => Kept(R, x)
      /\ Summaries(R) = Summaries(H) \cup r.sum
  <2>1. H \in Seq(Row)
    BY <1>5 DEF Shaped
  <2> QED
    BY ONLY <1>6, <1>7, <2>1, AppendSays
<1>10. \A x \in ask.live : Kept(R, x)
  <2>1. \A x \in ask.live : Says(r, x)
    BY ONLY <1>6 DEF Says
  <2> QED
    BY ONLY <1>6, <1>9, <2>1
<1>11. ASSUME NEW x, Kept(m, x), x \notin back
       PROVE  Kept(R, x)
  <2>1. PICK j \in 1 .. Len(m) : m[j].role # "tool" /\ Says(m[j], x)
    BY ONLY Kept(m, x) DEF Kept
  <2>2. ~(j > i)
    <3>1. SUFFICES ASSUME j > i PROVE FALSE
      OBVIOUS
    <3>2. PICK p : p = j - i
      OBVIOUS
    <3>3. p \in DOMAIN taken /\ taken[p] = m[j]
      <4>1. taken \in Seq(Row) /\ Len(taken) = Len(m) - i
        BY ONLY <1>3, <1>12
      <4>2. p \in 1 .. Len(taken) /\ i + 1 + p - 1 = j
        BY ONLY <1>3, <3>1, <3>2, <4>1, j \in 1 .. Len(m)
      <4>3. taken[p] = m[i + 1 + p - 1]
        BY ONLY <1>3, <4>1, <4>2, <1>12
      <4> QED
        BY ONLY <4>1, <4>2, <4>3
    <3>4. x \in taken[p].live \cup taken[p].sum \cup taken[p].after
      BY ONLY <2>1, <3>3 DEF Says
    <3>5. x \in Live(taken) \cup Summaries(taken) \cup Restated(taken)
      BY ONLY <3>3, <3>4 DEF Live, Summaries, Restated
    <3> QED
      BY ONLY <1>11, <1>13, <3>5
  <2>3. CASE j = i
    <3>1. x \in ask.live \/ x \in m[i].sum
      BY ONLY <1>4, <2>1, <2>3
    <3> QED
      BY ONLY <1>5, <1>9, <1>10, <3>1
  <2>4. CASE j \in 1 .. i - 1
    BY ONLY <1>5, <1>9, <2>1, <2>4
  <2>5. j = i \/ j \in 1 .. i - 1
    BY ONLY <1>3, <2>2, j \in 1 .. Len(m)
  <2> QED
    BY ONLY <2>3, <2>4, <2>5
<1> QED
  BY ONLY <1>4, <1>5, <1>6, <1>8, <1>9, <1>10, <1>11

\* A restart forgets flags only.
LEMMA RestartShape ==
    ASSUME NEW k, NEW m, Shaped(m, k),
           NEW R, R = [i \in DOMAIN m |-> [m[i] EXCEPT !.flag = FALSE]]
    PROVE  Shaped(R, k) /\ Covers(R, m)
<1>1. m \in Seq(Row) /\ DOMAIN m = 1 .. Len(m) /\ Len(m) \in Nat
  BY DEF Shaped
<1>2. ASSUME NEW i \in 1 .. Len(m)
      PROVE  /\ R[i] \in Row /\ GoodRow(R[i], k)
             /\ R[i].role = m[i].role /\ R[i].calls = m[i].calls /\ R[i].ans = m[i].ans
             /\ R[i].handoff = m[i].handoff /\ R[i].sum = m[i].sum /\ R[i].live = m[i].live
             /\ m[i].after \subseteq R[i].after
  <2>1. PICK f, g : f = m[i] /\ g = R[i]
    OBVIOUS
  <2>2. f \in Row /\ GoodRow(f, k)
    BY <1>1, <2>1 DEF Shaped
  <2>3. g = [f EXCEPT !.flag = FALSE]
    BY <1>1, <2>1
  <2>4. /\ g \in Row /\ g.role = f.role /\ g.kind = f.kind /\ g.live = f.live /\ g.text = f.text
        /\ g.calls = f.calls /\ g.ans = f.ans /\ g.handoff = f.handoff /\ g.sum = f.sum
        /\ g.after = f.after
    BY ONLY <2>2, <2>3 DEF Row
  <2>5. GoodRow(g, k)
    BY ONLY <2>2, <2>4 DEF GoodRow
  <2> QED
    BY ONLY <2>1, <2>4, <2>5
<1>3. R \in Seq(Row) /\ Len(R) = Len(m)
  <2>1. R \in [1 .. Len(m) -> Row]
    BY ONLY <1>1, <1>2, R = [i \in DOMAIN m |-> [m[i] EXCEPT !.flag = FALSE]]
  <2> QED
    BY ONLY <1>1, <2>1
<1>4. SameButMarks(R, m) /\ \A i \in 1 .. Len(R) : GoodRow(R[i], k)
  BY ONLY <1>2, <1>3 DEF SameButMarks
<1> QED
  BY ONLY Shaped(m, k), <1>4, MarksShape

-----------------------------------------------------------------------------
(* Everything said is kept, and the remembered summary is the transcript's. *)

\* What holds of a transcript m, the remembered summary, the ids handed out and those said.
Sound(m, summary, k, heard, lapsed) ==
    /\ Shaped(m, k)
    /\ summary = NoSummary \/ summary \subseteq 1 .. k
    /\ lapsed \/ summary = NoSummary \/ Summaries(m) \subseteq summary
    /\ lapsed \/ \A x \in heard : Kept(m, x)
    /\ 0 \notin heard

\* An appended row keeps it, when it says what is heard next.
LEMMA SoundAppend ==
    ASSUME NEW k \in Nat, NEW l \in Nat, k <= l, NEW m, NEW summary, NEW heard, NEW lapsed,
           Sound(m, summary, k, heard, lapsed), NEW r, GoodRow(r, l), r.handoff = "none",
           r.role = "tool" => m[Len(m)].role = "assistant" /\ r.ans \in m[Len(m)].calls,
           NEW now, 0 \notin now, \A x \in now : x \in heard \/ (r.role # "tool" /\ x \in r.live)
    PROVE  Sound(Append(m, r), summary, l, now, lapsed)
<1>1. /\ Shaped(m, k) /\ (summary = NoSummary \/ summary \subseteq 1 .. k)
      /\ (lapsed \/ summary = NoSummary \/ Summaries(m) \subseteq summary)
      /\ (lapsed \/ \A x \in heard : Kept(m, x))
  BY DEF Sound
<1>2. m \in Seq(Row) /\ r \in Row /\ r.sum = {}
  BY <1>1 DEF Shaped, GoodRow
<1>3. PICK A : A = Append(m, r)
  OBVIOUS
<1>4. Shaped(A, l)
  BY <1>1, <1>3, AppendShape
<1>5. /\ \A x : Kept(m, x) => Kept(A, x)
      /\ \A x : r.role # "tool" /\ Says(r, x) => Kept(A, x)
      /\ Summaries(A) = Summaries(m) \cup r.sum
  BY ONLY <1>2, <1>3, AppendSays
<1>6. summary = NoSummary \/ summary \subseteq 1 .. l
  <2>1. 1 .. k \subseteq 1 .. l
    BY ONLY k \in Nat, l \in Nat, k <= l
  <2> QED
    BY ONLY <1>1, <2>1
<1>7. lapsed \/ summary = NoSummary \/ Summaries(A) \subseteq summary
  BY ONLY <1>1, <1>2, <1>5
<1>8. lapsed \/ \A x \in now : Kept(A, x)
  <2> SUFFICES ASSUME ~lapsed, NEW x \in now PROVE Kept(A, x)
    OBVIOUS
  <2>1. CASE x \in heard
    BY ONLY <1>1, <1>5, <2>1, ~lapsed
  <2>2. CASE r.role # "tool" /\ x \in r.live
    <3>1. Says(r, x)
      BY ONLY <2>2 DEF Says
    <3> QED
      BY ONLY <1>5, <2>2, <3>1
  <2> QED
    BY <2>1, <2>2
<1> QED
  BY ONLY <1>3, <1>4, <1>6, <1>7, <1>8, 0 \notin now DEF Sound

\* A transcript that covers another keeps it, and so does a summary that is forgotten.
LEMMA SoundCovered ==
    ASSUME NEW k, NEW m, NEW summary, NEW heard, NEW lapsed, Sound(m, summary, k, heard, lapsed),
           NEW R, Shaped(R, k), Covers(R, m)
    PROVE  Sound(R, summary, k, heard, lapsed) /\ Sound(R, NoSummary, k, heard, lapsed)
BY DEF Sound, Covers

\* A compaction keeps it.
LEMMA SoundCompacted ==
    ASSUME NEW k \in Nat, NEW m, NEW heard, NEW lapsed \in BOOLEAN,
           Sound(m, previousSummary, k, heard, lapsed), owed \in 0 .. k, NEW decayed \in BOOLEAN,
           NEW w, w = CompressWindow(m, decayed), w.start < w.end,
           NEW scan, scan = ScanWindowHandoffs(m, w),
           NEW body, body = Contents(scan.previous) \cup (Live(scan.turns) \ {0}),
           NEW result, result = Finalized(m, AssembleCompressed(m, w, scan, body)),
           NEW R, R = result \/ R = RestoreUserAfterHandoff(result),
           NEW outcome, NEW lapsing,
           lapsing = (lapsed \/ (outcome = "fallback" /\ scan.previous # NoSummary)),
           outcome \in {"ok", "fallback"}
    PROVE  Sound(R, RememberedAfter(outcome, scan.previous, body), k, heard, lapsing)
<1>1. /\ Shaped(m, k) /\ (previousSummary = NoSummary \/ previousSummary \subseteq 1 .. k)
      /\ (lapsed \/ previousSummary = NoSummary \/ Summaries(m) \subseteq previousSummary)
      /\ (lapsed \/ \A x \in heard : Kept(m, x)) /\ 0 \notin heard
  BY DEF Sound
<1>2. /\ body \subseteq 1 .. k
      /\ scan.previous = NoSummary \/ scan.previous \subseteq 1 .. k
  <2>1. /\ Shaped(m, k) /\ (previousSummary = NoSummary \/ previousSummary \subseteq 1 .. k)
        /\ w = CompressWindow(m, decayed) /\ w.start < w.end /\ scan = ScanWindowHandoffs(m, w)
        /\ body = Contents(scan.previous) \cup (Live(scan.turns) \ {0})
    BY <1>1
  <2> QED
    BY ONLY <2>1, k \in Nat, decayed \in BOOLEAN, BodyRange
<1>3. PICK S : S = SanitizeToolPairs(AssembleCompressed(m, w, scan, body))
  OBVIOUS
<1>4. Shaped(S, k) /\ Summaries(S) \subseteq body
  <2>1. body \in SUBSET (1 .. k)
    BY <1>2
  <2> QED
    BY <1>1, <1>3, <2>1, CompactedShape
<1>5. ASSUME ~lapsed, NEW x \in heard PROVE Kept(S, x)
  <2>1. x # 0 /\ Kept(m, x)
    BY <1>1, <1>5
  <2>2. previousSummary # NoSummary => Summaries(m) \subseteq previousSummary
    BY <1>1, <1>5
  <2> QED
    BY <1>1, <1>3, <2>1, <2>2, CompactionKeeps
<1>6. PICK task : task = FindInflightUserTask(m)
  OBVIOUS
<1>7. task \in SUBSET (0 .. k)
  BY ONLY <1>1, <1>6, TaskRange
<1>8. Shaped(result, k) /\ Covers(result, S)
  <2>1. result = ReappendInflightUserTask(S, task)
    BY <1>3, <1>6 DEF Finalized
  <2> QED
    BY ONLY k \in Nat, <1>4, <1>7, <2>1, ReappendShape
<1>9. Shaped(R, k) /\ Covers(R, result)
  <2>1. CASE R = result
    BY ONLY <1>8, <2>1 DEF Covers
  <2>2. CASE R = RestoreUserAfterHandoff(result)
    BY ONLY k \in Nat, owed \in 0 .. k, <1>8, <2>2, RestoreShape
  <2> QED
    BY <2>1, <2>2
<1>10. Summaries(R) \subseteq body
  BY ONLY <1>4, <1>8, <1>9 DEF Covers
<1>11. lapsing \/ \A x \in heard : Kept(R, x)
  <2> SUFFICES ASSUME ~lapsing, NEW x \in heard PROVE Kept(R, x)
    OBVIOUS
  <2>1. ~lapsed
    OBVIOUS
  <2>2. Kept(S, x)
    BY <1>5, <2>1
  <2> QED
    BY ONLY <1>8, <1>9, <2>2 DEF Covers
<1>12. PICK new : new = RememberedAfter(outcome, scan.previous, body)
  OBVIOUS
<1>13. CASE outcome = "ok"
  <2>1. new = body
    BY ONLY <1>12, <1>13 DEF RememberedAfter
  <2> QED
    BY ONLY <1>1, <1>2, <1>9, <1>10, <1>11, <1>12, <2>1 DEF Sound
<1>14. CASE outcome = "fallback"
  <2>1. new = scan.previous
    BY ONLY <1>12, <1>14 DEF RememberedAfter
  <2>2. lapsing \/ new = NoSummary
    BY <1>14, <2>1
  <2> QED
    BY ONLY <1>1, <1>2, <1>9, <1>11, <1>12, <2>1, <2>2 DEF Sound
<1> QED
  BY <1>13, <1>14

\* When the window holds only handoffs, the summary found in it is remembered.
LEMMA SoundRehydrated ==
    ASSUME NEW k \in Nat, NEW m, NEW heard, NEW lapsed,
           Sound(m, previousSummary, k, heard, lapsed), NEW decayed \in BOOLEAN,
           NEW w, w = CompressWindow(m, decayed), w.start < w.end,
           NEW scan, scan = ScanWindowHandoffs(m, w)
    PROVE  Sound(m, scan.previous, k, heard, lapsed)
<1>1. /\ Shaped(m, k) /\ (previousSummary = NoSummary \/ previousSummary \subseteq 1 .. k)
      /\ (lapsed \/ previousSummary = NoSummary \/ Summaries(m) \subseteq previousSummary)
      /\ (lapsed \/ \A x \in heard : Kept(m, x)) /\ 0 \notin heard
  BY DEF Sound
<1>2. \/ scan.previous = NoSummary
      \/ scan.previous = IF previousSummary = NoSummary THEN Summaries(m) ELSE previousSummary
  BY <1>1, ScanRows
<1>3. Summaries(m) \subseteq 1 .. k
  BY ONLY <1>1, SummariesRange
<1>4. CASE scan.previous = NoSummary
  BY ONLY <1>1, <1>4 DEF Sound
<1>5. CASE scan.previous = Summaries(m)
  BY ONLY <1>1, <1>3, <1>5 DEF Sound
<1>6. CASE scan.previous = previousSummary
  BY ONLY <1>1, <1>6 DEF Sound
<1>7. \/ scan.previous = NoSummary \/ scan.previous = Summaries(m)
      \/ scan.previous = previousSummary
  BY ONLY <1>2
<1> QED
  BY ONLY <1>4, <1>5, <1>6, <1>7

-----------------------------------------------------------------------------
(* The invariant: it holds at first, every step keeps it, and it implies the
   properties. *)

\* The inductive invariant.
IInv ==
    /\ rows \in Nat /\ rows <= MaxRows /\ owed \in 0 .. rows
    /\ compressed \in BOOLEAN /\ unfolded \in BOOLEAN
    /\ Sound(transcript, previousSummary, rows, said, unfolded)

\* It holds of the conversation's first request.
LEMMA InitSound == Init => IInv
<1> SUFFICES ASSUME Init PROVE IInv
  OBVIOUS
<1>1. PICK a, b : a = [PlainRow("system", 0) EXCEPT !.live = {}] /\ b = PlainRow("user", 1)
  OBVIOUS
<1>2. /\ transcript = <<a, b>> /\ previousSummary = NoSummary /\ compressed = FALSE /\ rows = 1
      /\ owed = 1 /\ said = {1} /\ unfolded = FALSE
  BY <1>1 DEF Init
<1>3. /\ GoodRow(b, 1) /\ b \in Row /\ b.role = "user" /\ b.handoff = "none" /\ b.live = {1}
      /\ b.sum = {}
  <2>1. 1 \in Nat /\ 1 \in 0 .. 1
    OBVIOUS
  <2> QED
    BY <1>1, <2>1, SpokenRow
<1>4. GoodRow(a, 1) /\ a \in Row /\ a.role = "system" /\ a.handoff = "none" /\ a.sum = {}
  <2>1. PlainRow("system", 0) \in Row
    BY DEF PlainRow, Row
  <2>2. a \in Row
    BY ONLY <1>1, <2>1 DEF Row
  <2>3. /\ a.role = "system" /\ a.handoff = "none" /\ a.sum = {} /\ a.live = {} /\ a.after = {}
        /\ a.calls = {} /\ a.kind = "plain" /\ a.text = TRUE
    BY ONLY <1>1 DEF PlainRow
  <2> QED
    BY ONLY <2>2, <2>3 DEF GoodRow
<1>5. PICK m : m = <<a, b>>
  OBVIOUS
<1>6. m \in Seq(Row) /\ Len(m) = 2 /\ m[1] = a /\ m[2] = b /\ \A i \in 1 .. Len(m) : i = 1 \/ i = 2
  BY ONLY <1>3, <1>4, <1>5
<1>7. Shaped(m, 1)
  <2>1. \A i \in 1 .. Len(m) : m[i].handoff = "none" /\ m[i].role # "tool" /\ GoodRow(m[i], 1)
    BY ONLY <1>3, <1>4, <1>6
  <2>2. Paired(m) /\ OneHandoff(m) /\ Placed(m)
    BY ONLY <2>1 DEF Paired, OneHandoff, Placed
  <2> QED
    BY ONLY <1>4, <1>6, <2>1, <2>2 DEF Shaped
<1>8. Summaries(m) = {}
  <2>1. DOMAIN m = 1 .. 2
    BY ONLY <1>6
  <2> QED
    BY ONLY <1>3, <1>4, <1>6, <2>1 DEF Summaries
<1>9. Kept(m, 1)
  <2>1. 2 \in 1 .. Len(m) /\ m[2].role # "tool" /\ Says(m[2], 1)
    BY ONLY <1>3, <1>6 DEF Says
  <2> QED
    BY ONLY <2>1 DEF Kept
<1>10. Sound(m, NoSummary, 1, {1}, FALSE)
  BY ONLY <1>7, <1>9 DEF Sound
<1>11. MaxRows \in Nat /\ MaxRows >= 1
  BY CompactionAssumption
<1>12. Sound(transcript, previousSummary, rows, said, unfolded)
  BY ONLY <1>2, <1>5, <1>10
<1>13. rows \in Nat /\ rows <= MaxRows /\ owed \in 0 .. rows
  BY ONLY <1>2, <1>11
<1>14. compressed \in BOOLEAN /\ unfolded \in BOOLEAN
  BY ONLY <1>2
<1> QED
  BY ONLY <1>12, <1>13, <1>14 DEF IInv

\* A row that is said keeps it.
LEMMA SaySound ==
    ASSUME IInv, NEW r, Say(r), GoodRow(r, rows + 1), r.handoff = "none", 0 \notin r.live,
           r.role = "tool" => LastRow.role = "assistant" /\ r.ans \in LastRow.calls,
           owed' \in 0 .. rows'
    PROVE  IInv'
<1>1. /\ rows \in Nat /\ rows < MaxRows /\ rows' = rows + 1 /\ transcript' = Append(transcript, r)
      /\ said' = (IF r.role = "tool" THEN said ELSE said \cup r.live)
      /\ previousSummary' = previousSummary /\ compressed' = compressed /\ unfolded' = unfolded
  BY DEF Say, IInv
<1>2. /\ Sound(transcript, previousSummary, rows, said, unfolded)
      /\ compressed \in BOOLEAN /\ unfolded \in BOOLEAN
  BY DEF IInv
<1>3. PICK k, l : k = rows /\ l = rows + 1
  OBVIOUS
<1>4. k \in Nat /\ l \in Nat /\ k <= l /\ GoodRow(r, l)
  BY <1>1, <1>3
<1>5. PICK now : now = IF r.role = "tool" THEN said ELSE said \cup r.live
  OBVIOUS
<1>6. 0 \notin said
  BY <1>2 DEF Sound
<1>7. 0 \notin now /\ \A x \in now : x \in said \/ (r.role # "tool" /\ x \in r.live)
  BY <1>5, <1>6
<1>8. r.role = "tool" => /\ transcript[Len(transcript)].role = "assistant"
                         /\ r.ans \in transcript[Len(transcript)].calls
  BY DEF LastRow
<1>9. Sound(transcript, previousSummary, k, said, unfolded)
  BY <1>2, <1>3
<1>10. Sound(Append(transcript, r), previousSummary, l, now, unfolded)
  BY ONLY <1>4, <1>7, <1>8, <1>9, r.handoff = "none", SoundAppend
<1>11. Sound(transcript', previousSummary', rows', said', unfolded')
  BY ONLY <1>1, <1>3, <1>5, <1>10
<1>12. rows' \in Nat /\ rows' <= MaxRows
  <2>1. MaxRows \in Nat
    BY CompactionAssumption
  <2> QED
    BY ONLY <1>1, <2>1
<1> QED
  BY ONLY <1>1, <1>2, <1>11, <1>12, owed' \in 0 .. rows' DEF IInv

\* A step of compress() keeps it.
LEMMA CompressSound == IInv /\ Compress => IInv'
<1> SUFFICES ASSUME IInv, Compress PROVE IInv'
  OBVIOUS
<1>1. PICK m : m = DropBlankEchoes(transcript)
  OBVIOUS
<1>2. PICK w : w = CompressWindow(m, Decayed)
  OBVIOUS
<1>3. PICK scan : scan = ScanWindowHandoffs(m, w)
  OBVIOUS
<1>4. \/ NothingToCompress(m, w)
      \/ w.start < w.end /\ OnlyHandoffs(m, scan)
      \/ w.start < w.end /\ \E outcome \in Outcomes \cap {"ok", "fallback"}, restarting \in BOOLEAN :
             Compact(m, w, scan, outcome, restarting)
      \/ SummaryAborted(m, scan)
  BY <1>1, <1>2, <1>3 DEF Compress
<1>5. /\ rows \in Nat /\ rows <= MaxRows /\ owed \in 0 .. rows
      /\ compressed \in BOOLEAN /\ unfolded \in BOOLEAN
      /\ Sound(transcript, previousSummary, rows, said, unfolded)
  BY DEF IInv
<1>6. Decayed \in BOOLEAN
  BY DEF Decayed
<1>7. Shaped(m, rows) /\ Covers(m, transcript)
  <2>1. Shaped(transcript, rows)
    BY ONLY <1>5 DEF Sound
  <2> QED
    BY ONLY <1>1, <2>1, EchoesDropped
<1>8. Sound(m, previousSummary, rows, said, unfolded)
  BY ONLY <1>5, <1>7, SoundCovered
<1>9. CASE NothingToCompress(m, w) \/ SummaryAborted(m, scan)
  <2>1. /\ transcript' = m /\ previousSummary' = previousSummary /\ compressed' = compressed
        /\ rows' = rows /\ owed' = owed /\ said' = said /\ unfolded' = unfolded
    BY <1>9 DEF NothingToCompress, SummaryAborted
  <2> QED
    BY ONLY <1>5, <1>8, <2>1 DEF IInv
<1>10. CASE w.start < w.end /\ OnlyHandoffs(m, scan)
  <2>1. /\ transcript' = m /\ previousSummary' = scan.previous /\ compressed' = compressed
        /\ rows' = rows /\ owed' = owed /\ said' = said /\ unfolded' = unfolded
    BY <1>10 DEF OnlyHandoffs
  <2>2. Sound(m, scan.previous, rows, said, unfolded)
    BY ONLY <1>2, <1>3, <1>5, <1>6, <1>8, <1>10, SoundRehydrated
  <2> QED
    BY ONLY <1>5, <2>1, <2>2 DEF IInv
<1>11. ASSUME w.start < w.end, NEW outcome \in Outcomes \cap {"ok", "fallback"},
              NEW restarting \in BOOLEAN, Compact(m, w, scan, outcome, restarting)
       PROVE  IInv'
  <2>1. PICK body : body = Contents(scan.previous) \cup (Live(scan.turns) \ {0})
    OBVIOUS
  <2>2. PICK result : result = Finalized(m, AssembleCompressed(m, w, scan, body))
    OBVIOUS
  <2>3. PICK lapsing : lapsing = (unfolded \/ (outcome = "fallback" /\ scan.previous # NoSummary))
    OBVIOUS
  <2>4. PICK R : R = IF restarting THEN RestoreUserAfterHandoff(result) ELSE result
    OBVIOUS
  <2>5. /\ transcript' = R
        /\ previousSummary' = RememberedAfter(outcome, scan.previous, body)
        /\ unfolded' = lapsing /\ compressed' = TRUE
        /\ rows' = rows /\ owed' = owed /\ said' = said
    BY <1>11, <2>1, <2>2, <2>3, <2>4 DEF Compact
  <2>6. R = result \/ R = RestoreUserAfterHandoff(result)
    BY ONLY <2>4
  <2>7. outcome \in {"ok", "fallback"} /\ w.start < w.end /\ lapsing \in BOOLEAN
    BY ONLY <1>5, <1>11, <2>3, outcome \in Outcomes \cap {"ok", "fallback"}
  <2>8. Sound(R, RememberedAfter(outcome, scan.previous, body), rows, said, lapsing)
    BY ONLY <1>2, <1>3, <1>5, <1>6, <1>8, <2>1, <2>2, <2>3, <2>6, <2>7, SoundCompacted
  <2> QED
    BY ONLY <1>5, <2>5, <2>7, <2>8 DEF IInv
<1> QED
  BY ONLY <1>4, <1>9, <1>10, <1>11

\* Every step keeps it.
LEMMA NextSound == IInv /\ [Next]_vars => IInv'
<1> SUFFICES ASSUME IInv, [Next]_vars PROVE IInv'
  OBVIOUS
<1>1. /\ rows \in Nat /\ rows <= MaxRows /\ owed \in 0 .. rows /\ MaxRows \in Nat
      /\ compressed \in BOOLEAN /\ unfolded \in BOOLEAN
      /\ Sound(transcript, previousSummary, rows, said, unfolded)
  BY CompactionAssumption DEF IInv
<1>2. Shaped(transcript, rows) /\ transcript \in Seq(Row) /\ 0 \notin said
  BY ONLY <1>1 DEF Sound, Shaped
<1>3. PICK l : l = rows + 1
  OBVIOUS
<1>4. l \in Nat /\ l \in 0 .. l /\ l # 0 /\ rows <= l
  BY ONLY <1>1, <1>3
<1>5. CASE Ask
  <2>1. PICK r : r = PlainRow("user", l)
    OBVIOUS
  <2>2. Say(r) /\ owed' = rows + 1 /\ rows' = rows + 1
    BY <1>3, <1>5, <2>1 DEF Ask, Say
  <2>3. GoodRow(r, l) /\ r.role = "user" /\ r.handoff = "none" /\ r.live = {l}
    BY ONLY <1>4, <2>1, SpokenRow
  <2>4. /\ GoodRow(r, rows + 1) /\ 0 \notin r.live /\ r.role # "tool" /\ owed' \in 0 .. rows'
    BY ONLY <1>1, <1>3, <1>4, <2>2, <2>3
  <2> QED
    BY <2>2, <2>3, <2>4, SaySound
<1>6. CASE FinalAnswer
  <2>1. PICK r : r = PlainRow("assistant", l)
    OBVIOUS
  <2>2. Say(r) /\ owed' = 0 /\ rows' = rows + 1
    BY <1>3, <1>6, <2>1 DEF FinalAnswer, Say
  <2>3. GoodRow(r, l) /\ r.role = "assistant" /\ r.handoff = "none" /\ r.live = {l}
    BY ONLY <1>4, <2>1, SpokenRow
  <2>4. /\ GoodRow(r, rows + 1) /\ 0 \notin r.live /\ r.role # "tool" /\ owed' \in 0 .. rows'
    BY ONLY <1>1, <1>3, <1>4, <2>2, <2>3
  <2> QED
    BY <2>2, <2>3, <2>4, SaySound
<1>7. ASSUME NEW speaks \in BOOLEAN, CallTool(speaks) PROVE IInv'
  <2>1. PICK live : live = IF speaks THEN {l} ELSE {}
    OBVIOUS
  <2>2. PICK p : p = PlainRow("assistant", l)
    OBVIOUS
  <2>3. PICK r : r = [p EXCEPT !.calls = {l}, !.text = speaks, !.stop = FALSE, !.live = live]
    OBVIOUS
  <2>4. Say(r) /\ owed' = owed /\ rows' = rows + 1
    BY <1>3, <1>7, <2>1, <2>2, <2>3 DEF CallTool, Say
  <2>5. /\ GoodRow(p, l) /\ p \in Row /\ p.role = "assistant" /\ p.handoff = "none"
        /\ p.sum = {} /\ p.after = {}
    BY ONLY <1>4, <2>2, SpokenRow
  <2>6. {l} \subseteq Nat /\ live \subseteq {l} /\ (~speaks => live = {})
    BY ONLY <1>4, <2>1
  <2>7. p.kind = "plain"
    BY ONLY <2>2 DEF PlainRow
  <2>8. /\ r \in Row /\ r.role = "assistant" /\ r.handoff = "none" /\ r.sum = {} /\ r.after = {}
        /\ r.calls = {l} /\ r.text = speaks /\ r.live = live /\ r.kind = "plain"
    BY ONLY <2>3, <2>5, <2>6, <2>7, speaks \in BOOLEAN DEF Row
  <2>9. GoodRow(r, l)
    BY ONLY <1>4, <2>6, <2>8 DEF GoodRow
  <2>10. /\ GoodRow(r, rows + 1) /\ 0 \notin r.live /\ r.role # "tool" /\ owed' \in 0 .. rows'
    BY ONLY <1>1, <1>3, <1>4, <2>4, <2>6, <2>8, <2>9
  <2> QED
    BY <2>4, <2>8, <2>10, SaySound
<1>8. CASE ToolResult
  <2>1. PICK call \in LastRow.calls : /\ Say([PlainRow("tool", rows + 1) EXCEPT !.ans = call])
                                      /\ LastRow.role = "assistant" /\ owed' = owed
    BY <1>8 DEF ToolResult
  <2>2. PICK p : p = PlainRow("tool", l)
    OBVIOUS
  <2>3. PICK r : r = [p EXCEPT !.ans = call]
    OBVIOUS
  <2>4. Say(r) /\ owed' = owed /\ rows' = rows + 1
    BY <1>3, <2>1, <2>2, <2>3 DEF Say
  <2>5. /\ GoodRow(p, l) /\ p \in Row /\ p.role = "tool" /\ p.handoff = "none" /\ p.live = {l}
        /\ p.sum = {} /\ p.after = {} /\ p.calls = {}
    BY ONLY <1>4, <2>2, SpokenRow
  <2>6. call \in Nat
    <3>1. Len(transcript) \in 1 .. Len(transcript)
      BY ONLY <1>2 DEF Shaped
    <3>2. LastRow \in Row
      BY ONLY <1>2, <3>1 DEF LastRow
    <3> QED
      BY ONLY <3>2, call \in LastRow.calls DEF Row
  <2>7. /\ r \in Row /\ r.role = "tool" /\ r.handoff = "none" /\ r.sum = {} /\ r.after = {}
        /\ r.calls = {} /\ r.text = p.text /\ r.live = {l} /\ r.kind = p.kind /\ r.ans = call
    BY ONLY <2>3, <2>5, <2>6 DEF Row
  <2>8. GoodRow(r, l)
    BY ONLY <2>5, <2>7 DEF GoodRow
  <2>9. /\ GoodRow(r, rows + 1) /\ 0 \notin r.live /\ owed' \in 0 .. rows'
    BY ONLY <1>1, <1>3, <1>4, <2>4, <2>7, <2>8
  <2>10. LastRow.role = "assistant" /\ r.ans \in LastRow.calls
    BY <2>1, <2>7
  <2> QED
    BY <2>4, <2>7, <2>9, <2>10, SaySound
<1>9. CASE BlankEcho
  <2>1. PICK p : p = PlainRow("user", 0)
    OBVIOUS
  <2>2. PICK r : r = [p EXCEPT !.live = {}, !.kind = "blank", !.text = FALSE]
    OBVIOUS
  <2>3. /\ transcript' = Append(transcript, r)
        /\ previousSummary' = previousSummary /\ compressed' = compressed /\ rows' = rows
        /\ owed' = owed /\ said' = said /\ unfolded' = unfolded
    BY <1>9, <2>1, <2>2 DEF BlankEcho
  <2>4. /\ p \in Row /\ p.role = "user" /\ p.handoff = "none" /\ p.sum = {} /\ p.after = {}
        /\ p.calls = {}
    <3>1. 0 \in 0 .. rows
      BY ONLY <1>1
    <3> QED
      BY ONLY <1>1, <2>1, <3>1, SpokenRow
  <2>5. /\ r \in Row /\ r.role = "user" /\ r.handoff = "none" /\ r.sum = {} /\ r.after = {}
        /\ r.calls = {} /\ r.text = FALSE /\ r.live = {} /\ r.kind = "blank"
    BY ONLY <2>2, <2>4 DEF Row
  <2>6. GoodRow(r, rows)
    BY ONLY <2>5 DEF GoodRow
  <2>7. Sound(Append(transcript, r), previousSummary, rows, said, unfolded)
    <3>1. rows <= rows /\ r.role # "tool" /\ \A x \in said : x \in said
      BY ONLY <1>1, <2>5
    <3> QED
      BY ONLY <1>1, <1>2, <2>5, <2>6, <3>1, SoundAppend
  <2> QED
    BY ONLY <1>1, <2>3, <2>7 DEF IInv
<1>10. CASE Nudge
  <2>1. PICK p, q : p = PlainRow("assistant", l) /\ q = PlainRow("user", 0)
    OBVIOUS
  <2>2. PICK a, b : a = [p EXCEPT !.stop = FALSE] /\ b = [q EXCEPT !.kind = "scaffold"]
    OBVIOUS
  <2>3. /\ transcript' = transcript \o <<a, b>> /\ rows < MaxRows /\ rows' = rows + 1
        /\ said' = said \cup {l} /\ owed' = owed
        /\ previousSummary' = previousSummary /\ compressed' = compressed /\ unfolded' = unfolded
    BY <1>3, <1>10, <2>1, <2>2 DEF Nudge
  <2>4. /\ GoodRow(p, l) /\ p \in Row /\ p.role = "assistant" /\ p.handoff = "none"
        /\ p.live = {l} /\ p.sum = {} /\ p.after = {} /\ p.calls = {}
    BY ONLY <1>4, <2>1, SpokenRow
  <2>5. /\ GoodRow(q, l) /\ q \in Row /\ q.role = "user" /\ q.handoff = "none" /\ q.live = {0}
        /\ q.sum = {} /\ q.after = {} /\ q.calls = {}
    <3>1. 0 \in 0 .. l
      BY ONLY <1>4
    <3> QED
      BY ONLY <1>4, <2>1, <3>1, SpokenRow
  <2>6. a \in Row /\ GoodRow(a, l) /\ a.role = "assistant" /\ a.handoff = "none" /\ a.live = {l}
    <3>1. /\ a \in Row /\ a.role = p.role /\ a.kind = p.kind /\ a.live = p.live /\ a.text = p.text
          /\ a.calls = p.calls /\ a.handoff = p.handoff /\ a.sum = p.sum /\ a.after = p.after
      BY ONLY <2>2, <2>4 DEF Row
    <3> QED
      BY ONLY <2>4, <3>1 DEF GoodRow
  <2>7. b \in Row /\ GoodRow(b, l) /\ b.role = "user" /\ b.handoff = "none"
    <3>1. /\ b \in Row /\ b.role = q.role /\ b.kind = "scaffold" /\ b.live = q.live
          /\ b.text = q.text
          /\ b.calls = q.calls /\ b.handoff = q.handoff /\ b.sum = q.sum /\ b.after = q.after
      BY ONLY <2>2, <2>5 DEF Row
    <3> QED
      BY ONLY <2>5, <3>1 DEF GoodRow
  <2>8. PICK now : now = said \cup {l}
    OBVIOUS
  <2>9. PICK one : one = Append(transcript, a)
    OBVIOUS
  <2>10. 0 \notin now
    BY ONLY <1>2, <1>4, <2>8
  <2>11. Sound(one, previousSummary, l, now, unfolded)
    <3>1. a.role # "tool" /\ \A x \in now : x \in said \/ (a.role # "tool" /\ x \in a.live)
      BY ONLY <2>6, <2>8
    <3>2. Sound(Append(transcript, a), previousSummary, l, now, unfolded)
      BY ONLY <1>1, <1>4, <2>6, <2>10, <3>1, SoundAppend
    <3> QED
      BY ONLY <2>9, <3>2
  <2>12. Sound(Append(one, b), previousSummary, l, now, unfolded)
    <3>1. l <= l /\ b.role # "tool" /\ \A x \in now : x \in now
      BY ONLY <1>4, <2>7
    <3> QED
      BY ONLY <1>4, <2>7, <2>10, <2>11, <3>1, SoundAppend
  <2>13. transcript' = Append(one, b)
    <3>1. transcript \o <<a, b>> = Append(Append(transcript, a), b)
      BY ONLY <1>2, <2>6, <2>7
    <3> QED
      BY ONLY <2>3, <2>9, <3>1
  <2>14. rows' = l /\ said' = now /\ rows' <= MaxRows /\ owed' \in 0 .. rows' /\ rows' \in Nat
    BY ONLY <1>1, <1>3, <2>3, <2>8
  <2> QED
    BY ONLY <1>1, <2>3, <2>12, <2>13, <2>14 DEF IInv
<1>11. CASE Compress
  BY <1>11, CompressSound
<1>12. ASSUME NEW i \in DOMAIN transcript, RetryTurn(i) PROVE IInv'
  <2>1. PICK ask \in UserTurn(transcript[i]) :
          /\ transcript' = Append(HistoryBefore(transcript, i),
                                  [PlainRow("user", 0) EXCEPT !.live = ask.live])
          /\ owed' \in ask.live
          /\ LET taken == SubSeq(transcript, i + 1, Len(transcript))
                 back == Live(taken) \cup Summaries(taken) \cup Restated(taken)
             IN  said' = (said \ back) \cup (ask.live \ {0})
    BY <1>12 DEF RetryTurn
  <2>2. PICK taken : taken = SubSeq(transcript, i + 1, Len(transcript))
    OBVIOUS
  <2>3. PICK back : back = Live(taken) \cup Summaries(taken) \cup Restated(taken)
    OBVIOUS
  <2>4. PICK R : R = Append(HistoryBefore(transcript, i), PlainTurn(ask.live))
    OBVIOUS
  <2>5. /\ transcript' = R /\ owed' \in ask.live /\ said' = (said \ back) \cup (ask.live \ {0})
        /\ previousSummary' = previousSummary /\ compressed' = compressed /\ rows' = rows
        /\ unfolded' = unfolded
    BY <1>12, <2>1, <2>2, <2>3, <2>4 DEF RetryTurn, PlainTurn
  <2>6. i \in 1 .. Len(transcript)
    BY ONLY <1>2, i \in DOMAIN transcript
  <2>7. /\ Shaped(R, rows) /\ Summaries(R) \subseteq Summaries(transcript)
        /\ ask.live \in SUBSET (0 .. rows)
        /\ \A x \in ask.live : Kept(R, x)
        /\ \A x : Kept(transcript, x) /\ x \notin back => Kept(R, x)
    <3>1. PICK m, k : m = transcript /\ k = rows
      OBVIOUS
    <3>2. k \in Nat /\ Shaped(m, k) /\ i \in 1 .. Len(m) /\ ask \in UserTurn(m[i])
      BY ONLY <1>1, <1>2, <2>6, <3>1, ask \in UserTurn(transcript[i])
    <3>3. back = TakenBack(m, i) /\ R = AskedAgain(m, i, ask)
      BY ONLY <2>2, <2>3, <2>4, <3>1 DEF TakenBack, AskedAgain
    <3>4. /\ Shaped(R, k) /\ Summaries(R) \subseteq Summaries(m)
          /\ ask.live \in SUBSET (0 .. k)
          /\ \A x \in ask.live : Kept(R, x)
          /\ \A x : Kept(m, x) /\ x \notin back => Kept(R, x)
      BY ONLY <3>2, <3>3, RetryShape
    <3> QED
      BY ONLY <3>1, <3>4
  <2>8. PICK now : now = (said \ back) \cup (ask.live \ {0})
    OBVIOUS
  <2>9. /\ (previousSummary = NoSummary \/ previousSummary \subseteq 1 .. rows)
        /\ (unfolded \/ previousSummary = NoSummary \/ Summaries(transcript) \subseteq previousSummary)
        /\ (unfolded \/ \A x \in said : Kept(transcript, x))
    BY ONLY <1>1 DEF Sound
  <2>10. unfolded \/ \A x \in now : Kept(R, x)
    <3> SUFFICES ASSUME ~unfolded, NEW x \in now PROVE Kept(R, x)
      OBVIOUS
    <3>1. CASE x \in ask.live
      BY ONLY <2>7, <3>1
    <3>2. CASE x \in said /\ x \notin back
      <4>1. Kept(transcript, x)
        BY ONLY <2>9, <3>2, ~unfolded
      <4> QED
        BY ONLY <2>3, <2>7, <3>2, <4>1
    <3> QED
      BY ONLY <2>8, <3>1, <3>2, x \in now
  <2>11. Sound(R, previousSummary, rows, now, unfolded)
    <3>1. 0 \notin now
      BY ONLY <1>2, <2>8
    <3>2. unfolded \/ previousSummary = NoSummary \/ Summaries(R) \subseteq previousSummary
      BY ONLY <2>7, <2>9
    <3> QED
      BY ONLY <2>7, <2>9, <2>10, <3>1, <3>2 DEF Sound
  <2>12. owed' \in 0 .. rows'
    BY ONLY <2>5, <2>7
  <2>13. Sound(transcript', previousSummary', rows', said', unfolded')
    BY ONLY <2>5, <2>8, <2>11
  <2> QED
    BY ONLY <1>1, <2>5, <2>12, <2>13 DEF IInv
<1>13. CASE Restart
  <2>1. PICK R : R = [i \in DOMAIN transcript |-> [transcript[i] EXCEPT !.flag = FALSE]]
    OBVIOUS
  <2>2. /\ transcript' = R /\ previousSummary' = NoSummary /\ compressed' = FALSE
        /\ rows' = rows /\ owed' = owed /\ said' = said /\ unfolded' = unfolded
    BY <1>13, <2>1 DEF Restart
  <2>3. Shaped(R, rows) /\ Covers(R, transcript)
    BY ONLY <1>2, <2>1, RestartShape
  <2>4. Sound(R, NoSummary, rows, said, unfolded)
    BY ONLY <1>1, <2>3, SoundCovered
  <2> QED
    BY ONLY <1>1, <2>2, <2>4 DEF IInv
<1>14. CASE UNCHANGED vars
  <2>1. /\ transcript' = transcript /\ previousSummary' = previousSummary /\ compressed' = compressed
        /\ rows' = rows /\ owed' = owed /\ said' = said /\ unfolded' = unfolded
    BY <1>14 DEF vars
  <2> QED
    BY ONLY <1>1, <2>1 DEF IInv
<1> QED
  BY <1>5, <1>6, <1>7, <1>8, <1>9, <1>10, <1>11, <1>12, <1>13, <1>14 DEF Next

\* It says what the properties say.
LEMMA SoundPairs == IInv => PairsKept
<1> SUFFICES ASSUME IInv PROVE PairsKept
  OBVIOUS
<1>1. /\ rows \in Nat /\ rows <= MaxRows /\ owed \in 0 .. rows
      /\ Shaped(transcript, rows)
      /\ previousSummary = NoSummary \/ previousSummary \subseteq 1 .. rows
  BY DEF IInv, Sound
<1>2. transcript \in Seq(Row) /\ DOMAIN transcript = 1 .. Len(transcript) /\ Len(transcript) \in Int
  BY ONLY <1>1 DEF Shaped
<1>3. ASSUME NEW i \in DOMAIN transcript
      PROVE  /\ DOMAIN transcript[i] = DOMAIN PlainRow("user", 1)
             /\ transcript[i].live \cup transcript[i].sum \cup transcript[i].after \subseteq 0 .. rows
             /\ IsContextSummary(transcript[i]) \/ transcript[i].sum \cup transcript[i].after = {}
             /\ ~OrphanedResult(transcript, i)
  <2>1. PICK r : r = transcript[i]
    OBVIOUS
  <2>2. i \in 1 .. Len(transcript) /\ GoodRow(r, rows)
    BY ONLY <1>1, <1>2, <2>1, i \in DOMAIN transcript DEF Shaped
  <2>3. r \in Row
    BY ONLY <2>2 DEF GoodRow
  <2>4. DOMAIN r = DOMAIN PlainRow("user", 1)
    BY ONLY <2>3 DEF Row, PlainRow
  <2>5. 1 .. rows \subseteq 0 .. rows
    BY ONLY <1>1
  <2>6. /\ r.live \cup r.sum \cup r.after \subseteq 0 .. rows
        /\ IsContextSummary(r) \/ r.sum \cup r.after = {}
    BY ONLY <2>2, <2>5 DEF GoodRow, IsContextSummary
  <2>7. ~OrphanedResult(transcript, i)
    <3>1. SUFFICES ASSUME transcript[i].role = "tool"
                   PROVE  \E j \in 1 .. i - 1 : transcript[i].ans \in transcript[j].calls
      BY DEF OrphanedResult
    <3>2. i > 1 /\ transcript[i].ans \in transcript[i - 1].calls
      BY ONLY <1>1, <2>2, <3>1 DEF Shaped, Paired
    <3>3. i - 1 \in 1 .. i - 1
      BY ONLY <2>2, <3>2, <1>2
    <3> QED
      BY ONLY <3>2, <3>3
  <2> QED
    BY ONLY <2>1, <2>4, <2>6, <2>7
<1>4. TypeOK
  BY ONLY <1>1, <1>3 DEF TypeOK
<1> QED
  BY ONLY <1>3, <1>4 DEF PairsKept

\* What was heard is kept, so it is in a row or in a summary.
LEMMA SoundKeeps == IInv => NothingLost
<1> SUFFICES ASSUME IInv, ~unfolded, NEW x \in said PROVE x \in Reachable
  BY DEF NothingLost
<1>1. Shaped(transcript, rows) /\ Kept(transcript, x)
  BY DEF IInv, Sound
<1>2. DOMAIN transcript = 1 .. Len(transcript)
  BY ONLY <1>1 DEF Shaped
<1>3. PICK i \in 1 .. Len(transcript) : Says(transcript[i], x)
  BY ONLY <1>1 DEF Kept
<1> QED
  BY ONLY <1>2, <1>3 DEF Says, Reachable, Live, Summaries, Restated

\* Whatever was said, compacted, retried or restarted: every tool result in the transcript follows
\* the call it answers, and only a handoff carries a summary.
THEOREM PairsKeptHolds == Spec => []PairsKept
<1>1. Init => IInv
  BY InitSound
<1>2. IInv /\ [Next]_vars => IInv'
  BY NextSound
<1>3. IInv => PairsKept
  BY SoundPairs
<1> QED
  BY <1>1, <1>2, <1>3, PTL DEF Spec

\* Everything said is in a row or in a summary, as long as every summary was remembered.
THEOREM NothingLostHolds == Spec => []NothingLost
<1>1. Init => IInv
  BY InitSound
<1>2. IInv /\ [Next]_vars => IInv'
  BY NextSound
<1>3. IInv => NothingLost
  BY SoundKeeps
<1> QED
  BY <1>1, <1>2, <1>3, PTL DEF Spec
=============================================================================
